----------------------------- MODULE RuleProofs -----------------------------
(***************************************************************************)
(* Theorems about what a rule becomes: the compiler drops nothing in       *)
(* silence, a swap neither loses a link unsaid nor keeps the old device,   *)
(* and a plan touches nothing of anybody else's, never overfills a group   *)
(* and leaves nothing to do, for every profile, device, set of links,      *)
(* capacity and mapping of controls.                                       *)
(***************************************************************************)
EXTENDS Compilation, Swap, PlanWalk, Loops, FiniteSetTheorems, SequenceTheorems, TLAPS

(***************************************************************************)
(* The compiler: what a rule asks for is linked, taken over by Home        *)
(* Assistant, or told of.  A feature of the rule reaches a target by a     *)
(* link or is named in an error; what an answer of a two-way rule cannot   *)
(* do is named in a warning or an error.                                   *)
(***************************************************************************)
LEMMA Said ==
  ASSUME NEW key, NEW about, NEW x \in about
  PROVE  <<key, x>> \in Says(key, about)
BY DEF Says

(* What Home Assistant takes over was asked for, and opted into.           *)
LEMMA TakenKinds ==
  ASSUME NEW r
  PROVE  /\ DOMAIN Taken(r) \subseteq r.features \cap {OnOff, Status}
         /\ OnOff \in DOMAIN Taken(r) => Taken(r)[OnOff] \in r.hybrid \cap {"on_only", "off_only"}
         /\ Status \in DOMAIN Taken(r) => Taken(r)[Status] \in r.hybrid \cap {"button_led"}
<1> USE FeatureAssumption
<1> DEFINE onOff == IF OnOff \in r.features THEN r.hybrid \cap {"on_only", "off_only"} ELSE {}
           status == IF Status \in r.features THEN r.hybrid \cap {"button_led"} ELSE {}
           kinds(f) == IF f = OnOff THEN onOff ELSE status
           some(f) == CHOOSE k \in kinds(f) : TRUE
           features == {OnOff : k \in onOff} \cup {Status : k \in status}
<1>1. Taken(r) = [f \in features |-> some(f)]
  BY DEF Taken
<1>2. /\ OnOff \in features <=> onOff # {}
      /\ Status \in features <=> status # {}
      /\ features \subseteq r.features \cap {OnOff, Status}
  OBVIOUS
<1>3. \A f : kinds(f) # {} => some(f) \in kinds(f)
  OBVIOUS
<1>4. /\ kinds(OnOff) = onOff /\ kinds(Status) = status
      /\ onOff \subseteq r.hybrid \cap {"on_only", "off_only"}
      /\ status \subseteq r.hybrid \cap {"button_led"}
  OBVIOUS
<1> HIDE DEF features, kinds, some, onOff, status
<1>5. QED  BY <1>1, <1>2, <1>3, <1>4

(* What a compilation is made of. *)
LEMMA PartsSaid ==
  ASSUME NEW r, NEW e, NEW capabilities
  PROVE  LET c == Compiled(r, e, capabilities) IN
         /\ c.legs = LegsOf(r, e, capabilities)
         /\ Unavailable(r, e) \subseteq c.warnings \cup c.errors
         /\ Resolved(r, e) = {} => Unavailable(r, e) \subseteq c.errors
         /\ Says("two_way_target_has_no_control",
                 Reversed(r, e, capabilities) \ Answering(r, e, capabilities)) \subseteq c.warnings
         /\ Downgrades(r, e, capabilities) \subseteq c.warnings
         /\ Deaf(r, e, capabilities) \subseteq c.errors
         /\ TargetErrors(r, capabilities) \subseteq c.errors
         /\ HybridErrors(r, e, capabilities) \subseteq c.errors
BY DEF Compiled, WarningsOf, ErrorsOf

(* The part of each target is in it, there and back. *)
LEMMA PartsThere ==
  ASSUME NEW r, NEW e, NEW capabilities, NEW t \in Usable(r, capabilities)
  PROVE  LET c == Compiled(r, e, capabilities) IN
         /\ LegLinks(r.source, r.from, e, t.device, t.endpoint, Resolved(r, e), capabilities)
              \subseteq c.links
         /\ LegWarnings(e, t.device, t.endpoint, Resolved(r, e), capabilities)
              \subseteq c.warnings
         /\ LegErrors(t.device, Resolved(r, e), capabilities) \subseteq c.errors
<1>1. LegLinks(r.source, r.from, e, t.device, t.endpoint, Resolved(r, e), capabilities)
        \subseteq LinksThere(r, e, capabilities)
  BY DEF LinksThere
<1>2. LegWarnings(e, t.device, t.endpoint, Resolved(r, e), capabilities)
        \subseteq Downgrades(r, e, capabilities)
  BY DEF Downgrades
<1>3. LegErrors(t.device, Resolved(r, e), capabilities) \subseteq Deaf(r, e, capabilities)
  BY DEF Deaf
<1>4. LinksThere(r, e, capabilities) \subseteq Compiled(r, e, capabilities).links
  BY DEF Compiled
<1>5. QED  BY <1>1, <1>2, <1>3, <1>4, PartsSaid

LEMMA PartsBack ==
  ASSUME NEW r, NEW e, NEW capabilities, NEW d \in Answering(r, e, capabilities)
  PROVE  LET c == Compiled(r, e, capabilities)
             answer == AnswerFrom(r, e, capabilities[d]) IN
         /\ LegLinks(d, answer.from, answer, r.source, Home(r, capabilities[r.source]),
                     Returning(r, e), capabilities) \subseteq c.links
         /\ LegErrors(r.source, Returning(r, e), capabilities) \subseteq c.errors
<1> DEFINE answer == AnswerFrom(r, e, capabilities[d])
           refused == LegErrors(r.source, Returning(r, e), capabilities)
<1>1. LegLinks(d, answer.from, answer, r.source, Home(r, capabilities[r.source]),
               Returning(r, e), capabilities) \subseteq LinksBack(r, e, capabilities)
  BY DEF LinksBack
<1>2. refused \in {refused : x \in Answering(r, e, capabilities)}
  OBVIOUS
<1>3. refused \subseteq Deaf(r, e, capabilities)
  BY <1>2 DEF Deaf
<1>4. LinksBack(r, e, capabilities) \subseteq Compiled(r, e, capabilities).links
  BY DEF Compiled
<1>5. QED  BY <1>1, <1>3, <1>4, PartsSaid

(* A target that cannot be written to is named in an error. *)
LEMMA UnusableTold ==
  ASSUME NEW r, NEW capabilities, NEW t \in r.targets, t \notin Usable(r, capabilities)
  PROVE  \/ <<"unknown_device", t.device>> \in TargetErrors(r, capabilities)
         \/ <<"target_is_long_range", t.device>> \in TargetErrors(r, capabilities)
         \/ /\ t.device = r.source
            /\ "self_load" \notin r.hybrid =>
                 <<"self_association_use_hybrid_leg", t.device>> \in TargetErrors(r, capabilities)
<1> DEFINE others == {u.device : u \in r.targets} \ {r.source}
           far == {d \in others \cap DOMAIN capabilities : capabilities[d].longRange}
           own == IF "self_load" \in r.hybrid THEN {}
                  ELSE {u.device : u \in r.targets} \cap {r.source}
<1>1. TargetErrors(r, capabilities) =
        Says("unknown_device", others \ DOMAIN capabilities)
        \cup Says("target_is_long_range", far)
        \cup Says("self_association_use_hybrid_leg", own)
  BY DEF TargetErrors
<1>2. \/ t.device \in others \ DOMAIN capabilities
      \/ t.device \in far
      \/ t.device = r.source /\ ("self_load" \notin r.hybrid => t.device \in own)
  BY DEF Usable, IsSelf
<1> HIDE DEF others, far, own
<1>3. QED  BY <1>1, <1>2, Said

(* A leg that is wished for is executed, or said to be impossible.         *)
LEMMA WishedOrTold ==
  ASSUME NEW r, NEW e, NEW capabilities, NEW leg \in Wished(r, e, capabilities)
  PROVE  \/ leg \in LegsOf(r, e, capabilities)
         \/ <<"hybrid_leg_impossible", leg.kind>> \in HybridErrors(r, e, capabilities)
<1> DEFINE impossible == {l.kind : l \in {k \in Wished(r, e, capabilities) :
                                            ~Executable(k.kind, e)}}
<1>1. leg \in LegsOf(r, e, capabilities) \/ leg.kind \in impossible
  BY DEF LegsOf
<1>2. Says("hybrid_leg_impossible", impossible) \subseteq HybridErrors(r, e, capabilities)
  BY DEF HybridErrors
<1> HIDE DEF impossible
<1>3. QED  BY <1>1, <1>2, Said

(* What is said of a part of the compilation has been said. *)
LEMMA MentionedIn ==
  ASSUME NEW e, outcome = Compiled(rule, e, CompileHouse), NEW key, NEW about,
         \/ <<key, about>> \in Unavailable(rule, e)
         \/ <<key, about>> \in TargetErrors(rule, CompileHouse)
         \/ <<key, about>> \in HybridErrors(rule, e, CompileHouse)
         \/ <<key, about>> \in Downgrades(rule, e, CompileHouse)
         \/ <<key, about>> \in Deaf(rule, e, CompileHouse)
  PROVE  Mentioned(key, about)
BY PartsSaid DEF Mentioned

(* A feature Home Assistant takes over has a leg to each usable target, or *)
(* the author is told why not.                                             *)
LEMMA TakenAccounted ==
  ASSUME NEW e, outcome = Compiled(rule, e, CompileHouse), e.id = rule.emitter,
         NEW t \in Usable(rule, CompileHouse), NEW f \in DOMAIN Taken(rule)
  PROVE  Accounted(t, f)
<1> DEFINE kind == Taken(rule)[f]
           leg == LegOf(rule, kind, e, f, t.device, t.endpoint)
<1>1. kind \in rule.hybrid /\ (f = Status \/ kind # "button_led") /\ f \in {OnOff, Status}
  BY TakenKinds
<1>2. leg.kind = kind /\ leg.target = t.device /\ leg.feature = f /\ leg.endpoint = t.endpoint
  BY DEF LegOf
<1>5. ServedBy(kind, t, f)
  <2>1. t.device # rule.source
    BY DEF Usable, IsSelf
  <2>2. \/ f = OnOff /\ kind \in {"on_only", "off_only"}
        \/ f = Status /\ kind = "button_led"
    BY TakenKinds
  <2> HIDE DEF kind
  <2>3. QED  BY <2>1, <2>2 DEF ServedBy
<1>3. CASE kind # "button_led" \/ ~TooManyLeds(rule, CompileHouse)
  <2>1. leg \in TakenLegs(rule, e, CompileHouse)
    <3> DEFINE legs(g) == {LegOf(rule, Taken(rule)[g], e, g, u.device, u.endpoint) :
                             u \in Usable(rule, CompileHouse)}
               led == {g \in DOMAIN Taken(rule) :
                         Taken(rule)[g] # "button_led" \/ ~TooManyLeds(rule, CompileHouse)}
    <3>1. f \in led
      BY <1>3
    <3>2. leg \in legs(f)
      OBVIOUS
    <3>3. TakenLegs(rule, e, CompileHouse) = UNION {legs(g) : g \in led}
      BY DEF TakenLegs
    <3> HIDE DEF legs, led, leg
    <3>4. QED  BY <3>1, <3>2, <3>3
  <2>2. \/ leg \in LegsOf(rule, e, CompileHouse)
        \/ <<"hybrid_leg_impossible", leg.kind>> \in HybridErrors(rule, e, CompileHouse)
    BY <2>1, WishedOrTold DEF Wished
  <2> HIDE DEF leg
  <2>3. leg \in outcome.legs \/ Mentioned("hybrid_leg_impossible", kind)
    BY <1>2, <2>2, PartsSaid, MentionedIn
  <2>4. ServedBy(kind, t, f)
    BY <1>5
  <2> HIDE DEF kind
  <2>5. CASE leg \in outcome.legs
    BY <1>2, <2>5 DEF Accounted, Executed
  <2>6. CASE Mentioned("hybrid_leg_impossible", kind)
    BY <1>1, <2>4, <2>6 DEF Accounted, Diagnosed
  <2>7. QED  BY <2>3, <2>5, <2>6
<1>4. CASE kind = "button_led" /\ TooManyLeds(rule, CompileHouse)
  <2>1. f = Status
    BY <1>1, <1>4
  <2>2. <<"hybrid_button_led_one_target", e.id>> \in HybridErrors(rule, e, CompileHouse)
    BY <1>4, <2>1, Said DEF HybridErrors
  <2>3. Mentioned("hybrid_button_led_one_target", rule.emitter)
    BY <2>2, MentionedIn
  <2>4. QED  BY <1>4, <1>5, <2>3 DEF Accounted, Diagnosed
<1>6. QED  BY <1>3, <1>4

(* Every feature asked of the control reaches each usable target, or the   *)
(* author is told that the control or the target has not got it.           *)
LEMMA AskedAccounted ==
  ASSUME NEW e, outcome = Compiled(rule, e, CompileHouse), e.id = rule.emitter,
         NEW t \in Usable(rule, CompileHouse), NEW f \in Asked(rule)
  PROVE  Accounted(t, f)
<1>1. CASE f \notin Resolved(rule, e)
  <2>1. <<"feature_unavailable", f>> \in Unavailable(rule, e)
    BY <1>1, Said DEF Unavailable
  <2>2. QED  BY <2>1, MentionedIn DEF Accounted, Diagnosed
<1>2. CASE f \in Resolved(rule, e) /\ f \notin CompileHouse[t.device].receives
  <2>1. <<"target_cannot_receive", <<t.device, f>>>>
          \in LegErrors(t.device, Resolved(rule, e), CompileHouse)
    BY <1>2 DEF LegErrors, Says
  <2>2. <<"target_cannot_receive", <<t.device, f>>>> \in outcome.errors
    BY <2>1, PartsThere
  <2>3. QED  BY <2>2 DEF Accounted, Diagnosed, Mentioned
<1>3. CASE f \in Resolved(rule, e) /\ f \in CompileHouse[t.device].receives
  <2> DEFINE link == [source |-> rule.source, from |-> rule.from, group |-> e.groups[f],
                      target |-> t.device, endpoint |-> EndpointFor(e, t.endpoint), feature |-> f]
  <2>1. link \in outcome.links
    <3>1. link \in LegLinks(rule.source, rule.from, e, t.device, t.endpoint, Resolved(rule, e),
                            CompileHouse)
      BY <1>3 DEF LegLinks
    <3> HIDE DEF link
    <3>2. QED  BY <3>1, PartsThere
  <2>2. /\ link.source = rule.source /\ link.target = t.device /\ link.feature = f
        /\ link.endpoint = EndpointFor(e, t.endpoint)
    OBVIOUS
  <2> HIDE DEF link
  <2>3. EndpointFor(e, t.endpoint) # t.endpoint =>
          Mentioned("multi_channel_downgrade", <<rule.emitter, t.device>>)
    <3>1. ASSUME EndpointFor(e, t.endpoint) # t.endpoint
          PROVE  <<"multi_channel_downgrade", <<e.id, t.device>>>>
                   \in LegWarnings(e, t.device, t.endpoint, Resolved(rule, e), CompileHouse)
      BY <1>3, <3>1 DEF LegWarnings, Says
    <3>2. QED  BY <3>1, PartsThere DEF Mentioned
  <2>4. QED  BY <2>1, <2>2, <2>3 DEF Accounted, DirectlyLinked
<1>4. QED  BY <1>1, <1>2, <1>3

(* A target that is the source itself is given on and off by a leg, or the *)
(* author is told that it cannot be made.                                  *)
LEMMA SelfAccounted ==
  ASSUME NEW e, outcome = Compiled(rule, e, CompileHouse),
         NEW t \in rule.targets, t.device = rule.source, "self_load" \in rule.hybrid
  PROVE  Accounted(t, OnOff)
<1> DEFINE leg == LegOf(rule, "self_load", e, OnOff, rule.source,
                        IF t.endpoint = NoEndpoint THEN CompileHouse[rule.source].at
                        ELSE t.endpoint)
<1>1. leg \in SelfLegs(rule, e, CompileHouse)
  BY DEF SelfLegs, SelfTargets, IsSelf
<1>2. /\ leg.kind = "self_load" /\ leg.target = t.device /\ leg.feature = OnOff
      /\ leg.endpoint = t.endpoint \/ t.endpoint = NoEndpoint
  BY DEF LegOf
<1>3. \/ leg \in LegsOf(rule, e, CompileHouse)
      \/ <<"hybrid_leg_impossible", leg.kind>> \in HybridErrors(rule, e, CompileHouse)
  BY <1>1, WishedOrTold DEF Wished
<1> HIDE DEF leg
<1>4. leg \in outcome.legs \/ Mentioned("hybrid_leg_impossible", "self_load")
  BY <1>2, <1>3, PartsSaid, MentionedIn
<1>5. ServedBy("self_load", t, OnOff)
  BY DEF ServedBy
<1>6. QED  BY <1>2, <1>4, <1>5 DEF Accounted, Executed, Diagnosed

LEMMA AllAccounted ==
  ASSUME NEW e, outcome = Compiled(rule, e, CompileHouse), e.id = rule.emitter,
         NEW t \in rule.targets, NEW f \in rule.features
  PROVE  LeftOut(t, f) \/ Accounted(t, f)
<1>1. CASE t \in Usable(rule, CompileHouse)
  BY <1>1, TakenAccounted, AskedAccounted DEF Asked
<1>2. CASE t \notin Usable(rule, CompileHouse)
  <2>1. \/ <<"unknown_device", t.device>> \in TargetErrors(rule, CompileHouse)
        \/ <<"target_is_long_range", t.device>> \in TargetErrors(rule, CompileHouse)
        \/ <<"self_association_use_hybrid_leg", t.device>> \in TargetErrors(rule, CompileHouse)
        \/ t.device = rule.source /\ "self_load" \in rule.hybrid
    BY <1>2, UnusableTold
  <2>2. CASE t.device = rule.source /\ "self_load" \in rule.hybrid
    BY <2>2, SelfAccounted DEF LeftOut
  <2>3. QED  BY <2>1, <2>2, MentionedIn DEF Accounted, Diagnosed
<1>3. QED  BY <1>1, <1>2

(* The other direction: a device answers, or has no control to.            *)
LEMMA BackAccounted ==
  ASSUME NEW e, outcome = Compiled(rule, e, CompileHouse), rule.twoWay,
         NEW t \in rule.targets, t.device # rule.source, NEW f \in rule.features
  PROVE  AccountedBack(t.device, f)
<1> DEFINE d == t.device
<1>1. CASE t \notin Usable(rule, CompileHouse)
  <2>1. \/ <<"unknown_device", d>> \in TargetErrors(rule, CompileHouse)
        \/ <<"target_is_long_range", d>> \in TargetErrors(rule, CompileHouse)
    BY <1>1, UnusableTold
  <2>2. QED  BY <2>1, MentionedIn DEF AccountedBack
<1>2. CASE f \notin Returning(rule, e)
  <2>1. f \in Asked(rule) \ Resolved(rule, e)
    BY <1>2 DEF Returning, Asked
  <2>2. Mentioned("feature_unavailable", f)
    BY <2>1, Said, MentionedIn DEF Unavailable
  <2>3. QED  BY <2>2 DEF AccountedBack
<1>3. CASE t \in Usable(rule, CompileHouse) /\ f \in Returning(rule, e)
  <2>1. d \in Reversed(rule, e, CompileHouse)
    BY <1>3 DEF Reversed
  <2>2. CASE d \notin Answering(rule, e, CompileHouse)
    <3>1. Mentioned("two_way_target_has_no_control", d)
      BY <2>1, <2>2, Said, PartsSaid DEF Mentioned
    <3>2. QED  BY <3>1 DEF AccountedBack
  <2>3. CASE d \in Answering(rule, e, CompileHouse)
    <3> DEFINE answer == AnswerFrom(rule, e, CompileHouse[d])
               home == Home(rule, CompileHouse[rule.source])
    <3>1. CASE f \in CompileHouse[rule.source].receives
      <4> DEFINE link == [source |-> d, from |-> answer.from, group |-> answer.groups[f],
                          target |-> rule.source, endpoint |-> EndpointFor(answer, home),
                          feature |-> f]
      <4>1. link \in LegLinks(d, answer.from, answer, rule.source, home, Returning(rule, e),
                              CompileHouse)
        BY <1>3, <3>1 DEF LegLinks
      <4>2. link.source = d /\ link.target = rule.source /\ link.feature = f
        OBVIOUS
      <4> HIDE DEF link
      <4>3. link \in outcome.links
        BY <2>3, <4>1, PartsBack
      <4>4. QED  BY <4>2, <4>3 DEF AccountedBack
    <3>2. CASE f \notin CompileHouse[rule.source].receives
      <4>1. <<"target_cannot_receive", <<rule.source, f>>>>
              \in LegErrors(rule.source, Returning(rule, e), CompileHouse)
        BY <1>3, <3>2 DEF LegErrors, Says
      <4>2. Mentioned("target_cannot_receive", <<rule.source, f>>)
        BY <2>3, <4>1, PartsBack DEF Mentioned
      <4>3. QED  BY <4>2 DEF AccountedBack
    <3>3. QED  BY <3>1, <3>2
  <2>4. QED  BY <2>2, <2>3
<1>4. QED  BY <1>1, <1>2, <1>3

(* What there is after a compilation is what Compile makes of the rule.    *)
CompilationInv ==
  rule \in CompiledRules /\ (compiled => outcome = Compile(rule, CompileHouse))

LEMMA SilenceBroken == CompilationInv => NothingDroppedInSilence
<1> SUFFICES ASSUME rule \in CompiledRules, outcome = Compile(rule, CompileHouse), rule.enabled
             PROVE  NothingDroppedInSilence
  BY DEF CompilationInv, NothingDroppedInSilence
<1> DEFINE offered == EmittersOf(CompileHouse[rule.source])
           emitter == CHOOSE e \in offered : e.id = rule.emitter
<1>1. CASE rule.source \notin DOMAIN CompileHouse
  <2>1. outcome.errors = Says("unknown_device", {rule.source})
    BY <1>1 DEF Compile, Nil
  <2>2. QED  BY <2>1, Said DEF NothingDroppedInSilence, Mentioned
<1>2. CASE rule.source \in DOMAIN CompileHouse /\ CompileHouse[rule.source].longRange
  <2>1. outcome.errors = Says("source_is_long_range", {rule.source})
    BY <1>2 DEF Compile, Nil
  <2>2. QED  BY <2>1, Said DEF NothingDroppedInSilence, Mentioned
<1>3. CASE /\ rule.source \in DOMAIN CompileHouse /\ ~CompileHouse[rule.source].longRange
           /\ \A e \in offered : e.id # rule.emitter
  <2>1. outcome.errors = Says("unknown_emitter", {rule.emitter})
    BY <1>3 DEF Compile, Nil
  <2>2. QED  BY <2>1, Said DEF NothingDroppedInSilence, Mentioned
<1>4. CASE /\ rule.source \in DOMAIN CompileHouse /\ ~CompileHouse[rule.source].longRange
           /\ \E e \in offered : e.id = rule.emitter
  <2>1. outcome = Compiled(rule, emitter, CompileHouse)
    BY <1>4 DEF Compile
  <2>2. emitter.id = rule.emitter
    BY <1>4
  <2> HIDE DEF emitter
  <2>3. \A t \in rule.targets, f \in rule.features : LeftOut(t, f) \/ Accounted(t, f)
    BY <2>1, <2>2, AllAccounted
  <2>4. ASSUME rule.twoWay, NEW t \in rule.targets, t.device # rule.source,
               NEW f \in rule.features
        PROVE  AccountedBack(t.device, f)
    BY <2>1, <2>4, BackAccounted
  <2>5. QED  BY <2>3, <2>4 DEF NothingDroppedInSilence
<1>5. QED  BY <1>1, <1>2, <1>3, <1>4

(* Of any enabled rule, whatever it combines and whatever its devices can  *)
(* do, each feature reaches each target there and back, or the author is   *)
(* told of that feature, that target or that opt-in; but for what is not   *)
(* on/off of a source that is its own target, which is dropped without a   *)
(* word (compiler._Compilation.run).                                       *)
THEOREM NothingDropped == CompilationSpec => []NothingDroppedInSilence
<1>1. CompilationInit => CompilationInv
  BY DEF CompilationInit, CompilationInv
<1>2. CompilationInv /\ [CompileRule]_compilationVars => CompilationInv'
  BY DEF CompilationInv, CompileRule, compilationVars
<1>3. QED  BY <1>1, <1>2, SilenceBroken, PTL DEF CompilationSpec

----------------------------------------------------------------------------
(***************************************************************************)
(* The swap: every rule of the profile stays a rule through any sequence   *)
(* of swaps and toggles, and a device that answers is known.               *)
(***************************************************************************)
(* A one-way rule without opt-ins that compiles without an error, and of   *)
(* which every feature made some link, has every feature at every target.  *)
LEMMA FullyLinked ==
  ASSUME NEW r, NEW e, NEW capabilities, NEW c, c = Compiled(r, e, capabilities),
         r.hybrid = {}, ~r.twoWay, c.errors = {},
         r.features \subseteq {l.feature : l \in c.links},
         NEW t \in r.targets, NEW f \in r.features
  PROVE  \E l \in c.links : l.source = r.source /\ l.target = t.device /\ l.feature = f
<1>1. t \in Usable(r, capabilities)
  BY UnusableTold, PartsSaid
<1>2. f \in Resolved(r, e)
  <2>1. Answering(r, e, capabilities) = {}
    BY DEF Answering, Reversed
  <2>2. LinksBack(r, e, capabilities) = {}
    BY <2>1 DEF LinksBack
  <2>3. PICK l \in LinksThere(r, e, capabilities) : l.feature = f
    BY <2>2 DEF Compiled
  <2>4. PICK u \in Usable(r, capabilities) :
          l \in LegLinks(r.source, r.from, e, u.device, u.endpoint, Resolved(r, e), capabilities)
    BY <2>3 DEF LinksThere
  <2>5. l.feature \in Resolved(r, e)
    BY <2>4 DEF LegLinks
  <2>6. QED  BY <2>3, <2>5
<1>3. f \in capabilities[t.device].receives
  <2>1. ASSUME f \notin capabilities[t.device].receives
        PROVE  <<"target_cannot_receive", <<t.device, f>>>>
                 \in LegErrors(t.device, Resolved(r, e), capabilities)
    BY <1>2, <2>1 DEF LegErrors, Says
  <2>2. QED  BY <1>1, <2>1, PartsThere
<1> DEFINE link == [source |-> r.source, from |-> r.from, group |-> e.groups[f],
                    target |-> t.device, endpoint |-> EndpointFor(e, t.endpoint), feature |-> f]
<1>4. link \in LegLinks(r.source, r.from, e, t.device, t.endpoint, Resolved(r, e), capabilities)
  BY <1>2, <1>3 DEF LegLinks
<1>5. link.source = r.source /\ link.target = t.device /\ link.feature = f
  OBVIOUS
<1> HIDE DEF link
<1>6. QED  BY <1>1, <1>4, <1>5, PartsThere

(* Compiling without an error means that the source and its control are    *)
(* known and can be used.                                                  *)
LEMMA CompiledCleanly ==
  ASSUME NEW r, r.enabled, NEW capabilities, Compile(r, capabilities).errors = {}
  PROVE  \E e : Compile(r, capabilities) = Compiled(r, e, capabilities)
BY Said DEF Compile, Nil

----------------------------------------------------------------------------
(* Rules stay rules, and who answers is known.                             *)
ProfileOK ==
  /\ profile = [i \in DOMAIN profile |-> profile[i]]
  /\ \A i \in DOMAIN profile : IsRule(profile[i])

SwapInv == ProfileOK /\ answering \subseteq known

LEMMA Retargeted ==
  ASSUME NEW r, IsRule(r), NEW old, NEW new, NEW mapping
  PROVE  LET after == Rewrite(r, old, new, mapping) IN
         /\ IsRule(after)
         /\ after.features = r.features
         /\ (old # new /\ (r.source = old => mapping[r.emitter] # NotShown)) =>
              ~References(after, old)
<1> DEFINE targets == {Moved(t, old, new) : t \in r.targets}
           moved == [r EXCEPT !.targets = targets]
           from == Successor(new, mapping[r.emitter]).from
           put == [moved EXCEPT !.source = new, !.emitter = mapping[r.emitter], !.from = from]
           after == Rewrite(r, old, new, mapping)
<1>0. \A t : old # new => Moved(t, old, new).device # old
  BY DEF Moved
<1>1. targets # {} /\ (old # new => \A t \in targets : t.device # old)
  BY <1>0 DEF IsRule
<1>2. \/ r.source # old /\ after = moved
      \/ r.source = old /\ mapping[r.emitter] = NotShown /\ after = r
      \/ r.source = old /\ mapping[r.emitter] # NotShown /\ after = put
  BY DEF Rewrite
<1> HIDE DEF targets, after, from
<1>3. /\ moved.targets = targets /\ moved.features = r.features /\ moved.source = r.source
      /\ IsRule(moved)
  BY <1>1 DEF IsRule, RuleFields
<1> HIDE DEF moved
<1>4. /\ put.targets = targets /\ put.features = r.features /\ put.source = new
      /\ IsRule(put)
  BY <1>1, <1>3 DEF IsRule, RuleFields
<1> HIDE DEF put
<1>5. QED  BY <1>1, <1>2, <1>3, <1>4 DEF after, References

(* What a swap that is applied was proposed as.                            *)
LEMMA Built ==
  ASSUME NEW old, NEW new, NEW chosen, NEW swap, swap = BuildSwap(old, new, chosen)
  PROVE  LET p == Propose(profile, old, new, chosen) IN
         /\ swap.errors = p.errors /\ swap.unmapped = p.unmapped
         /\ swap.rewritten = p.rewritten /\ swap.after = p.after /\ swap.lossy = p.lossy
BY DEF BuildSwap, Touching, Planning

(* What a proposal p for the old and the new device says of the rules:     *)
(* each is still a rule with its features, one it does not rewrite is as   *)
(* it was, none refers to the old device, and a loss is marked as one.     *)
Rehomes(old, new, p) ==
  /\ p.after = [i \in DOMAIN profile |-> p.after[i]]
  /\ DOMAIN p.after = DOMAIN profile
  /\ \A i \in DOMAIN profile :
       /\ IsRule(p.after[i])
       /\ p.after[i].features = profile[i].features
       /\ i \notin p.rewritten => p.after[i] = profile[i]
       /\ old # new => ~References(p.after[i], old)
  /\ ~p.lossy => \A i \in p.rewritten : ~IsLossy(profile[i], p.after[i])

(* A proposal nothing speaks against rewrites every rule that refers to    *)
(* the old device, and leaves every other.                                 *)
LEMMA Proposed ==
  ASSUME ProfileOK, NEW old, NEW new, NEW chosen, NEW p, p = Propose(profile, old, new, chosen),
         p.errors = {}, p.unmapped = {}
  PROVE  Rehomes(old, new, p)
<1> DEFINE mapping == Mapping(profile, old, new, chosen)
           rewritten == {i \in DOMAIN profile :
                           /\ References(profile[i], old)
                           /\ profile[i].source = old => mapping[profile[i].emitter] # NotShown}
           after == [i \in DOMAIN profile |-> IF i \in rewritten
                     THEN Rewrite(profile[i], old, new, mapping) ELSE profile[i]]
           loss == \E i \in rewritten : IsLossy(profile[i], after[i])
<1>1. Refusals(profile, old, new) = {}
  BY DEF Propose
<1>2. p = [errors |-> {}, unmapped |-> {id \in DOMAIN mapping : mapping[id] = NotShown},
           rewritten |-> rewritten, after |-> after, lossy |-> loss]
  BY <1>1 DEF Propose
<1>3. \A i \in DOMAIN profile : profile[i].source = old =>
        /\ profile[i].emitter \in DOMAIN mapping
        /\ mapping[profile[i].emitter] # NotShown
  <2>1. ASSUME NEW i \in DOMAIN profile, profile[i].source = old
        PROVE  profile[i].emitter \in DOMAIN mapping
    BY <2>1 DEF Mapping, Range
  <2> HIDE DEF mapping, rewritten, after, loss
  <2>2. \A id \in DOMAIN mapping : mapping[id] # NotShown
    BY <1>2
  <2>3. QED  BY <2>1, <2>2
<1>4. \A i \in DOMAIN profile : i \in rewritten <=> References(profile[i], old)
  BY <1>3
<1>5. /\ DOMAIN after = DOMAIN profile
      /\ after = [i \in DOMAIN profile |-> after[i]]
      /\ \A i \in DOMAIN profile :
           after[i] = IF i \in rewritten THEN Rewrite(profile[i], old, new, mapping)
                      ELSE profile[i]
  OBVIOUS
<1> HIDE DEF mapping, rewritten, after
<1>6. \A i \in DOMAIN profile :
        /\ IsRule(after[i]) /\ after[i].features = profile[i].features
        /\ i \notin rewritten => after[i] = profile[i]
        /\ old # new => ~References(after[i], old)
  <2> SUFFICES ASSUME NEW i \in DOMAIN profile
               PROVE  /\ IsRule(after[i]) /\ after[i].features = profile[i].features
                      /\ i \notin rewritten => after[i] = profile[i]
                      /\ old # new => ~References(after[i], old)
    OBVIOUS
  <2>1. IsRule(profile[i])
    BY DEF ProfileOK
  <2>2. CASE i \in rewritten
    BY <1>3, <1>5, <2>1, <2>2, Retargeted
  <2>3. CASE i \notin rewritten
    BY <1>4, <1>5, <2>1, <2>3
  <2>4. QED  BY <2>2, <2>3
<1>7. p.lossy = loss
  BY <1>2
<1>8. ~p.lossy => \A i \in rewritten : ~IsLossy(profile[i], after[i])
  BY <1>7
<1> HIDE DEF loss
<1>9. p.after = after /\ p.rewritten = rewritten
  BY <1>2
<1>10. QED  BY <1>5, <1>6, <1>8, <1>9 DEF Rehomes

(* What an apply stores is such a proposal. *)
LEMMA ApplyStores ==
  ASSUME SwapInv, NEW old, NEW new, NEW chosen, Apply(old, new, chosen)
  PROVE  \E p : /\ p = Propose(profile, old, new, chosen)
                /\ p.errors = {} /\ p.unmapped = {}
                /\ profile' = p.after /\ changed' = ChangedAfter(old, new)
                /\ last'.old = old /\ last'.new = new
                /\ last'.before = profile /\ last'.after = p.after
                /\ ~last'.accepted => ~p.lossy
                /\ new \in answering /\ UNCHANGED <<known, answering>>
<1>1. PICK swap \in {BuildSwap(old, new, chosen)}, accept \in BOOLEAN :
        /\ Applicable(swap, new)
        /\ swap.lossy => accept
        /\ Stored(swap, old, new)
        /\ \E answer : last' = [old |-> old, new |-> new, answer |-> answer,
                                accepted |-> accept, before |-> profile, after |-> swap.after]
  BY DEF Apply
<1> DEFINE p == Propose(profile, old, new, chosen)
<1>2. swap.errors = p.errors /\ swap.unmapped = p.unmapped /\ swap.after = p.after
      /\ swap.lossy = p.lossy
  BY <1>1, Built
<1> HIDE DEF p
<1>3. p.errors = {} /\ p.unmapped = {} /\ new \in answering
  BY <1>1, <1>2 DEF Applicable
<1>4. profile' = p.after /\ changed' = ChangedAfter(old, new)
  BY <1>1, <1>2 DEF Stored
<1>5. PICK answer : last' = [old |-> old, new |-> new, answer |-> answer, accepted |-> accept,
                             before |-> profile, after |-> swap.after]
  BY <1>1
<1>6. ~accept => ~p.lossy
  BY <1>1, <1>2
<1>7. UNCHANGED <<known, answering>>
  BY DEF Apply
<1>8. QED  BY <1>2, <1>3, <1>4, <1>5, <1>6, <1>7 DEF p

LEMMA SwapStep == SwapInv /\ [SwapNext]_swapVars => SwapInv'
<1> SUFFICES ASSUME SwapInv, [SwapNext]_swapVars PROVE SwapInv'  OBVIOUS
<1>1. ASSUME NEW old \in SwapDevices, NEW new \in SwapDevices, NEW chosen \in ChosenMaps,
             Apply(old, new, chosen)
      PROVE  SwapInv'
  <2>1. PICK p : /\ p = Propose(profile, old, new, chosen) /\ p.errors = {} /\ p.unmapped = {}
                 /\ profile' = p.after /\ UNCHANGED <<known, answering>>
    BY <1>1, ApplyStores
  <2>2. /\ p.after = [i \in DOMAIN profile |-> p.after[i]]
        /\ DOMAIN p.after = DOMAIN profile
        /\ \A i \in DOMAIN profile : IsRule(p.after[i])
    <3>1. Rehomes(old, new, p)
      BY <2>1, Proposed DEF SwapInv
    <3>2. QED  BY <3>1 DEF Rehomes
  <2>3. ProfileOK'
    BY <2>1, <2>2 DEF ProfileOK
  <2>4. QED  BY <2>1, <2>3 DEF SwapInv
<1>2. ASSUME NEW i \in DOMAIN profile, ToggleRule(i)  PROVE SwapInv'
  <2> DEFINE toggled == [profile[i] EXCEPT !.enabled = ~profile[i].enabled]
  <2>1. IsRule(profile[i]) /\ profile = [j \in DOMAIN profile |-> profile[j]]
    BY DEF SwapInv, ProfileOK
  <2>2. IsRule(toggled)
    BY <2>1 DEF IsRule, RuleFields
  <2>3. profile' = [profile EXCEPT ![i] = toggled]
    BY <1>2 DEF ToggleRule
  <2> HIDE DEF toggled
  <2>4. /\ DOMAIN profile' = DOMAIN profile
        /\ profile' = [j \in DOMAIN profile |-> profile'[j]]
        /\ \A j \in DOMAIN profile : profile'[j] = IF j = i THEN toggled ELSE profile[j]
    BY <2>1, <2>3
  <2>5. ProfileOK'
    BY <2>2, <2>4 DEF SwapInv, ProfileOK
  <2>6. QED  BY <1>2, <2>5 DEF ToggleRule, SwapInv
<1>3. ASSUME NEW d, Forget(d) \/ Silence(d)  PROVE SwapInv'
  BY <1>3 DEF Forget, Silence, SwapInv, ProfileOK
<1>4. CASE \/ JobEnds \/ UNCHANGED swapVars \/ \E l \in Claims(profile) : OtherWrites(l)
           \/ \E old, new \in SwapDevices, chosen \in ChosenMaps : Preview(old, new, chosen)
  <2>1. UNCHANGED <<profile, known, answering>>
    BY <1>4 DEF JobEnds, swapVars, OtherWrites, Preview
  <2>2. QED  BY <2>1 DEF SwapInv, ProfileOK
<1>5. QED  BY <1>1, <1>2, <1>3, <1>4 DEF SwapNext

LEMMA SwapStart == SwapInit => SwapInv
BY SwapAssumption DEF SwapInit, SwapInv, ProfileOK

(* A swap is recorded by Apply and by nothing else. *)
LEMMA OnlyApplies ==
  ASSUME [SwapNext]_swapVars, last' # last
  PROVE  \E old, new, chosen : Apply(old, new, chosen)
BY DEF SwapNext, Preview, JobEnds, ToggleRule, Forget, Silence, OtherWrites, swapVars

(* A swap that loses something is refused unless the loss was accepted: of *)
(* a one-way rule without opt-ins every feature still reaches every target *)
(* through the control that took over (swap._losses, _swap_apply).         *)
THEOREM LossIsSaid == SwapSpec => NoLossUnsaid
<1> DEFINE Kept ==
      last' # last /\ ~last'.accepted =>
         \A i \in DOMAIN last'.after :
           LET r == last'.after[i] IN
           r # last'.before[i] /\ ~r.twoWay /\ r.hybrid = {} =>
             \A t \in r.targets, f \in r.features :
               \E l \in LinksOf(r) : l.source = r.source /\ l.target = t.device /\ l.feature = f
<1>1. SwapInv /\ [SwapNext]_swapVars => [Kept]_swapVars
  <2> SUFFICES ASSUME SwapInv, [SwapNext]_swapVars, last' # last, ~last'.accepted,
                      NEW i \in DOMAIN last'.after, last'.after[i] # last'.before[i],
                      ~last'.after[i].twoWay, last'.after[i].hybrid = {},
                      NEW t \in last'.after[i].targets, NEW f \in last'.after[i].features
               PROVE  \E l \in LinksOf(last'.after[i]) :
                        /\ l.source = last'.after[i].source
                        /\ l.target = t.device /\ l.feature = f
    OBVIOUS
  <2> DEFINE r == last'.after[i]
             on == [r EXCEPT !.enabled = TRUE]
  <2>1. PICK old, new, chosen : Apply(old, new, chosen)
    BY OnlyApplies
  <2>2. PICK p : /\ p = Propose(profile, old, new, chosen) /\ p.errors = {} /\ p.unmapped = {}
                 /\ last'.before = profile /\ last'.after = p.after /\ ~p.lossy
    BY <2>1, ApplyStores
  <2>3. /\ i \in DOMAIN profile /\ i \in p.rewritten
        /\ r.features = profile[i].features /\ IsRule(r) /\ ~IsLossy(profile[i], r)
    <3>1. /\ DOMAIN p.after = DOMAIN profile
          /\ \A j \in DOMAIN profile : /\ IsRule(p.after[j])
                                       /\ p.after[j].features = profile[j].features
                                       /\ j \notin p.rewritten => p.after[j] = profile[j]
          /\ ~p.lossy => \A j \in p.rewritten : ~IsLossy(profile[j], p.after[j])
      <4>1. Rehomes(old, new, p)
        BY <2>2, Proposed DEF SwapInv
      <4>2. QED  BY <4>1 DEF Rehomes
    <3>2. r = p.after[i] /\ i \in DOMAIN p.after /\ p.after[i] # profile[i]
      BY <2>2
    <3> HIDE DEF r
    <3>3. i \in DOMAIN profile /\ i \in p.rewritten
      BY <3>1, <3>2
    <3>4. ~IsLossy(profile[i], p.after[i])
      BY <2>2, <3>1, <3>3
    <3>5. QED  BY <3>1, <3>2, <3>3, <3>4
  <2>4. /\ on.enabled /\ on.source = r.source /\ on.targets = r.targets
        /\ on.features = r.features /\ on.twoWay = r.twoWay /\ on.hybrid = r.hybrid
    BY <2>3 DEF IsRule, RuleFields
  <2>5. /\ LinksOf(r) = Compile(on, Visible).links
        /\ Compile(on, Visible).errors = {}
        /\ r.features \subseteq {l.feature : l \in LinksOf(r)}
    BY <2>3 DEF IsLossy, LinksOf
  <2>6. t \in r.targets /\ f \in r.features /\ ~r.twoWay /\ r.hybrid = {}
    OBVIOUS
  <2> HIDE DEF on, r
  <2>7. PICK e : Compile(on, Visible) = Compiled(on, e, Visible)
    BY <2>4, <2>5, CompiledCleanly
  <2>8. \E l \in Compile(on, Visible).links :
          l.source = on.source /\ l.target = t.device /\ l.feature = f
    BY <2>4, <2>5, <2>6, <2>7, FullyLinked
  <2>9. QED  BY <2>4, <2>5, <2>8 DEF r
<1>2. QED  BY <1>1, SwapStart, SwapStep, PTL DEF SwapSpec, NoLossUnsaid

(* Once a swap is stored no rule refers to the old device, and the swap is *)
(* not offered again: for any profile, any mapping of its controls, and    *)
(* for a device replaced at its own address (find_replacements).           *)
THEOREM OldIsLetGo == SwapSpec => OldLetGo
<1> DEFINE Gone ==
      last' # last =>
         /\ last'.old # last'.new => last'.old \notin Referenced'
         /\ last'.old \notin {r.old : r \in Replacements(Range(BackendOf))'}
<1>1. SwapInv /\ [SwapNext]_swapVars => [Gone]_swapVars
  <2> SUFFICES ASSUME SwapInv, [SwapNext]_swapVars, last' # last
               PROVE  /\ last'.old # last'.new => last'.old \notin Referenced'
                      /\ last'.old \notin {r.old : r \in Replacements(Range(BackendOf))'}
    OBVIOUS
  <2>1. PICK old, new, chosen : Apply(old, new, chosen)
    BY OnlyApplies
  <2>2. PICK p : /\ p = Propose(profile, old, new, chosen) /\ p.errors = {} /\ p.unmapped = {}
                 /\ profile' = p.after /\ changed' = ChangedAfter(old, new)
                 /\ last'.old = old /\ last'.new = new /\ new \in answering
                 /\ UNCHANGED <<known, answering>>
    BY <2>1, ApplyStores
  <2>3. old # new => old \notin Referenced'
    <3>1. ASSUME old # new, old \in Referenced'  PROVE FALSE
      <4>1. PICK r \in Range(profile') : References(r, old)
        BY <3>1 DEF Referenced, References
      <4>2. PICK i \in DOMAIN p.after : r = p.after[i]
        BY <2>2, <4>1 DEF Range
      <4>3. Rehomes(old, new, p)
        BY <2>2, Proposed DEF SwapInv
      <4>4. ~References(p.after[i], old)
        BY <3>1, <4>2, <4>3 DEF Rehomes
      <4>5. QED  BY <4>1, <4>2, <4>4
    <3>2. QED  BY <3>1
  <2>4. ASSUME NEW r \in Replacements(Range(BackendOf))', r.old = old  PROVE FALSE
    <3>1. r.old \in Referenced' /\ (r.old \notin known' \/ r.old \in changed')
      BY DEF Replacements
    <3>2. old = new /\ old \in known
      BY <2>2, <2>3, <2>4, <3>1 DEF SwapInv
    <3>3. changed' = changed \ {new}
      BY <2>2, <3>2 DEF ChangedAfter
    <3>4. QED  BY <2>2, <2>4, <3>1, <3>2, <3>3
  <2>5. QED  BY <2>2, <2>3, <2>4
<1>2. QED  BY <1>1, SwapStart, SwapStep, PTL DEF SwapSpec, OldLetGo



(* The items of a plan are on devices that answer.                         *)
LEMMA PlanReaches ==
  ASSUME NEW after, NEW stored, NEW scope, NEW ticked, NEW i,
         i \in PlanOf(after, stored, scope, ticked).items
  PROVE  i.op \in {"add", "remove"} /\ i.link.source \in answering
<1> DEFINE asked == {l \in Desired(after) : l.source \in scope \cap answering}
           there == {k \in table : k.source \in scope \cap answering}
           owner == [l \in there |-> OwnerOf(stored, l)]
<1>1. PlanOf(after, stored, scope, ticked) = Planned(asked, owner, ticked)
  BY DEF PlanOf
<1>2. DOMAIN owner = there
  OBVIOUS
<1>3. /\ \A l \in asked : l.source \in answering
      /\ \A l \in there : l.source \in answering
  OBVIOUS
<1> HIDE DEF asked, there, owner
<1>4. \/ \E l \in there : i = [op |-> "remove", link |-> l, owner |-> owner[l]]
      \/ \E l \in asked : i = [op |-> "add", link |-> l, owner |-> NotShown]
  BY <1>1, <1>2 DEF Planned
<1>5. QED  BY <1>3, <1>4

(* swap.py and its commands: what is known and answers are devices of the  *)
(* house, and a job writes only on those.                                  *)
THEOREM SwapTyped == SwapSpec => []SwapTypeOK
<1>1. SwapInit => SwapTypeOK
  BY DEF SwapInit, SwapTypeOK, NoSwap
<1>2. SwapTypeOK /\ [SwapNext]_swapVars => SwapTypeOK'
  <2> SUFFICES ASSUME SwapTypeOK, [SwapNext]_swapVars PROVE SwapTypeOK'
    OBVIOUS
  <2>1. ASSUME NEW old \in SwapDevices, NEW new \in SwapDevices, NEW chosen \in ChosenMaps,
               Apply(old, new, chosen)
        PROVE  SwapTypeOK'
    <3>1. PICK swap \in {BuildSwap(old, new, chosen)}, accept \in BOOLEAN :
            /\ Stored(swap, old, new)
            /\ \E writing \in {Replanned(swap)} :
                 LET answer == Compared(writing, swap.plan.items)
                 IN /\ job' = IF answer = "running" THEN writing ELSE {}
                    /\ last' = [old |-> old, new |-> new, answer |-> answer, accepted |-> accept,
                                before |-> profile, after |-> swap.after]
      BY <2>1 DEF Apply
    <3>2. PICK answer : /\ answer = Compared(Replanned(swap), swap.plan.items)
                        /\ job' = IF answer = "running" THEN Replanned(swap) ELSE {}
                        /\ last' = [old |-> old, new |-> new, answer |-> answer, accepted |-> accept,
                                    before |-> profile, after |-> swap.after]
      BY <3>1
    <3>3. last'.answer \in {"out of date", "nothing to do", "running"}
          /\ job' \in {Replanned(swap), {}}
      BY <3>2 DEF Compared
    <3>4. \A i \in Replanned(swap) : i.op \in {"add", "remove"} /\ i.link.source \in answering
      BY PlanReaches DEF Replanned
    <3>5. changed' \subseteq changed /\ UNCHANGED <<known, answering>>
      BY <2>1, <3>1 DEF Stored, ChangedAfter, Apply
    <3>6. QED  BY <3>3, <3>4, <3>5 DEF SwapTypeOK
  <2>2. ASSUME NEW i \in DOMAIN profile, ToggleRule(i)  PROVE SwapTypeOK'
    BY <2>2 DEF ToggleRule, SwapTypeOK
  <2>3. ASSUME NEW d \in SwapDevices, Forget(d) \/ Silence(d)  PROVE SwapTypeOK'
    BY <2>3 DEF Forget, Silence, SwapTypeOK
  <2>4. CASE \/ JobEnds \/ UNCHANGED swapVars \/ \E l \in Claims(profile) : OtherWrites(l)
             \/ \E old, new \in SwapDevices, chosen \in ChosenMaps : Preview(old, new, chosen)
    <3>1. UNCHANGED <<changed, known, answering, last>> /\ job' \in {job, {}}
      BY <2>4 DEF JobEnds, swapVars, OtherWrites, Preview
    <3>2. QED  BY <3>1 DEF SwapTypeOK
  <2>5. QED  BY <2>1, <2>2, <2>3, <2>4 DEF SwapNext
<1>3. QED  BY <1>1, <1>2, PTL DEF SwapSpec

-----------------------------------------------------------------------------
(***************************************************************************)
(* What a plan of planner.build_plan is worth, for every set of links,     *)
(* every capacity, every profile and every table: carried out in its own   *)
(* order it touches nothing of anybody else's, never puts an entry into a  *)
(* full group, and leaves nothing for a second plan to do.                 *)
(***************************************************************************)
(* The links a plan removes and adds, and those it has done.               *)
Removed == {l \in Links : op[l] = "remove" /\ l \notin todo}
Added == {l \in Links : op[l] = "add" /\ l \notin todo}

(* What the tables hold is what they held, less what the plan has removed  *)
(* and with what it has added.                                             *)
HoldsDone == holding = (initial \ Removed) \cup Added

(* Of one device, what is done precedes what is not.                       *)
InTurn ==
  \A k \in Added, l \in todo :
    SourceOf[k] = SourceOf[l] => op[l] = "add" /\ Rank[k] < Rank[l]

WalkInv ==
  /\ WalkTypeOK
  /\ Fits(initial)
  /\ op = BuildPlan(wanted, initial, managed, selected)
  /\ todo \subseteq Writes(op)
  /\ HoldsDone
  /\ InTurn

-----------------------------------------------------------------------------
(* What the plan says of a link is what _classify and _planned_adds put it *)
(* under: no link is under two of them.                                    *)
LEMMA PlanSays ==
  ASSUME NEW W \in SUBSET Links, NEW P \in SUBSET Links, NEW M, NEW S, NEW l \in Links
  PROVE  LET plan == BuildPlan(W, P, M, S) IN
         /\ plan \in [Links -> PlanOps]
         /\ plan[l] = "remove" <=> l \in Removals(W, P, M, S)
         /\ plan[l] = "add" <=> l \in Adds(W, P, M, S)
  BY DEF BuildPlan, PlanOps, Removals, Adds, Missing

(* Links, and with them every part of a table, are finite.                 *)
LEMMA GroupsFinite ==
  ASSUME NEW T \in SUBSET Links, NEW g
  PROVE  IsFiniteSet(InGroup(T, g)) /\ Cardinality(InGroup(T, g)) \in Nat
  <1>1. InGroup(T, g) \in SUBSET Links
    BY DEF InGroup
  <1>. QED
    BY <1>1, FiniteLinks, FS_Subset, FS_CardinalityType

(* A part of a table takes no more room than the table.                    *)
LEMMA SmallerFits ==
  ASSUME NEW T \in SUBSET Links, NEW U \in SUBSET T, NEW g
  PROVE  Cardinality(InGroup(U, g)) <= Cardinality(InGroup(T, g))
  <1>1. InGroup(U, g) \in SUBSET InGroup(T, g)
    BY DEF InGroup
  <1>. QED
    BY <1>1, GroupsFinite, FS_Subset

-----------------------------------------------------------------------------
LEMMA WalkInitInv == WalkInit => WalkInv
  <1>. SUFFICES ASSUME WalkInit PROVE WalkInv
    OBVIOUS
  <1>0. wanted \in SUBSET Links /\ holding \in SUBSET Links /\ initial = holding
        /\ managed \in SUBSET Links /\ selected \in SUBSET Links
    BY DEF WalkInit
  <1>1. op \in [Links -> PlanOps]
    BY <1>0 DEF WalkInit, BuildPlan, PlanOps
  <1>2. todo = Writes(op)
    BY DEF WalkInit
  <1>3. WalkTypeOK
    BY <1>0, <1>1, <1>2 DEF WalkTypeOK, Writes
  <1>4. Removed = {} /\ Added = {}
    BY <1>2 DEF Removed, Added, Writes, WriteOps
  <1>5. HoldsDone /\ InTurn
    BY <1>0, <1>4 DEF HoldsDone, InTurn
  <1>. QED
    BY <1>0, <1>2, <1>3, <1>5 DEF WalkInv, WalkInit

(* One write: what is done grows by it, and it was the first of its device.*)
LEMMA CarryOutDone ==
  ASSUME WalkInv, NEW l \in todo, CarryOut(l)
  PROVE  /\ l \in Links /\ op[l] \in WriteOps /\ op' = op
         /\ Removed' = IF op[l] = "add" THEN Removed ELSE Removed \cup {l}
         /\ Added' = IF op[l] = "add" THEN Added \cup {l} ELSE Added
  <1>1. l \in Links /\ op[l] \in WriteOps
    BY DEF WalkInv, Writes
  <1>2. op' = op /\ todo' = todo \ {l}
    BY DEF CarryOut
  <1>3. Removed' = IF op[l] = "add" THEN Removed ELSE Removed \cup {l}
    BY <1>1, <1>2 DEF Removed, WriteOps
  <1>4. Added' = IF op[l] = "add" THEN Added \cup {l} ELSE Added
    BY <1>1, <1>2 DEF Added, WriteOps
  <1>. QED
    BY <1>1, <1>2, <1>3, <1>4

LEMMA WalkNextInv == WalkInv /\ [WalkNext]_walkVars => WalkInv'
  <1>. SUFFICES ASSUME WalkInv, [WalkNext]_walkVars PROVE WalkInv'
    OBVIOUS
  <1>1. CASE UNCHANGED walkVars
    BY <1>1 DEF walkVars, WalkInv, WalkTypeOK, HoldsDone, InTurn, Removed, Added
  <1>2. ASSUME NEW l \in todo, CarryOut(l) PROVE WalkInv'
    <2>1. /\ l \in Links /\ op[l] \in WriteOps
          /\ Removed' = IF op[l] = "add" THEN Removed ELSE Removed \cup {l}
          /\ Added' = IF op[l] = "add" THEN Added \cup {l} ELSE Added
      BY <1>2, CarryOutDone
    <2>2. /\ wanted' = wanted /\ managed' = managed /\ selected' = selected
          /\ initial' = initial /\ op' = op /\ todo' = todo \ {l}
          /\ holding' = IF op[l] = "add" THEN holding \cup {l} ELSE holding \ {l}
          /\ IsFirst(op, todo \cap Of(SourceOf[l]), l)
      BY <1>2 DEF CarryOut
    <2>3. WalkTypeOK'
      BY <2>1, <2>2 DEF WalkInv, WalkTypeOK
    <2>4. HoldsDone'
      <3>1. holding = (initial \ Removed) \cup Added
        BY DEF WalkInv, HoldsDone
      <3>2. op[l] # "add" => l \notin Added
        BY DEF Added
      <3>. QED
        BY <2>1, <2>2, <3>1, <3>2 DEF HoldsDone
    <2>5. InTurn'
      <3>. SUFFICES ASSUME NEW k \in Added', NEW m \in todo', SourceOf[k] = SourceOf[m]
                    PROVE  op[m] = "add" /\ Rank[k] < Rank[m]
        BY <2>2 DEF InTurn
      <3>1. m \in todo /\ m # l /\ m \in Links /\ op[m] \in WriteOps
        BY <2>2 DEF WalkInv, Writes
      <3>2. CASE k \in Added
        BY <3>1, <3>2 DEF WalkInv, InTurn
      <3>3. CASE k = l /\ op[l] = "add"
        <4>1. m \in todo \cap Of(SourceOf[l])
          BY <3>1, <3>3 DEF Of
        <4>2. ~Precedes(op, m, l)
          BY <2>2, <3>1, <4>1 DEF IsFirst
        <4>3. op[m] = "add" /\ ~(Rank[m] < Rank[l])
          BY <3>1, <3>3, <4>2 DEF Precedes, WriteOps
        <4>4. Rank[m] \in Nat /\ Rank[l] \in Nat /\ Rank[m] # Rank[l]
          BY <2>1, <3>1, LinkAssumption
        <4>. QED
          BY <3>3, <4>3, <4>4
      <3>. QED
        BY <2>1, <3>2, <3>3
    <2>. QED
      BY <2>2, <2>3, <2>4, <2>5 DEF WalkInv, Fits
  <1>. QED
    BY <1>1, <1>2 DEF WalkNext

LEMMA WalkInvariant == WalkSpec => []WalkInv
  BY WalkInitInv, WalkNextInv, PTL DEF WalkSpec

-----------------------------------------------------------------------------
(* planner.build_plan, and a plan carried out write by write: what is      *)
(* planned and held are links, and every link has one of the plan's        *)
(* operations.                                                             *)
THEOREM WalkTyped == WalkSpec => []WalkTypeOK
  <1>1. WalkInv => WalkTypeOK
    BY DEF WalkInv
  <1>. QED
    BY <1>1, WalkInvariant, PTL

(* _classify: what somebody else put on a device, and nobody ticked, stays *)
(* there through every write of every plan, and every system entry does.   *)
THEOREM NothingOfOthers == WalkSpec => []OthersUntouched
  <1>1. WalkInv => OthersUntouched
    <2>. SUFFICES ASSUME WalkInv PROVE OthersUntouched
      OBVIOUS
    <2>1. \A l \in Removed : l \in Removals(wanted, initial, managed, selected)
      BY PlanSays DEF WalkInv, WalkTypeOK, Removed
    <2>2. holding = (initial \ Removed) \cup Added
      BY DEF WalkInv, HoldsDone
    <2>. QED
      BY <2>1, <2>2 DEF OthersUntouched, Removals
  <1>. QED
    BY <1>1, WalkInvariant, PTL

-----------------------------------------------------------------------------
(* An add that is next finds its group with the survivors and the adds     *)
(* before it, and so with the room _planned_adds has counted.              *)
LEMMA RoomIsLeft ==
  ASSUME WalkInv, NEW l \in todo, CarryOut(l), op[l] = "add"
  PROVE  Cardinality(InGroup(holding, GroupOf[l])) < Capacity[GroupOf[l]]
  <1>. DEFINE g == GroupOf[l]
              survivors == Survivors(wanted, initial, managed, selected)
              before == {k \in InGroup(Missing(wanted, initial), g) : Rank[k] < Rank[l]}
  <1>0. l \in Links /\ todo \subseteq Links
    BY DEF WalkInv, Writes
  <1>1. wanted \in SUBSET Links /\ initial \in SUBSET Links
        /\ op = BuildPlan(wanted, initial, managed, selected)
        /\ holding = (initial \ Removed) \cup Added
    BY DEF WalkInv, WalkTypeOK, HoldsDone
  <1>2. l \in Adds(wanted, initial, managed, selected)
    BY <1>0, <1>1, PlanSays
  <1>3. Cardinality(InGroup(survivors, g)) + Cardinality(before) < Capacity[g]
    BY <1>2 DEF Adds, RoomUsed
  <1>4. InGroup(holding, g) \subseteq InGroup(survivors, g) \cup before
    <2>. SUFFICES ASSUME NEW k \in holding, GroupOf[k] = g
                  PROVE  k \in survivors \/ k \in before
      BY DEF InGroup
    <2>0. k \in Links /\ SourceOf[k] = SourceOf[l]
      BY <1>0, LinkAssumption DEF WalkInv, WalkTypeOK
    <2>1. CASE k \in Added
      <3>1. Rank[k] < Rank[l]
        BY <2>0, <2>1 DEF WalkInv, InTurn
      <3>2. k \in Missing(wanted, initial)
        BY <1>1, <2>0, <2>1, PlanSays DEF Added, Adds
      <3>. QED
        BY <3>1, <3>2 DEF InGroup
    <2>2. CASE k \in initial \ Removed
      <3>1. op[k] # "remove"
        <4>1. SUFFICES ASSUME op[k] = "remove" PROVE FALSE
          OBVIOUS
        <4>2. k \in todo \cap Of(SourceOf[l]) /\ k # l
          BY <2>0, <2>2, <4>1 DEF Removed, Of
        <4>3. ~Precedes(op, k, l)
          BY <4>2 DEF CarryOut, IsFirst
        <4>. QED
          BY <4>1, <4>3 DEF Precedes
      <3>2. k \notin Removals(wanted, initial, managed, selected)
        BY <1>1, <2>0, <3>1, PlanSays
      <3>. QED
        BY <2>2, <3>2 DEF Survivors
    <2>. QED
      BY <1>1, <2>1, <2>2
  <1>5. /\ IsFiniteSet(InGroup(survivors, g)) /\ Cardinality(InGroup(survivors, g)) \in Nat
        /\ IsFiniteSet(before) /\ Cardinality(before) \in Nat
    <2>1. survivors \in SUBSET Links /\ Missing(wanted, initial) \in SUBSET Links
      BY <1>1 DEF Survivors, Missing
    <2>2. IsFiniteSet(InGroup(Missing(wanted, initial), g))
      BY <2>1, GroupsFinite
    <2>3. before \in SUBSET InGroup(Missing(wanted, initial), g)
      OBVIOUS
    <2>. QED
      BY <2>1, <2>2, <2>3, GroupsFinite, FS_Subset, FS_CardinalityType
  <1>6. /\ IsFiniteSet(InGroup(survivors, g) \cup before)
        /\ Cardinality(InGroup(survivors, g) \cup before)
             <= Cardinality(InGroup(survivors, g)) + Cardinality(before)
    <2>1. IsFiniteSet(InGroup(survivors, g) \cap before)
      BY <1>5, FS_Intersection
    <2>2. Cardinality(InGroup(survivors, g) \cap before) \in Nat
      BY <2>1, FS_CardinalityType
    <2>3. /\ IsFiniteSet(InGroup(survivors, g) \cup before)
          /\ Cardinality(InGroup(survivors, g) \cup before) =
               Cardinality(InGroup(survivors, g)) + Cardinality(before)
                 - Cardinality(InGroup(survivors, g) \cap before)
      BY <1>5, FS_Union
    <2>. HIDE DEF g, survivors, before
    <2>. QED
      BY <1>5, <2>2, <2>3
  <1>7. Cardinality(InGroup(holding, g)) <= Cardinality(InGroup(survivors, g) \cup before)
    BY <1>4, <1>6, FS_Subset
  <1>8. /\ Cardinality(InGroup(holding, g)) \in Nat
        /\ Cardinality(InGroup(survivors, g) \cup before) \in Nat
        /\ Capacity[g] \in Nat
    <2>1. holding \in SUBSET Links
      BY DEF WalkInv, WalkTypeOK
    <2>. QED
      BY <1>0, <1>6, <2>1, GroupsFinite, FS_CardinalityType, LinkAssumption
  <1>. HIDE DEF g, survivors, before
  <1>9. Cardinality(InGroup(holding, g)) < Capacity[g]
    BY <1>3, <1>5, <1>6, <1>7, <1>8
  <1>. QED
    BY <1>9 DEF g

(* planner.py, removals before adds: no write of a plan, at any point of   *)
(* its order, puts an entry into a group that is already full.             *)
THEOREM NoGroupOverfull == WalkSpec => []NeverOverfull
  <1>1. WalkInit => NeverOverfull
    BY DEF WalkInit, NeverOverfull
  <1>2. WalkInv /\ NeverOverfull /\ [WalkNext]_walkVars => NeverOverfull'
    <2>. SUFFICES ASSUME WalkInv, NeverOverfull, [WalkNext]_walkVars PROVE NeverOverfull'
      OBVIOUS
    <2>1. CASE UNCHANGED walkVars
      BY <2>1 DEF walkVars, NeverOverfull, Fits
    <2>2. ASSUME NEW l \in todo, CarryOut(l), NEW g \in Groups
          PROVE  Cardinality(InGroup(holding', g)) <= Capacity[g]
      <3>0. l \in Links /\ holding \in SUBSET Links /\ op[l] \in WriteOps
        BY <2>2 DEF WalkInv, WalkTypeOK, Writes
      <3>1. Cardinality(InGroup(holding, g)) <= Capacity[g]
        BY DEF NeverOverfull, Fits
      <3>2. Cardinality(InGroup(holding, g)) \in Nat /\ IsFiniteSet(InGroup(holding, g))
            /\ Capacity[g] \in Nat
        BY <3>0, GroupsFinite, LinkAssumption
      <3>3. CASE op[l] # "add"
        <4>1. holding' \in SUBSET holding
          BY <2>2, <3>3 DEF CarryOut
        <4>2. Cardinality(InGroup(holding', g)) <= Cardinality(InGroup(holding, g))
          BY <3>0, <4>1, SmallerFits
        <4>3. Cardinality(InGroup(holding', g)) \in Nat
          BY <3>0, <4>1, GroupsFinite
        <4>. QED
          BY <3>1, <3>2, <4>2, <4>3
      <3>4. CASE op[l] = "add" /\ GroupOf[l] # g
        <4>1. InGroup(holding', g) = InGroup(holding, g)
          BY <2>2, <3>4 DEF CarryOut, InGroup
        <4>. QED
          BY <3>1, <4>1
      <3>5. CASE op[l] = "add" /\ GroupOf[l] = g
        <4>1. InGroup(holding', g) = InGroup(holding, g) \cup {l}
          BY <2>2, <3>0, <3>5 DEF CarryOut, InGroup
        <4>2. Cardinality(InGroup(holding, g)) < Capacity[g]
          BY <2>2, <3>5, RoomIsLeft
        <4>3. Cardinality(InGroup(holding', g)) \in
                {Cardinality(InGroup(holding, g)), Cardinality(InGroup(holding, g)) + 1}
          BY <3>2, <4>1, FS_AddElement
        <4>4. Cardinality(InGroup(holding', g)) \in Nat
          BY <3>2, <4>1, FS_AddElement, FS_CardinalityType
        <4>. QED
          BY <3>2, <4>2, <4>3, <4>4
      <3>. QED
        BY <3>3, <3>4, <3>5
    <2>. QED
      BY <2>1, <2>2 DEF WalkNext, NeverOverfull, Fits
  <1>. QED
    BY <1>1, <1>2, WalkInvariant, PTL DEF WalkSpec

-----------------------------------------------------------------------------
(* Carried out, a plan has left the survivors and its adds.                *)
LEMMA EndsWithAdds ==
  ASSUME WalkInv, todo = {}
  PROVE  holding = Survivors(wanted, initial, managed, selected)
                     \cup Adds(wanted, initial, managed, selected)
  <1>1. /\ initial \in SUBSET Links /\ wanted \in SUBSET Links
        /\ op = BuildPlan(wanted, initial, managed, selected)
        /\ holding = (initial \ Removed) \cup Added
    BY DEF WalkInv, WalkTypeOK, HoldsDone
  <1>2. \A l \in Links : /\ op[l] = "remove" <=> l \in Removals(wanted, initial, managed, selected)
                         /\ op[l] = "add" <=> l \in Adds(wanted, initial, managed, selected)
    BY <1>1, PlanSays
  <1>3. Removed = Removals(wanted, initial, managed, selected)
    BY <1>1, <1>2 DEF Removed, Removals
  <1>4. Added = Adds(wanted, initial, managed, selected)
    BY <1>1, <1>2 DEF Added, Adds, Missing
  <1>. QED
    BY <1>1, <1>3, <1>4 DEF Survivors

(* A link that was blocked finds its group as full as it was counted: the  *)
(* adds that were made take the room of those that went before it.         *)
LEMMA StillBlocked ==
  ASSUME WalkInv, todo = {}, NEW l \in Missing(wanted, holding)
  PROVE  ~(RoomUsed(l, wanted, holding, managed, selected) < Capacity[GroupOf[l]])
  <1>. DEFINE g == GroupOf[l]
              survivors == Survivors(wanted, initial, managed, selected)
              adds == Adds(wanted, initial, managed, selected)
              before == {k \in InGroup(Missing(wanted, initial), g) : Rank[k] < Rank[l]}
              later == {k \in InGroup(Missing(wanted, holding), g) : Rank[k] < Rank[l]}
  <1>0. /\ wanted \in SUBSET Links /\ initial \in SUBSET Links /\ holding \in SUBSET Links
        /\ l \in Links
    BY DEF WalkInv, WalkTypeOK, Missing
  <1>1. holding = survivors \cup adds
    BY EndsWithAdds
  <1>2. l \in Missing(wanted, initial) /\ l \notin adds
    BY <1>0, <1>1 DEF Missing, Survivors, Removals
  <1>3. ~(Cardinality(InGroup(survivors, g)) + Cardinality(before) < Capacity[g])
    BY <1>2 DEF Adds, RoomUsed
  <1>4. before \subseteq InGroup(adds, g) \cup later
    BY <1>0, <1>1 DEF Missing, InGroup, Survivors
  <1>5. Survivors(wanted, holding, managed, selected) = holding
    BY <1>1 DEF Survivors, Removals, Adds, Missing
  <1>6. RoomUsed(l, wanted, holding, managed, selected)
          = Cardinality(InGroup(holding, g)) + Cardinality(later)
    BY <1>5 DEF RoomUsed
  <1>7. /\ IsFiniteSet(InGroup(survivors, g)) /\ Cardinality(InGroup(survivors, g)) \in Nat
        /\ IsFiniteSet(InGroup(adds, g)) /\ Cardinality(InGroup(adds, g)) \in Nat
        /\ IsFiniteSet(before) /\ Cardinality(before) \in Nat
        /\ IsFiniteSet(later) /\ Cardinality(later) \in Nat
    <2>1. survivors \in SUBSET Links /\ adds \in SUBSET Links
          /\ before \in SUBSET Links /\ later \in SUBSET Links
      BY <1>0 DEF Survivors, Adds, Missing, InGroup
    <2>2. IsFiniteSet(before) /\ IsFiniteSet(later)
      BY <2>1, FiniteLinks, FS_Subset
    <2>. QED
      BY <2>1, <2>2, GroupsFinite, FS_CardinalityType
  <1>8. Cardinality(InGroup(holding, g))
          = Cardinality(InGroup(survivors, g)) + Cardinality(InGroup(adds, g))
    <2>1. InGroup(holding, g) = InGroup(survivors, g) \cup InGroup(adds, g)
      BY <1>1 DEF InGroup
    <2>2. InGroup(survivors, g) \cap InGroup(adds, g) = {}
      BY DEF InGroup, Survivors, Adds, Missing
    <2>3. Cardinality(InGroup(survivors, g) \cup InGroup(adds, g)) =
            Cardinality(InGroup(survivors, g)) + Cardinality(InGroup(adds, g))
              - Cardinality(InGroup(survivors, g) \cap InGroup(adds, g))
      BY <1>7, FS_Union
    <2>4. Cardinality(InGroup(survivors, g) \cap InGroup(adds, g)) = 0
      BY <2>2, FS_EmptySet
    <2>. HIDE DEF g, survivors, adds
    <2>. QED
      BY <1>7, <2>1, <2>3, <2>4
  <1>9. Cardinality(before) <= Cardinality(InGroup(adds, g)) + Cardinality(later)
    <2>. HIDE DEF g, adds, before, later
    <2>1. /\ IsFiniteSet(InGroup(adds, g) \cup later)
          /\ Cardinality(InGroup(adds, g) \cup later) =
               Cardinality(InGroup(adds, g)) + Cardinality(later)
                 - Cardinality(InGroup(adds, g) \cap later)
      BY <1>7, FS_Union
    <2>2. Cardinality(InGroup(adds, g) \cap later) \in Nat
      BY <1>7, FS_Intersection, FS_CardinalityType
    <2>3. Cardinality(before) <= Cardinality(InGroup(adds, g) \cup later)
      BY <1>4, <2>1, FS_Subset
    <2>. QED
      BY <1>7, <2>1, <2>2, <2>3
  <1>10. Capacity[g] \in Nat
    BY <1>0, LinkAssumption
  <1>. HIDE DEF g, survivors, adds, before, later
  <1>11. ~(Cardinality(InGroup(holding, g)) + Cardinality(later) < Capacity[g])
    BY <1>3, <1>7, <1>8, <1>9, <1>10
  <1>. QED
    BY <1>6, <1>11 DEF g

(* build_plan: carried out to its end, a plan leaves nothing that a second *)
(* plan would write.                                                       *)
THEOREM SecondPlanIsEmpty == WalkSpec => []Converged
  <1>1. WalkInv => Converged
    <2>. SUFFICES ASSUME WalkInv, todo = {}
                  PROVE  Writes(BuildPlan(wanted, holding, managed, selected)) = {}
      BY DEF Converged
    <2>1. wanted \in SUBSET Links /\ holding \in SUBSET Links
      BY DEF WalkInv, WalkTypeOK
    <2>2. Removals(wanted, holding, managed, selected) = {}
      BY EndsWithAdds DEF Survivors, Removals, Adds, Missing
    <2>3. Adds(wanted, holding, managed, selected) = {}
      BY StillBlocked DEF Adds
    <2>. QED
      BY <2>1, <2>2, <2>3, PlanSays DEF Writes, WriteOps
  <1>. QED
    BY <1>1, WalkInvariant, PTL

(***************************************************************************)
(* Loops: the search is Tarjan's, and what it returns is exactly the       *)
(* groups of devices that reach one another.  That a device reaches        *)
(* another is said by the sets nothing leaves, so that no path is followed *)
(* in a proof; the search itself is described by what its numbers, its     *)
(* lows and its trail mean between two of its steps.                       *)
(***************************************************************************)
(* The sets of devices that nothing passed on leaves, what reaches what,   *)
(* and the devices that reach one another.                                 *)
Kept(E) == {S \in SUBSET Relays : \A e \in E : e[1] \in S => e[2] \in S}
Reaches(E, a, b) == \A S \in Kept(E) : a \in S => b \in S
Class(E, a) == {b \in Relays : \A S \in Kept(E) : a \in S <=> b \in S}
Classes(E) == {Class(E, a) : a \in Relays}
After(E, x) == {e[2] : e \in {f \in E : f[1] = x}}

Frame == [node : Relays, taken : SUBSET Relays]

(* The search between two of its steps: E the edges, ix and lo the         *)
(* numbers, T the devices on the trail, fr the frames, and ahead the       *)
(* device the search turned to and has not numbered.                       *)
WalkTypes(E, ix, lo, T, fr) ==
  /\ E \subseteq Relays \X Relays
  /\ DOMAIN ix \subseteq Relays
  /\ ix \in [DOMAIN ix -> Nat] /\ lo \in [DOMAIN ix -> Nat]
  /\ \A x \in DOMAIN ix : ix[x] < Cardinality(DOMAIN ix)
  /\ \A x, y \in DOMAIN ix : ix[x] = ix[y] => x = y
  /\ T \subseteq DOMAIN ix
  /\ fr \in Seq(Frame)
  /\ \A i \in DOMAIN fr : fr[i].node \in T
  /\ \A i, j \in DOMAIN fr : i < j => ix[fr[i].node] < ix[fr[j].node]

(* What lies off the trail is finished, and what lies on it without a      *)
(* frame has had all its successors numbered.                              *)
Explored(E, ix, T, fr, ahead) ==
  /\ \A i \in DOMAIN fr : fr[i].taken \subseteq After(E, fr[i].node) \cap (DOMAIN ix \cup ahead)
  /\ \A x \in T : \/ \E i \in DOMAIN fr : fr[i].node = x
                  \/ After(E, x) \subseteq DOMAIN ix
  /\ \A x \in DOMAIN ix \ T : After(E, x) \subseteq DOMAIN ix \ T

(* A device on the trail reaches every later one, and a frame not later    *)
(* than itself.                                                            *)
Joined(E, ix, T, fr) ==
  /\ \A x, y \in T : ix[x] <= ix[y] => Reaches(E, x, y)
  /\ \A x \in T : \E i \in DOMAIN fr : ix[fr[i].node] <= ix[x] /\ Reaches(E, x, fr[i].node)

(* A frame's low is the number of a device on the trail that it reaches,   *)
(* and no edge taken from what it covers leads to an earlier one.          *)
LowTrue(E, ix, lo, T, fr) ==
  \A i \in DOMAIN fr : \E z \in T :
    lo[fr[i].node] = ix[z] /\ ix[z] <= ix[fr[i].node] /\ Reaches(E, fr[i].node, z)
Covers(ix, fr, i, x) ==
  /\ ix[fr[i].node] <= ix[x]
  /\ i < Len(fr) => ix[x] < ix[fr[i + 1].node]
LowEnough(E, ix, lo, T, fr) ==
  \A i \in DOMAIN fr : \A x, z \in T :
    /\ Covers(ix, fr, i, x) /\ z \in After(E, x)
    /\ x = fr[i].node => z \in fr[i].taken
    => lo[fr[i].node] <= ix[z]

Walked(E, ix, lo, T, fr, ahead) ==
  /\ WalkTypes(E, ix, lo, T, fr) /\ Explored(E, ix, T, fr, ahead) /\ Joined(E, ix, T, fr)
  /\ LowTrue(E, ix, lo, T, fr) /\ LowEnough(E, ix, lo, T, fr)

(* The device turned to last is not numbered: the walk is the one without  *)
(* its frame.                                                              *)
Descending(E, ix, lo, T, fr) ==
  LET n == fr[Len(fr)].node
      rest == SubSeq(fr, 1, Len(fr) - 1)
  IN /\ Walked(E, ix, lo, T, rest, {n})
     /\ fr \in Seq(Frame)
     /\ n \notin DOMAIN ix
     /\ rest # <<>> => n \in After(E, rest[Len(rest)].node)

(* The trail is in the order of the numbers.                               *)
InOrder(s, ix) ==
  /\ s \in Seq(DOMAIN ix)
  /\ \A i, j \in DOMAIN s : i < j => ix[s[i]] < ix[s[j]]

(* Every frame below the last has turned to a successor, and what was      *)
(* found are the groups of two or more among the devices D.                *)
Settled(fr) == \A i \in DOMAIN fr : i < Len(fr) => fr[i].taken # {}
FoundIs(found, E, D) ==
  {l.devices : l \in found} = {S \in Classes(E) : Cardinality(S) > 1 /\ S \subseteq D}

(* The invariant of the search: a device that was turned to is numbered by *)
(* the first round on it, the rest is a walk, and what was found lies      *)
(* among the devices that are numbered and off the trail.                  *)
LoopsInv ==
  /\ asking \in LoopInputs /\ edges = EdgesOf(asking)
  /\ InOrder(trail, index) /\ Settled(frames)
  /\ IF frames # <<>> /\ Fresh
     THEN Descending(edges, index, low, Range(trail), frames)
     ELSE Walked(edges, index, low, Range(trail), frames, {})
  /\ FoundIs(loops, edges, DOMAIN index \ Range(trail))
  /\ \A l \in loops : l.rules = RulesInside(l.devices)

(* A sequence, its last element, and what is before it.                    *)
LEMMA FrontFacts ==
  ASSUME NEW S, NEW s \in Seq(S), s # <<>>
  PROVE  LET k == Len(s)
             rest == SubSeq(s, 1, k - 1)
         IN  /\ k \in Nat \ {0} /\ DOMAIN s = 1..k /\ k \in 1..k /\ s[k] \in S
             /\ rest \in Seq(S) /\ DOMAIN rest = 1..(k - 1) /\ Len(rest) = k - 1
             /\ \A i \in 1..(k - 1) : rest[i] = s[i]
             /\ rest # <<>> <=> k > 1
<1> DEFINE k == Len(s)
           rest == SubSeq(s, 1, k - 1)
<1>1. k \in Nat \ {0} /\ DOMAIN s = 1..k /\ k \in 1..k
  OBVIOUS
<1>2. s[k] \in S
  BY <1>1
<1>3. rest \in Seq(S) /\ Len(rest) = k - 1 /\ DOMAIN rest = 1..(k - 1)
  BY <1>1
<1>4. \A i \in 1..(k - 1) : rest[i] = s[i]
  BY <1>1
<1> HIDE DEF rest, k
<1>5. rest # <<>> <=> k > 1
  <2>1. rest = <<>> <=> Len(rest) = 0
    BY <1>3, EmptySeq
  <2>2. QED  BY <2>1, <1>1, <1>3
<1>6. QED  BY <1>1, <1>2, <1>3, <1>4, <1>5 DEF rest, k

LEMMA AppendFront ==
  ASSUME NEW S, NEW s \in Seq(S), NEW e \in S
  PROVE  SubSeq(Append(s, e), 1, Len(Append(s, e)) - 1) = s
<1> DEFINE a == Append(s, e)
           f == SubSeq(a, 1, Len(a) - 1)
<1>1. a \in Seq(S) /\ Len(a) = Len(s) + 1 /\ \A i \in 1..Len(s) : a[i] = s[i]
  OBVIOUS
<1>2. a # <<>>
  BY AppendProperties
<1>3. f \in Seq(S) /\ Len(f) = Len(s) /\ \A i \in 1..Len(s) : f[i] = a[i]
  BY <1>1, <1>2, FrontFacts
<1> HIDE DEF a, f
<1>4. f = s
  BY <1>1, <1>3
<1>5. QED  BY <1>4 DEF a, f

(***************************************************************************)
(* What reaches what.                                                      *)
(***************************************************************************)
LEMMA ReachLaws ==
  ASSUME NEW E
  PROVE  /\ \A a : Reaches(E, a, a)
         /\ \A a, b, c : Reaches(E, a, b) /\ Reaches(E, b, c) => Reaches(E, a, c)
         /\ \A a : \A b \in After(E, a) : Reaches(E, a, b)
         /\ \A a, b : b \in Class(E, a) <=> b \in Relays /\ Reaches(E, a, b) /\ Reaches(E, b, a)
BY DEF Reaches, Class, Kept, After

(* The classes do not overlap.                                             *)
LEMMA ClassesApart ==
  ASSUME NEW E, NEW a \in Relays
  PROVE  /\ a \in Class(E, a)
         /\ \A b \in Class(E, a) : Class(E, b) = Class(E, a)
BY DEF Class

(* What a set reaches that nothing leaves lies in it.                      *)
LEMMA ReachStays ==
  ASSUME NEW E, NEW S \in SUBSET Relays, \A x \in S : After(E, x) \subseteq S,
         NEW a \in S, NEW b, Reaches(E, a, b)
  PROVE  b \in S
<1>1. S \in Kept(E)
  BY DEF Kept, After
<1>2. QED  BY <1>1 DEF Reaches

(***************************************************************************)
(* The device turned to is numbered.                                       *)
(***************************************************************************)
WithNumber(f, n, c) == [x \in DOMAIN f \cup {n} |-> IF x = n THEN c ELSE f[x]]

LEMMA Numbering ==
  ASSUME IsFiniteSet(Relays),
         NEW E, NEW ix, NEW lo, NEW T, NEW fr, fr # <<>>,
         Descending(E, ix, lo, T, fr), fr[Len(fr)].taken = {}
  PROVE  LET n == fr[Len(fr)].node
             c == Cardinality(DOMAIN ix)
         IN  Walked(E, WithNumber(ix, n, c), WithNumber(lo, n, c), T \cup {n}, fr, {})
<1> DEFINE n == fr[Len(fr)].node
           c == Cardinality(DOMAIN ix)
           D == DOMAIN ix \cup {n}
           nx == [x \in D |-> IF x = n THEN c ELSE ix[x]]
           nl == [x \in D |-> IF x = n THEN c ELSE lo[x]]
           TT == T \cup {n}
           rest == SubSeq(fr, 1, Len(fr) - 1)
           k == Len(fr)
<1>1. /\ Walked(E, ix, lo, T, rest, {n})
      /\ fr \in Seq(Frame)
      /\ n \notin DOMAIN ix
      /\ rest # <<>> => n \in After(E, rest[Len(rest)].node)
  BY DEF Descending
<1>2. /\ k \in Nat \ {0} /\ DOMAIN fr = 1..k /\ DOMAIN rest = 1..(k - 1) /\ Len(rest) = k - 1
      /\ \A i \in 1..(k - 1) : rest[i] = fr[i]
      /\ n \in Relays /\ fr[k].node = n /\ fr[k].taken = {}
  <2>1. /\ k \in Nat \ {0} /\ DOMAIN fr = 1..k /\ k \in 1..k /\ fr[k] \in Frame
        /\ DOMAIN rest = 1..(k - 1) /\ Len(rest) = k - 1
        /\ \A i \in 1..(k - 1) : rest[i] = fr[i]
    <3>1. fr \in Seq(Frame)
      BY <1>1 DEF Frame
    <3>2. QED  BY <3>1, FrontFacts
  <2>2. QED  BY <2>1 DEF Frame
<1>3. /\ WalkTypes(E, ix, lo, T, rest) /\ Explored(E, ix, T, rest, {n}) /\ Joined(E, ix, T, rest)
      /\ LowTrue(E, ix, lo, T, rest) /\ LowEnough(E, ix, lo, T, rest)
  BY <1>1 DEF Walked
<1>4. c \in Nat /\ Cardinality(D) = c + 1
  <2>1. DOMAIN ix \subseteq Relays /\ n \notin DOMAIN ix
    BY <1>1, <1>3 DEF WalkTypes
  <2>2. IsFiniteSet(DOMAIN ix)
    BY <2>1, FS_Subset
  <2>3. QED  BY <2>1, <2>2, FS_CardinalityType, FS_AddElement
<1>5. /\ E \subseteq Relays \X Relays /\ DOMAIN ix \subseteq Relays
      /\ ix \in [DOMAIN ix -> Nat] /\ lo \in [DOMAIN ix -> Nat]
      /\ \A x \in DOMAIN ix : ix[x] < c
      /\ \A x, y \in DOMAIN ix : ix[x] = ix[y] => x = y
      /\ T \subseteq DOMAIN ix
  BY <1>3 DEF WalkTypes
<1>6. /\ \A i \in 1..(k - 1) : fr[i].node \in T
      /\ \A i, j \in 1..(k - 1) : i < j => ix[fr[i].node] < ix[fr[j].node]
  BY <1>2, <1>3 DEF WalkTypes
<1>7. /\ DOMAIN nx = D /\ nx[n] = c /\ nl[n] = c /\ nl \in [D -> Nat] /\ nx \in [D -> Nat]
      /\ \A x \in DOMAIN ix : nx[x] = ix[x] /\ nl[x] = lo[x] /\ nx[x] < c /\ nx[x] \in Nat
  BY <1>1, <1>4, <1>5
<1> HIDE DEF rest, nx, nl, c, n, k, D
<1>8. WalkTypes(E, nx, nl, TT, fr)
  <2>1. /\ D \subseteq Relays /\ TT \subseteq D
        /\ \A x \in D : nx[x] < Cardinality(D)
        /\ \A x, y \in D : nx[x] = nx[y] => x = y
    BY <1>2, <1>4, <1>5, <1>7 DEF D
  <2>2. \A i \in DOMAIN fr : fr[i].node \in TT
    <3>1. \A i \in 1..k : i = k \/ i \in 1..(k - 1)
      BY <1>2
    <3>2. QED  BY <3>1, <1>2, <1>6
  <2>3. \A i, j \in DOMAIN fr : i < j => nx[fr[i].node] < nx[fr[j].node]
    <3>1. \A i, j \in 1..k : i < j => i \in 1..(k - 1) /\ (j = k \/ j \in 1..(k - 1))
      BY <1>2
    <3>2. QED  BY <3>1, <1>2, <1>5, <1>6, <1>7
  <2>4. QED  BY <2>1, <2>2, <2>3, <1>1, <1>5, <1>7 DEF WalkTypes
<1>9. Explored(E, nx, TT, fr, {})
  <2>1. \A i \in DOMAIN fr : fr[i].taken \subseteq After(E, fr[i].node) \cap (DOMAIN nx \cup {})
    <3>1. \A i \in 1..k : i = k \/ i \in 1..(k - 1)
      BY <1>2
    <3>2. \A i \in 1..(k - 1) : fr[i].taken \subseteq After(E, fr[i].node) \cap (DOMAIN ix \cup {n})
      BY <1>2, <1>3 DEF Explored
    <3>3. QED  BY <3>1, <3>2, <1>2, <1>7 DEF D
  <2>2. \A x \in TT : (\E i \in DOMAIN fr : fr[i].node = x) \/ After(E, x) \subseteq DOMAIN nx
    <3>1. \A x \in T : (\E i \in 1..(k - 1) : fr[i].node = x) \/ After(E, x) \subseteq DOMAIN ix
      BY <1>2, <1>3 DEF Explored
    <3>2. 1..(k - 1) \subseteq 1..k /\ k \in 1..k
      BY <1>2
    <3>3. QED  BY <3>1, <3>2, <1>2, <1>7 DEF D
  <2>3. \A x \in DOMAIN nx \ TT : After(E, x) \subseteq DOMAIN nx \ TT
    BY <1>1, <1>3, <1>7 DEF Explored, D
  <2>4. QED  BY <2>1, <2>2, <2>3 DEF Explored
<1>10. \A x \in T : Reaches(E, x, n)
  <2> SUFFICES ASSUME NEW x \in T PROVE Reaches(E, x, n)
    OBVIOUS
  <2>1. PICK i \in 1..(k - 1) : ix[fr[i].node] <= ix[x] /\ Reaches(E, x, fr[i].node)
    BY <1>2, <1>3 DEF Joined
  <2>2. k - 1 \in 1..(k - 1) /\ (i < k - 1 \/ i = k - 1)
    BY <1>2
  <2>3. ix[fr[i].node] <= ix[fr[k - 1].node]
    BY <2>2, <1>5, <1>6
  <2>4. Reaches(E, fr[i].node, fr[k - 1].node)
    BY <2>2, <2>3, <1>3, <1>6 DEF Joined
  <2>5. n \in After(E, fr[k - 1].node)
    <3>1. Len(rest) # 0 /\ rest[Len(rest)] = fr[k - 1]
      BY <2>2, <1>2
    <3>2. rest # <<>>
      BY <3>1
    <3>3. QED  BY <3>1, <3>2, <1>1
  <2>6. Reaches(E, fr[k - 1].node, n)
    BY <2>5, ReachLaws
  <2>7. Reaches(E, x, fr[k - 1].node)
    BY <2>1, <2>4, ReachLaws
  <2>8. QED  BY <2>6, <2>7, ReachLaws
<1>11. Joined(E, nx, TT, fr)
  <2>1. \A x, y \in TT : nx[x] <= nx[y] => Reaches(E, x, y)
    <3>1. \A x \in T : nx[x] = ix[x] /\ nx[x] < c /\ nx[x] \in Nat
      BY <1>5, <1>7
    <3>2. \A x, y \in T : nx[x] <= nx[y] => Reaches(E, x, y)
      BY <3>1, <1>3 DEF Joined
    <3>3. \A x \in T : ~(nx[n] <= nx[x])
      BY <3>1, <1>4, <1>7
    <3>4. QED  BY <3>2, <3>3, <1>10, ReachLaws
  <2>2. \A x \in TT : \E i \in DOMAIN fr : nx[fr[i].node] <= nx[x] /\ Reaches(E, x, fr[i].node)
    <3>1. \A x \in T : \E i \in 1..(k - 1) : ix[fr[i].node] <= ix[x] /\ Reaches(E, x, fr[i].node)
      BY <1>2, <1>3 DEF Joined
    <3>2. 1..(k - 1) \subseteq 1..k /\ k \in 1..k
      BY <1>2
    <3>3. \A x \in T : \E i \in DOMAIN fr : nx[fr[i].node] <= nx[x] /\ Reaches(E, x, fr[i].node)
      BY <3>1, <3>2, <1>2, <1>5, <1>6, <1>7
    <3>4. nx[fr[k].node] <= nx[n] /\ Reaches(E, n, fr[k].node)
      BY <1>2, <1>4, <1>7, ReachLaws
    <3>5. QED  BY <3>2, <3>3, <3>4, <1>2
  <2>3. QED  BY <2>1, <2>2 DEF Joined
<1>12. LowTrue(E, nx, nl, TT, fr)
  <2>1. \A i \in 1..(k - 1) : \E z \in T :
          lo[fr[i].node] = ix[z] /\ ix[z] <= ix[fr[i].node] /\ Reaches(E, fr[i].node, z)
    BY <1>2, <1>3 DEF LowTrue
  <2>2. \A i \in 1..(k - 1) : \E z \in TT :
          nl[fr[i].node] = nx[z] /\ nx[z] <= nx[fr[i].node] /\ Reaches(E, fr[i].node, z)
    BY <2>1, <1>5, <1>6, <1>7
  <2>3. nl[fr[k].node] = nx[n] /\ nx[n] <= nx[fr[k].node] /\ Reaches(E, fr[k].node, n)
    BY <1>2, <1>4, <1>7, ReachLaws
  <2>4. \A i \in 1..k : i = k \/ i \in 1..(k - 1)
    BY <1>2
  <2>5. QED  BY <2>2, <2>3, <2>4, <1>2 DEF LowTrue
<1>13. LowEnough(E, nx, nl, TT, fr)
  <2> SUFFICES ASSUME NEW i \in 1..k, NEW x \in TT, NEW z \in TT,
                      Covers(nx, fr, i, x), z \in After(E, x),
                      x = fr[i].node => z \in fr[i].taken
               PROVE  nl[fr[i].node] <= nx[z]
    BY <1>2 DEF LowEnough
  <2>1. CASE i = k
    <3>1. nx[n] <= nx[x]
      BY <2>1, <1>2 DEF Covers
    <3>2. x = n
      BY <3>1, <1>4, <1>5, <1>7
    <3>3. QED  BY <3>2, <2>1, <1>2
  <2>2. CASE i \in 1..(k - 1) /\ z = n
    <3>1. nl[fr[i].node] = lo[fr[i].node] /\ fr[i].node \in T
      BY <2>2, <1>5, <1>6, <1>7
    <3>2. PICK w \in T : lo[fr[i].node] = ix[w]
      BY <2>2, <1>2, <1>3 DEF LowTrue
    <3>3. ix[w] < c /\ ix[w] \in Nat
      BY <1>5
    <3>4. QED  BY <3>1, <3>2, <3>3, <2>2, <1>4, <1>7
  <2>3. CASE i \in 1..(k - 1) /\ z # n
    <3>1. i + 1 \in 1..k /\ i < k /\ fr[i].node \in T /\ z \in T
      BY <2>3, <1>2, <1>6
    <3>2. nx[fr[i].node] <= nx[x] /\ nx[x] < nx[fr[i + 1].node]
      BY <3>1 DEF Covers, k
    <3>3. fr[i + 1].node \in TT
      BY <1>8, <3>1, <1>2 DEF WalkTypes
    <3>4. x # n
      BY <3>2, <3>3, <1>4, <1>5, <1>7
    <3>5. /\ nx[x] = ix[x] /\ nx[z] = ix[z] /\ nx[fr[i].node] = ix[fr[i].node]
          /\ nl[fr[i].node] = lo[fr[i].node]
      BY <3>1, <3>4, <1>5, <1>7
    <3>6. i < k - 1 => ix[x] < ix[fr[i + 1].node]
      <4> SUFFICES ASSUME i < k - 1 PROVE ix[x] < ix[fr[i + 1].node]
        OBVIOUS
      <4>1. i + 1 \in 1..(k - 1)
        BY <2>3, <1>2
      <4>2. QED  BY <4>1, <3>2, <3>5, <1>5, <1>6, <1>7
    <3>7. Covers(ix, rest, i, x)
      <4>1. rest[i] = fr[i] /\ (i < Len(rest) => rest[i + 1] = fr[i + 1])
        BY <2>3, <1>2
      <4>2. QED  BY <4>1, <3>2, <3>5, <3>6, <1>2 DEF Covers
    <3>8. QED  BY <3>1, <3>4, <3>5, <3>7, <2>3, <1>2, <1>3 DEF LowEnough
  <2>4. QED  BY <2>1, <2>2, <2>3, <1>2
<1>14. Walked(E, nx, nl, TT, fr, {})
  BY <1>8, <1>9, <1>11, <1>12, <1>13 DEF Walked
<1>15. nx = WithNumber(ix, n, c) /\ nl = WithNumber(lo, n, c)
  BY <1>5 DEF WithNumber, nx, nl, D
<1>16. QED  BY <1>14, <1>15 DEF n, c

(***************************************************************************)
(* A successor is taken: it is numbered, or turned to next.                *)
(***************************************************************************)
LEMMA Moving ==
  ASSUME NEW E, NEW ix, NEW lo, NEW T, NEW fr, fr # <<>>,
         Walked(E, ix, lo, T, fr, {}),
         NEW to \in After(E, fr[Len(fr)].node), NEW ahead, to \in DOMAIN ix \cup ahead
  PROVE  LET n == fr[Len(fr)].node
             moved == [fr EXCEPT ![Len(fr)].taken = @ \cup {to}]
             nl == IF to \in T THEN [lo EXCEPT ![n] = Smaller(@, ix[to])] ELSE lo
         IN  Walked(E, ix, nl, T, moved, ahead)
<1> DEFINE k == Len(fr)
           n == fr[k].node
           moved == [fr EXCEPT ![k].taken = @ \cup {to}]
           nl == IF to \in T THEN [lo EXCEPT ![n] = Smaller(@, ix[to])] ELSE lo
<1>1. /\ WalkTypes(E, ix, lo, T, fr) /\ Explored(E, ix, T, fr, {}) /\ Joined(E, ix, T, fr)
      /\ LowTrue(E, ix, lo, T, fr) /\ LowEnough(E, ix, lo, T, fr)
  BY DEF Walked
<1>2. fr \in Seq(Frame)
  BY <1>1 DEF WalkTypes, Frame
<1>3. k \in Nat \ {0} /\ DOMAIN fr = 1..k /\ k \in 1..k /\ fr[k] \in Frame
  BY <1>2, FrontFacts
<1>4. to \in Relays
  BY <1>1 DEF WalkTypes, After
<1>5. /\ moved \in Seq(Frame) /\ Len(moved) = k /\ DOMAIN moved = 1..k
      /\ \A i \in 1..k : /\ moved[i].node = fr[i].node
                         /\ moved[i].taken = IF i = k THEN fr[k].taken \cup {to} ELSE fr[i].taken
  <2>1. moved = [fr EXCEPT ![k] = [fr[k] EXCEPT !.taken = @ \cup {to}]]
    OBVIOUS
  <2>2. DOMAIN fr[k] = {"node", "taken"} /\ fr[k].taken \subseteq Relays /\ fr[k].node \in Relays
    BY <1>3 DEF Frame
  <2>3. LET f == [fr[k] EXCEPT !.taken = @ \cup {to}]
        IN f \in Frame /\ f.node = fr[k].node /\ f.taken = fr[k].taken \cup {to}
    BY <2>2, <1>3, <1>4 DEF Frame
  <2>4. QED  BY <2>1, <2>3, <1>2, <1>3
<1>6. /\ E \subseteq Relays \X Relays /\ DOMAIN ix \subseteq Relays
      /\ ix \in [DOMAIN ix -> Nat] /\ lo \in [DOMAIN ix -> Nat]
      /\ \A x \in DOMAIN ix : ix[x] < Cardinality(DOMAIN ix)
      /\ \A x, y \in DOMAIN ix : ix[x] = ix[y] => x = y
      /\ T \subseteq DOMAIN ix
      /\ \A i \in 1..k : fr[i].node \in T
      /\ \A i, j \in 1..k : i < j => ix[fr[i].node] < ix[fr[j].node]
  BY <1>1, <1>3 DEF WalkTypes
<1>7. n \in T /\ to \in After(E, n)
  BY <1>3, <1>6
<1>8. /\ nl \in [DOMAIN ix -> Nat]
      /\ \A x \in DOMAIN ix : nl[x] = IF x = n /\ to \in T THEN Smaller(lo[n], ix[to]) ELSE lo[x]
  BY <1>6, <1>7 DEF Smaller
<1> HIDE DEF moved, nl, n, k
<1>9. WalkTypes(E, ix, nl, T, moved)
  BY <1>5, <1>6, <1>8 DEF WalkTypes, Frame
<1>10. Explored(E, ix, T, moved, ahead)
  <2>1. \A i \in 1..k : moved[i].taken \subseteq After(E, moved[i].node) \cap (DOMAIN ix \cup ahead)
    <3>1. \A i \in 1..k : fr[i].taken \subseteq After(E, fr[i].node) \cap DOMAIN ix
      BY <1>1, <1>3 DEF Explored
    <3>2. to \in After(E, fr[k].node)
      BY DEF n, k
    <3>3. QED  BY <3>1, <3>2, <1>5
  <2>2. QED  BY <2>1, <1>1, <1>3, <1>5 DEF Explored
<1>11. Joined(E, ix, T, moved)
  BY <1>1, <1>3, <1>5 DEF Joined
<1>12. LowTrue(E, ix, nl, T, moved)
  <2> SUFFICES ASSUME NEW i \in 1..k
               PROVE  \E z \in T : /\ nl[fr[i].node] = ix[z] /\ ix[z] <= ix[fr[i].node]
                                   /\ Reaches(E, fr[i].node, z)
    BY <1>5 DEF LowTrue
  <2>1. PICK z \in T : lo[fr[i].node] = ix[z] /\ ix[z] <= ix[fr[i].node] /\ Reaches(E, fr[i].node, z)
    BY <1>1, <1>3 DEF LowTrue
  <2>2. CASE nl[fr[i].node] = lo[fr[i].node]
    BY <2>1, <2>2
  <2>3. CASE nl[fr[i].node] # lo[fr[i].node]
    <3>1. fr[i].node = n /\ to \in T /\ nl[n] = ix[to] /\ ix[to] < lo[n]
      BY <2>3, <1>6, <1>8 DEF Smaller
    <3>2. Reaches(E, n, to)
      BY <1>7, ReachLaws
    <3>3. ix[to] <= ix[n]
      BY <3>1, <2>1, <1>6, <1>7
    <3>4. QED  BY <3>1, <3>2, <3>3
  <2>4. QED  BY <2>2, <2>3
<1>13. LowEnough(E, ix, nl, T, moved)
  <2> SUFFICES ASSUME NEW i \in 1..k, NEW x \in T, NEW z \in T,
                      Covers(ix, moved, i, x), z \in After(E, x),
                      x = fr[i].node => z \in moved[i].taken
               PROVE  nl[fr[i].node] <= ix[z]
    BY <1>5 DEF LowEnough
  <2>1. Covers(ix, fr, i, x)
    <3>1. i < k => i + 1 \in 1..k
      BY <1>3
    <3>2. QED  BY <3>1, <1>5 DEF Covers, k
  <2>2. fr[i].node \in DOMAIN ix /\ nl[fr[i].node] <= lo[fr[i].node]
    <3> DEFINE p == fr[i].node
    <3> HIDE DEF p
    <3>1. p \in DOMAIN ix
      BY <1>6 DEF p
    <3>2. lo[p] \in Nat /\ lo[n] \in Nat /\ (to \in T => ix[to] \in Nat)
      BY <3>1, <1>6, <1>7
    <3>3. nl[p] = IF p = n /\ to \in T THEN Smaller(lo[n], ix[to]) ELSE lo[p]
      BY <3>1, <1>8
    <3>4. nl[p] <= lo[p]
      BY <3>2, <3>3 DEF Smaller
    <3>5. QED  BY <3>1, <3>4 DEF p
  <2>3. CASE x = fr[i].node => z \in fr[i].taken
    <3>1. lo[fr[i].node] <= ix[z]
      BY <2>1, <2>3, <1>1, <1>3 DEF LowEnough
    <3>2. QED  BY <3>1, <2>2, <1>6, <1>8
  <2>4. CASE x = fr[i].node /\ z \notin fr[i].taken
    <3>1. i = k /\ z = to
      BY <2>4, <1>5
    <3>2. nl[n] = Smaller(lo[n], ix[to]) /\ lo[n] \in Nat /\ ix[to] \in Nat
      BY <3>1, <1>6, <1>7, <1>8
    <3>3. fr[i].node = n
      BY <3>1 DEF n
    <3>4. nl[n] <= ix[to]
      BY <3>2 DEF Smaller
    <3>5. QED  BY <3>1, <3>3, <3>4
  <2>5. QED  BY <2>3, <2>4
<1>14. Walked(E, ix, nl, T, moved, ahead)
  BY <1>9, <1>10, <1>11, <1>12, <1>13 DEF Walked
<1>15. QED  BY <1>14 DEF n, k, nl, moved

(***************************************************************************)
(* A device is done.  Its parent hears of its low; it stays on the trail   *)
(* while an earlier one can be reached from it.                            *)
(***************************************************************************)
LEMMA FinishedOpen ==
  ASSUME NEW E, NEW ix, NEW lo, NEW T, NEW fr, fr # <<>>,
         Walked(E, ix, lo, T, fr, {}),
         After(E, fr[Len(fr)].node) \subseteq fr[Len(fr)].taken,
         lo[fr[Len(fr)].node] # ix[fr[Len(fr)].node]
  PROVE  LET n == fr[Len(fr)].node
             p == fr[Len(fr) - 1].node
             rest == SubSeq(fr, 1, Len(fr) - 1)
             nl == [lo EXCEPT ![p] = Smaller(@, lo[n])]
         IN  Len(fr) # 1 /\ Walked(E, ix, nl, T, rest, {})
<1> DEFINE k == Len(fr)
           n == fr[k].node
           p == fr[k - 1].node
           rest == SubSeq(fr, 1, k - 1)
           nl == [lo EXCEPT ![p] = Smaller(@, lo[n])]
<1>1. /\ WalkTypes(E, ix, lo, T, fr) /\ Explored(E, ix, T, fr, {}) /\ Joined(E, ix, T, fr)
      /\ LowTrue(E, ix, lo, T, fr) /\ LowEnough(E, ix, lo, T, fr)
  BY DEF Walked
<1>2. fr \in Seq(Frame)
  BY <1>1 DEF WalkTypes, Frame
<1>3. /\ k \in Nat \ {0} /\ DOMAIN fr = 1..k /\ k \in 1..k /\ fr[k] \in Frame
      /\ rest \in Seq(Frame) /\ DOMAIN rest = 1..(k - 1) /\ Len(rest) = k - 1
      /\ \A i \in 1..(k - 1) : rest[i] = fr[i]
  BY <1>2, FrontFacts
<1>4. /\ E \subseteq Relays \X Relays /\ DOMAIN ix \subseteq Relays
      /\ ix \in [DOMAIN ix -> Nat] /\ lo \in [DOMAIN ix -> Nat]
      /\ \A x \in DOMAIN ix : ix[x] < Cardinality(DOMAIN ix)
      /\ \A x, y \in DOMAIN ix : ix[x] = ix[y] => x = y
      /\ T \subseteq DOMAIN ix
      /\ \A i \in 1..k : fr[i].node \in T
      /\ \A i, j \in 1..k : i < j => ix[fr[i].node] < ix[fr[j].node]
  BY <1>1, <1>3 DEF WalkTypes
<1>5. n \in T /\ fr[k].node = n /\ After(E, n) \subseteq fr[k].taken /\ lo[n] # ix[n]
  BY <1>3, <1>4
<1>6. PICK z \in T : lo[n] = ix[z] /\ ix[z] < ix[n] /\ Reaches(E, n, z)
  BY <1>1, <1>3, <1>4, <1>5 DEF LowTrue
<1> HIDE DEF n, k, rest, nl
(* The device reaches a frame before its own. *)
<1>7. PICK j \in 1..(k - 1) : ix[fr[j].node] <= ix[z] /\ Reaches(E, n, fr[j].node)
  <2>1. PICK j \in 1..k : ix[fr[j].node] <= ix[z] /\ Reaches(E, z, fr[j].node)
    BY <1>1, <1>3 DEF Joined
  <2>2. j # k
    BY <2>1, <1>4, <1>5, <1>6
  <2>3. QED  BY <2>1, <2>2, <1>3, <1>6, ReachLaws
<1>8. k # 1 /\ k - 1 \in 1..(k - 1) /\ k - 1 \in 1..k /\ 1..(k - 1) \subseteq 1..k
  BY <1>3
<1>9. p \in T /\ ix[p] < ix[n] /\ Reaches(E, p, n) /\ p # n
  <2>1. p \in T /\ ix[p] < ix[n]
    BY <1>3, <1>4, <1>5, <1>8
  <2>2. Reaches(E, p, n)
    BY <2>1, <1>1, <1>4, <1>5 DEF Joined
  <2>3. QED  BY <2>1, <2>2, <1>4
<1>10. /\ nl \in [DOMAIN ix -> Nat] /\ p \in DOMAIN ix /\ n \in DOMAIN ix
       /\ \A x \in DOMAIN ix : nl[x] = IF x = p THEN Smaller(lo[p], lo[n]) ELSE lo[x]
  BY <1>4, <1>5, <1>9 DEF Smaller, nl
<1>11. nl[p] <= lo[p] /\ nl[p] <= lo[n] /\ \A x \in DOMAIN ix : nl[x] <= lo[x] /\ nl[x] \in Nat
  <2>1. \A x \in DOMAIN ix : nl[x] = IF x = p THEN Smaller(lo[p], lo[n]) ELSE lo[x]
    BY <1>10
  <2>2. lo[p] \in Nat /\ lo[n] \in Nat
    BY <1>4, <1>10
  <2>3. Smaller(lo[p], lo[n]) <= lo[p] /\ Smaller(lo[p], lo[n]) <= lo[n] /\ Smaller(lo[p], lo[n]) \in Nat
    BY <2>2 DEF Smaller
  <2>4. \A x \in DOMAIN ix : lo[x] \in Nat
    BY <1>4
  <2> HIDE DEF p
  <2>5. \A x \in DOMAIN ix : nl[x] <= lo[x] /\ nl[x] \in Nat
    BY <2>1, <2>3, <2>4
  <2>6. QED  BY <2>1, <2>3, <2>5, <1>10
<1> HIDE DEF p
<1>12. WalkTypes(E, ix, nl, T, rest)
  BY <1>3, <1>4, <1>8, <1>10 DEF WalkTypes, Frame
<1>13. Explored(E, ix, T, rest, {})
  <2>1. \A i \in 1..(k - 1) : fr[i].taken \subseteq After(E, fr[i].node) \cap (DOMAIN ix \cup {})
    BY <1>1, <1>3, <1>8 DEF Explored
  <2>2. \A x \in T : (\E i \in 1..(k - 1) : fr[i].node = x) \/ After(E, x) \subseteq DOMAIN ix
    <3>1. fr[k].taken \subseteq DOMAIN ix
      BY <1>1, <1>3 DEF Explored
    <3>2. After(E, n) \subseteq DOMAIN ix
      BY <3>1, <1>5
    <3>3. \A i \in 1..k : i = k \/ i \in 1..(k - 1)
      BY <1>3
    <3>4. \A x \in T : (\E i \in 1..k : fr[i].node = x) \/ After(E, x) \subseteq DOMAIN ix
      BY <1>1, <1>3 DEF Explored
    <3>5. QED  BY <3>2, <3>3, <3>4, <1>5
  <2>3. QED  BY <2>1, <2>2, <1>1, <1>3 DEF Explored
<1>14. Joined(E, ix, T, rest)
  <2>1. \A x \in T : \E i \in 1..(k - 1) : ix[fr[i].node] <= ix[x] /\ Reaches(E, x, fr[i].node)
    <3> SUFFICES ASSUME NEW x \in T
                 PROVE  \E i \in 1..(k - 1) : ix[fr[i].node] <= ix[x] /\ Reaches(E, x, fr[i].node)
      OBVIOUS
    <3>1. PICK i \in 1..k : ix[fr[i].node] <= ix[x] /\ Reaches(E, x, fr[i].node)
      BY <1>1, <1>3 DEF Joined
    <3>2. CASE i = k
      <4>1. Reaches(E, x, fr[j].node)
        BY <3>1, <3>2, <1>5, <1>7, ReachLaws
      <4>2. ix[fr[j].node] <= ix[x]
        <5>1. fr[j].node \in DOMAIN ix /\ fr[i].node = n
          BY <3>2, <1>4, <1>5, <1>7, <1>8
        <5>2. ix[fr[j].node] <= ix[z] /\ ix[z] < ix[n] /\ ix[n] <= ix[x]
          BY <5>1, <3>1, <1>6, <1>7
        <5>3. /\ ix[fr[j].node] \in Nat /\ ix[z] \in Nat /\ ix[n] \in Nat /\ ix[x] \in Nat
          BY <5>1, <1>4, <1>5
        <5>4. QED  BY <5>2, <5>3
      <4>3. QED  BY <4>1, <4>2
    <3>3. CASE i # k
      BY <3>1, <3>3, <1>3
    <3>4. QED  BY <3>2, <3>3
  <2>2. QED  BY <2>1, <1>1, <1>3 DEF Joined
<1>15. LowTrue(E, ix, nl, T, rest)
  <2> SUFFICES ASSUME NEW i \in 1..(k - 1)
               PROVE  \E w \in T : /\ nl[fr[i].node] = ix[w] /\ ix[w] <= ix[fr[i].node]
                                   /\ Reaches(E, fr[i].node, w)
    BY <1>3 DEF LowTrue
  <2>1. PICK w \in T : lo[fr[i].node] = ix[w] /\ ix[w] <= ix[fr[i].node] /\ Reaches(E, fr[i].node, w)
    BY <1>1, <1>3, <1>8 DEF LowTrue
  <2>2. fr[i].node \in DOMAIN ix
    BY <1>4, <1>8
  <2>3. CASE nl[fr[i].node] = lo[fr[i].node]
    BY <2>1, <2>3
  <2>4. CASE nl[fr[i].node] # lo[fr[i].node]
    <3>1. fr[i].node = p /\ nl[p] = lo[n] /\ lo[n] < lo[p]
      <4>1. fr[i].node = p /\ nl[p] = Smaller(lo[p], lo[n]) /\ nl[p] # lo[p]
        BY <2>2, <2>4, <1>10
      <4>2. lo[p] \in Nat /\ lo[n] \in Nat
        BY <1>4, <1>10
      <4>3. QED  BY <4>1, <4>2 DEF Smaller
    <3>2. Reaches(E, p, z)
      BY <1>6, <1>9, ReachLaws
    <3>3. ix[z] <= ix[p]
      BY <3>1, <2>1, <1>4, <1>6, <1>9
    <3>4. QED  BY <3>1, <3>2, <3>3, <1>6
  <2>5. QED  BY <2>3, <2>4
<1>16. LowEnough(E, ix, nl, T, rest)
  <2> SUFFICES ASSUME NEW i \in 1..(k - 1), NEW x \in T, NEW w \in T,
                      Covers(ix, rest, i, x), w \in After(E, x),
                      x = fr[i].node => w \in fr[i].taken
               PROVE  nl[fr[i].node] <= ix[w]
    BY <1>3 DEF LowEnough
  <2>1. ix[fr[i].node] <= ix[x]
    BY <1>3 DEF Covers
  <2>2. fr[i].node \in DOMAIN ix /\ lo[fr[i].node] \in Nat /\ ix[w] \in Nat /\ ix[x] \in Nat
        /\ ix[n] \in Nat /\ lo[n] \in Nat
    BY <1>4, <1>5, <1>8
  <2>3. CASE i < k - 1 \/ ix[x] < ix[n]
    <3>1. Covers(ix, fr, i, x)
      <4>1. i < k - 1 => ix[x] < ix[fr[i + 1].node]
        <5> SUFFICES ASSUME i < k - 1 PROVE ix[x] < ix[fr[i + 1].node]
          OBVIOUS
        <5>1. i + 1 \in 1..(k - 1) /\ i < Len(rest)
          BY <1>3
        <5>2. ix[x] < ix[rest[i + 1].node]
          BY <5>1 DEF Covers
        <5>3. QED  BY <5>1, <5>2, <1>3
      <4>2. i = k - 1 => fr[i + 1].node = n
        BY <1>3, <1>5
      <4>3. QED  BY <4>1, <4>2, <2>1, <2>3, <1>3 DEF Covers
    <3>2. lo[fr[i].node] <= ix[w]
      BY <3>1, <1>1, <1>3, <1>8 DEF LowEnough
    <3>3. QED  BY <3>2, <2>2, <1>11
  <2>4. CASE i = k - 1 /\ ix[n] <= ix[x]
    <3>1. Covers(ix, fr, k, x)
      BY <2>4, <1>5 DEF Covers, k
    <3>2. x = fr[k].node => w \in fr[k].taken
      BY <1>5
    <3>3. lo[n] <= ix[w]
      BY <3>1, <3>2, <1>1, <1>3, <1>5 DEF LowEnough
    <3>4. fr[i].node = p
      BY <2>4 DEF p
    <3>5. QED  BY <3>3, <3>4, <2>2, <1>11
  <2>5. QED  BY <2>2, <2>3, <2>4, <1>3
<1>17. Walked(E, ix, nl, T, rest, {})
  BY <1>12, <1>13, <1>14, <1>15, <1>16 DEF Walked
<1>18. QED  BY <1>8, <1>17 DEF n, p, k, rest, nl

(***************************************************************************)
(* A device is done that reaches nothing earlier: what lies on it in the   *)
(* trail is what it reaches and is reached from.                           *)
(***************************************************************************)
OnOrAbove(ix, T, n) == {x \in T : ix[n] <= ix[x]}
Told(fr, lo) ==
  IF Len(fr) = 1 THEN lo
  ELSE [lo EXCEPT ![fr[Len(fr) - 1].node] = Smaller(@, lo[fr[Len(fr)].node])]

LEMMA FinishedGroup ==
  ASSUME NEW E, NEW ix, NEW lo, NEW T, NEW fr, fr # <<>>,
         Walked(E, ix, lo, T, fr, {}),
         After(E, fr[Len(fr)].node) \subseteq fr[Len(fr)].taken,
         lo[fr[Len(fr)].node] = ix[fr[Len(fr)].node]
  PROVE  LET n == fr[Len(fr)].node
             G == OnOrAbove(ix, T, n)
         IN  /\ n \in Relays /\ G = Class(E, n)
             /\ Walked(E, ix, Told(fr, lo), T \ G, SubSeq(fr, 1, Len(fr) - 1), {})
<1> DEFINE k == Len(fr)
           n == fr[k].node
           p == fr[k - 1].node
           rest == SubSeq(fr, 1, k - 1)
           nl == IF k = 1 THEN lo ELSE [lo EXCEPT ![p] = Smaller(@, lo[n])]
           G == {x \in T : ix[n] <= ix[x]}
           O == T \ G
<1>1. /\ WalkTypes(E, ix, lo, T, fr) /\ Explored(E, ix, T, fr, {}) /\ Joined(E, ix, T, fr)
      /\ LowTrue(E, ix, lo, T, fr) /\ LowEnough(E, ix, lo, T, fr)
  BY DEF Walked
<1>2. fr \in Seq(Frame)
  BY <1>1 DEF WalkTypes, Frame
<1>3. /\ k \in Nat \ {0} /\ DOMAIN fr = 1..k /\ k \in 1..k /\ fr[k] \in Frame
      /\ rest \in Seq(Frame) /\ DOMAIN rest = 1..(k - 1) /\ Len(rest) = k - 1
      /\ \A i \in 1..(k - 1) : rest[i] = fr[i]
  BY <1>2, FrontFacts
<1>4. /\ E \subseteq Relays \X Relays /\ DOMAIN ix \subseteq Relays
      /\ ix \in [DOMAIN ix -> Nat] /\ lo \in [DOMAIN ix -> Nat]
      /\ \A x \in DOMAIN ix : ix[x] < Cardinality(DOMAIN ix)
      /\ \A x, y \in DOMAIN ix : ix[x] = ix[y] => x = y
      /\ T \subseteq DOMAIN ix
      /\ \A i \in 1..k : fr[i].node \in T
      /\ \A i, j \in 1..k : i < j => ix[fr[i].node] < ix[fr[j].node]
  BY <1>1, <1>3 DEF WalkTypes
<1>5. n \in T /\ fr[k].node = n /\ After(E, n) \subseteq fr[k].taken /\ lo[n] = ix[n]
  BY <1>3, <1>4
<1>6. 1..(k - 1) \subseteq 1..k /\ \A i \in 1..k : i = k \/ i \in 1..(k - 1)
  <2>1. k \in Nat \ {0}
    BY <1>3
  <2> HIDE DEF k
  <2>2. QED  BY <2>1
<1>7. \A i \in 1..(k - 1) : fr[i].node \in O /\ ix[fr[i].node] < ix[n]
  <2>1. \A i \in 1..(k - 1) : i < k
    BY <1>3
  <2>2. \A i \in 1..(k - 1) : fr[i].node \in T /\ ix[fr[i].node] < ix[n]
    BY <2>1, <1>3, <1>4, <1>5, <1>6
  <2>3. \A x \in T : ix[x] \in Nat
    BY <1>4
  <2>4. QED  BY <2>2, <2>3, <1>5
<1>8. nl = lo
  <2> SUFFICES ASSUME k # 1 PROVE [lo EXCEPT ![p] = Smaller(@, lo[n])] = lo
    OBVIOUS
  <2>1. k - 1 \in 1..(k - 1) /\ k - 1 \in 1..k
    BY <1>3
  <2>2. p \in T /\ ix[p] < ix[n]
    BY <2>1, <1>7
  <2>3. PICK z \in T : lo[p] = ix[z] /\ ix[z] <= ix[p]
    BY <2>1, <1>1, <1>3 DEF LowTrue
  <2>4. lo[p] \in Nat /\ lo[n] \in Nat /\ ix[p] \in Nat
    BY <2>2, <1>4, <1>5
  <2>5. Smaller(lo[p], lo[n]) = lo[p]
    BY <2>2, <2>3, <2>4, <1>5 DEF Smaller
  <2>6. QED  BY <2>5, <1>4
<1> HIDE DEF n, k, rest, nl, p
(* What is off the trail or in the group is left by nothing. *)
<1>9. DOMAIN ix \ T \in SUBSET Relays /\ \A x \in DOMAIN ix \ T : After(E, x) \subseteq DOMAIN ix \ T
  BY <1>1, <1>4 DEF Explored
<1>10. \A x \in G : After(E, x) \subseteq (DOMAIN ix \ T) \cup G
  <2> SUFFICES ASSUME NEW x \in G, NEW y \in After(E, x)
               PROVE  y \in (DOMAIN ix \ T) \cup G
    OBVIOUS
  <2>1. x = n => y \in fr[k].taken
    BY <1>5
  <2>2. y \in DOMAIN ix
    <3>1. CASE x = n
      BY <3>1, <2>1, <1>1, <1>3 DEF Explored
    <3>2. CASE x # n
      <4>1. \A i \in 1..k : fr[i].node # x
        <5>1. \A i \in 1..(k - 1) : fr[i].node # x
          BY <1>7
        <5>2. QED  BY <5>1, <3>2, <1>5, <1>6
      <4>2. QED  BY <4>1, <1>1, <1>3 DEF Explored
    <3>3. QED  BY <3>1, <3>2
  <2>3. y \in T => y \in G
    <3> SUFFICES ASSUME y \in T PROVE ix[n] <= ix[y]
      OBVIOUS
    <3>1. Covers(ix, fr, k, x)
      BY <1>5 DEF Covers, k
    <3>2. QED  BY <3>1, <2>1, <1>1, <1>3, <1>5 DEF LowEnough
  <2>4. QED  BY <2>2, <2>3
<1>11. G = Class(E, n)
  <2>1. \A x \in G : Reaches(E, n, x)
    BY <1>1, <1>5 DEF Joined
  <2>2. \A x \in G : Reaches(E, x, n)
    <3> SUFFICES ASSUME NEW x \in G PROVE Reaches(E, x, n)
      OBVIOUS
    <3>1. PICK i \in 1..k : Reaches(E, x, fr[i].node)
      BY <1>1, <1>3 DEF Joined
    <3>2. fr[i].node \in T /\ ix[fr[i].node] <= ix[n]
      BY <1>4, <1>5, <1>6, <1>7
    <3>3. Reaches(E, fr[i].node, n)
      BY <3>2, <1>1, <1>5 DEF Joined
    <3>4. QED  BY <3>1, <3>3, ReachLaws
  <2>3. \A y \in Class(E, n) : y \in G
    <3> SUFFICES ASSUME NEW y \in Class(E, n) PROVE y \in G
      OBVIOUS
    <3>1. y \in Relays /\ Reaches(E, n, y) /\ Reaches(E, y, n)
      BY ReachLaws
    <3> DEFINE A == (DOMAIN ix \ T) \cup G
    <3>2. A \in SUBSET Relays /\ \A x \in A : After(E, x) \subseteq A
      BY <1>4, <1>9, <1>10
    <3>3. n \in A
      BY <1>4, <1>5
    <3>4. y \in A
      <4> HIDE DEF A
      <4>1. QED  BY <3>1, <3>2, <3>3, ReachStays
    <3>5. y \in DOMAIN ix \ T => n \in DOMAIN ix \ T
      <4> DEFINE B == DOMAIN ix \ T
      <4>1. B \in SUBSET Relays /\ \A x \in B : After(E, x) \subseteq B
        BY <1>9
      <4> HIDE DEF B
      <4>2. y \in B => n \in B
        BY <3>1, <4>1, ReachStays
      <4>3. QED  BY <4>2 DEF B
    <3>6. QED  BY <3>4, <3>5, <1>5
  <2>4. \A x \in G : x \in Class(E, n)
    BY <2>1, <2>2, <1>4, ReachLaws
  <2>5. QED  BY <2>3, <2>4
(* The walk goes on without the group. *)
<1>12. O \subseteq T /\ \A x \in O : ix[x] < ix[n]
  BY <1>4, <1>5
<1>13. WalkTypes(E, ix, lo, O, rest)
  BY <1>3, <1>4, <1>6, <1>7, <1>12 DEF WalkTypes, Frame
<1>14. Explored(E, ix, O, rest, {})
  <2>1. \A i \in 1..(k - 1) : fr[i].taken \subseteq After(E, fr[i].node) \cap (DOMAIN ix \cup {})
    BY <1>1, <1>3, <1>6 DEF Explored
  <2>2. \A x \in O : (\E i \in 1..(k - 1) : fr[i].node = x) \/ After(E, x) \subseteq DOMAIN ix
    <3>1. \A x \in T : (\E i \in 1..k : fr[i].node = x) \/ After(E, x) \subseteq DOMAIN ix
      BY <1>1, <1>3 DEF Explored
    <3>2. n \notin O
      BY <1>4, <1>5
    <3>3. QED  BY <3>1, <3>2, <1>5, <1>6
  <2>3. \A x \in DOMAIN ix \ O : After(E, x) \subseteq DOMAIN ix \ O
    BY <1>4, <1>9, <1>10
  <2>4. QED  BY <2>1, <2>2, <2>3, <1>3 DEF Explored
<1>15. Joined(E, ix, O, rest)
  <2>1. \A x \in O : \E i \in 1..(k - 1) : ix[fr[i].node] <= ix[x] /\ Reaches(E, x, fr[i].node)
    <3> SUFFICES ASSUME NEW x \in O
                 PROVE  \E i \in 1..(k - 1) : ix[fr[i].node] <= ix[x] /\ Reaches(E, x, fr[i].node)
      OBVIOUS
    <3>1. PICK i \in 1..k : ix[fr[i].node] <= ix[x] /\ Reaches(E, x, fr[i].node)
      BY <1>1, <1>3 DEF Joined
    <3>2. i # k
      BY <3>1, <1>5
    <3>3. QED  BY <3>1, <3>2, <1>6
  <2>2. QED  BY <2>1, <1>1, <1>3 DEF Joined
<1>16. LowTrue(E, ix, lo, O, rest)
  <2> SUFFICES ASSUME NEW i \in 1..(k - 1)
               PROVE  \E w \in O : /\ lo[fr[i].node] = ix[w] /\ ix[w] <= ix[fr[i].node]
                                   /\ Reaches(E, fr[i].node, w)
    BY <1>3 DEF LowTrue
  <2>1. PICK w \in T : lo[fr[i].node] = ix[w] /\ ix[w] <= ix[fr[i].node] /\ Reaches(E, fr[i].node, w)
    BY <1>1, <1>3, <1>6 DEF LowTrue
  <2>2. ix[fr[i].node] < ix[n] /\ ix[fr[i].node] \in Nat /\ ix[w] \in Nat /\ ix[n] \in Nat
    BY <1>4, <1>5, <1>6, <1>7
  <2>3. QED  BY <2>1, <2>2
<1>17. LowEnough(E, ix, lo, O, rest)
  <2> SUFFICES ASSUME NEW i \in 1..(k - 1), NEW x \in O, NEW w \in O,
                      Covers(ix, rest, i, x), w \in After(E, x),
                      x = fr[i].node => w \in fr[i].taken
               PROVE  lo[fr[i].node] <= ix[w]
    BY <1>3 DEF LowEnough
  <2>1. ix[fr[i].node] <= ix[x]
    BY <1>3 DEF Covers
  <2>2. i < k - 1 => ix[x] < ix[fr[i + 1].node]
    <3> SUFFICES ASSUME i < k - 1 PROVE ix[x] < ix[fr[i + 1].node]
      OBVIOUS
    <3>1. i + 1 \in 1..(k - 1) /\ i < Len(rest)
      BY <1>3
    <3>2. ix[x] < ix[rest[i + 1].node]
      BY <3>1 DEF Covers
    <3>3. QED  BY <3>1, <3>2, <1>3
  <2>3. i = k - 1 => fr[i + 1].node = n /\ ix[x] < ix[n]
    BY <1>3, <1>5, <1>12
  <2>4. Covers(ix, fr, i, x)
    BY <2>1, <2>2, <2>3, <1>3 DEF Covers
  <2>5. QED  BY <2>4, <1>1, <1>3, <1>6, <1>12 DEF LowEnough
<1>18. Walked(E, ix, nl, O, rest, {})
  BY <1>8, <1>13, <1>14, <1>15, <1>16, <1>17 DEF Walked
<1>19. n \in Relays
  BY <1>4, <1>5
<1>20. nl = Told(fr, lo) /\ G = OnOrAbove(ix, T, n)
  BY DEF n, p, k, nl, Told, OnOrAbove
<1> HIDE DEF G
<1>21. /\ n \in Relays /\ OnOrAbove(ix, T, n) = Class(E, n)
       /\ Walked(E, ix, Told(fr, lo), T \ OnOrAbove(ix, T, n), rest, {})
  BY <1>11, <1>18, <1>19, <1>20
<1>22. QED  BY <1>21 DEF n, k, rest

(***************************************************************************)
(* The trail: in the order of the numbers, so that what lies on a device   *)
(* is what has no smaller one.                                             *)
(***************************************************************************)
Below(ix, c) == \A x \in DOMAIN ix : ix[x] < c

LEMMA TrailGrows ==
  ASSUME NEW ix, NEW s, InOrder(s, ix), NEW n, n \notin DOMAIN ix,
         NEW c, Below(ix, c)
  PROVE  /\ InOrder(Append(s, n), WithNumber(ix, n, c))
         /\ Range(Append(s, n)) = Range(s) \cup {n}
         /\ DOMAIN WithNumber(ix, n, c) \ (Range(s) \cup {n}) = DOMAIN ix \ Range(s)
<1> DEFINE a == Append(s, n)
           k == Len(s)
           nx == WithNumber(ix, n, c)
<1>1. s \in Seq(DOMAIN ix) /\ \A i, j \in DOMAIN s : i < j => ix[s[i]] < ix[s[j]]
  BY DEF InOrder
<1>2. k \in Nat /\ DOMAIN s = 1..k /\ \A i \in 1..k : s[i] \in DOMAIN ix
  BY <1>1
<1>10. /\ DOMAIN nx = DOMAIN ix \cup {n}
       /\ \A x \in DOMAIN ix : nx[x] = ix[x] /\ nx[x] < nx[n]
  BY DEF WithNumber, Below
<1> HIDE DEF nx
<1>3. s \in Seq(DOMAIN nx)
  BY <1>1, <1>2, <1>10
<1>4. a \in Seq(DOMAIN nx)
  BY <1>3, <1>10
<1>5. DOMAIN a = 1..(k + 1) /\ a[k + 1] = n /\ \A i \in 1..k : a[i] = s[i]
  BY <1>2, <1>3
<1> HIDE DEF a, k
<1>6. \A i, j \in DOMAIN a : i < j => nx[a[i]] < nx[a[j]]
  <2> SUFFICES ASSUME NEW i \in 1..(k + 1), NEW j \in 1..(k + 1), i < j
               PROVE  nx[a[i]] < nx[a[j]]
    BY <1>5
  <2>1. i \in 1..k /\ (j = k + 1 \/ j \in 1..k)
    BY <1>2
  <2>2. CASE j = k + 1
    BY <2>1, <2>2, <1>2, <1>5, <1>10
  <2>3. CASE j \in 1..k
    BY <2>1, <2>3, <1>1, <1>2, <1>5, <1>10
  <2>4. QED  BY <2>1, <2>2, <2>3
<1>7. Range(a) = Range(s) \cup {n}
  <2>1. \A i \in 1..(k + 1) : i = k + 1 \/ i \in 1..k
    BY <1>2
  <2>2. 1..k \subseteq 1..(k + 1) /\ k + 1 \in 1..(k + 1)
    BY <1>2
  <2>3. QED  BY <2>1, <2>2, <1>2, <1>5 DEF Range
<1>8. DOMAIN nx \ (Range(s) \cup {n}) = DOMAIN ix \ Range(s)
  BY <1>10
<1>9. QED  BY <1>4, <1>6, <1>7, <1>8 DEF InOrder, a, nx

LEMMA TrailCut ==
  ASSUME NEW ix, ix \in [DOMAIN ix -> Nat], NEW s, InOrder(s, ix), NEW n \in Range(s)
  PROVE  LET start == CHOOSE i \in DOMAIN s : s[i] = n
             group == {s[i] : i \in start..Len(s)}
             rest == SubSeq(s, 1, start - 1)
         IN  /\ group = {x \in Range(s) : ix[n] <= ix[x]}
             /\ Range(rest) = Range(s) \ group
             /\ InOrder(rest, ix)
<1> DEFINE start == CHOOSE i \in DOMAIN s : s[i] = n
           group == {s[i] : i \in start..Len(s)}
           rest == SubSeq(s, 1, start - 1)
           k == Len(s)
<1>1. s \in Seq(DOMAIN ix) /\ \A i, j \in DOMAIN s : i < j => ix[s[i]] < ix[s[j]]
  BY DEF InOrder
<1>2. k \in Nat /\ DOMAIN s = 1..k /\ \A i \in 1..k : s[i] \in DOMAIN ix /\ ix[s[i]] \in Nat
  BY <1>1
<1>3. start \in 1..k /\ s[start] = n
  <2>1. \E i \in DOMAIN s : s[i] = n
    BY DEF Range
  <2>2. QED  BY <2>1, <1>2
<1> HIDE DEF start
<1>4. /\ rest \in Seq(DOMAIN ix) /\ DOMAIN rest = 1..(start - 1)
      /\ \A i \in 1..(start - 1) : rest[i] = s[i]
  <2>1. \A i \in 1..(start - 1) : s[i] \in DOMAIN ix
    BY <1>2, <1>3
  <2>2. 1 \in Int /\ start - 1 \in Int
    BY <1>3
  <2>3. rest \in Seq(DOMAIN ix)
    BY <2>1, <2>2, SubSeqProperties
  <2>4. Len(rest) = start - 1
    BY <1>1, <1>3
  <2>5. \A i \in 1..(start - 1) : rest[i] = s[i]
    BY <1>1, <1>2, <1>3
  <2>6. QED  BY <2>3, <2>4, <2>5
<1> HIDE DEF rest, k
<1>5. \A i \in 1..k : ix[n] <= ix[s[i]] <=> i \in start..k
  <2> SUFFICES ASSUME NEW i \in 1..k PROVE ix[n] <= ix[s[i]] <=> i \in start..k
    OBVIOUS
  <2>1. ix[n] \in Nat /\ ix[s[i]] \in Nat
    BY <1>2, <1>3
  <2>2. CASE i < start
    <3>1. ix[s[i]] < ix[n]
      BY <2>2, <1>1, <1>2, <1>3
    <3>2. ~(ix[n] <= ix[s[i]])
      BY <3>1, <2>1
    <3>3. i \notin start..k
      BY <2>2, <1>2, <1>3
    <3>4. QED  BY <3>2, <3>3
  <2>3. CASE i = start
    BY <2>1, <2>3, <1>3
  <2>4. CASE start < i
    <3>1. ix[n] < ix[s[i]]
      BY <2>4, <1>1, <1>2, <1>3
    <3>2. QED  BY <3>1, <2>1, <2>4, <1>3
  <2>5. QED  BY <2>2, <2>3, <2>4, <1>3
<1>6. start..k \subseteq 1..k /\ 1..(start - 1) \subseteq 1..k
      /\ \A i \in 1..k : i \in start..k <=> i \notin 1..(start - 1)
  BY <1>2, <1>3
<1>7. group = {x \in Range(s) : ix[n] <= ix[x]}
  <2>1. group = {s[i] : i \in start..k}
    BY DEF k
  <2> HIDE DEF group
  <2>2. QED  BY <2>1, <1>2, <1>5, <1>6 DEF Range
<1> HIDE DEF group
<1>8. Range(rest) = Range(s) \ group
  <2>1. \A x : x \in Range(rest) <=> \E i \in 1..(start - 1) : x = s[i]
    BY <1>4 DEF Range
  <2>2. \A x : x \in Range(s) \ group <=> \E i \in 1..k : x = s[i] /\ ~(ix[n] <= ix[s[i]])
    BY <1>2, <1>7 DEF Range
  <2>3. QED  BY <2>1, <2>2, <1>5, <1>6
<1>9. InOrder(rest, ix)
  BY <1>1, <1>2, <1>4, <1>6 DEF InOrder
<1>10. QED  BY <1>7, <1>8, <1>9 DEF start, group, rest, k

(***************************************************************************)
(* What was found, when a group leaves the trail: it is counted if it has  *)
(* two devices.                                                            *)
(***************************************************************************)
LEMMA FoundGrows ==
  ASSUME NEW E, NEW D, NEW T, T \subseteq D, NEW n \in Relays, Class(E, n) \subseteq T
  PROVE  {S \in Classes(E) : Cardinality(S) > 1 /\ S \subseteq D \ (T \ Class(E, n))}
           = {S \in Classes(E) : Cardinality(S) > 1 /\ S \subseteq D \ T}
               \cup {S \in {Class(E, n)} : Cardinality(S) > 1}
<1> DEFINE G == Class(E, n)
<1>1. \A S \in Classes(E) : S = G \/ S \cap G = {}
  <2> SUFFICES ASSUME NEW a \in Relays, NEW x \in Class(E, a) \cap G
               PROVE  Class(E, a) = G
    BY DEF Classes
  <2>1. Class(E, x) = Class(E, a) /\ Class(E, x) = G
    BY ClassesApart
  <2>2. QED  BY <2>1
<1>2. G \in Classes(E) /\ G \subseteq T
  BY DEF Classes
<1>3. n \in G
  BY ClassesApart
<1> HIDE DEF G
<1>4. \A S \in Classes(E) : S \subseteq D \ (T \ G) <=> S \subseteq D \ T \/ S = G
  BY <1>1, <1>2, <1>3
<1>5. {S \in Classes(E) : Cardinality(S) > 1 /\ S \subseteq D \ (T \ G)}
        = {S \in Classes(E) : Cardinality(S) > 1 /\ S \subseteq D \ T}
            \cup {S \in {G} : Cardinality(S) > 1}
  BY <1>2, <1>4
<1>6. QED  BY <1>5 DEF G

(***************************************************************************)
(* The search.                                                             *)
(***************************************************************************)
LEMMA EdgesInside ==
  ASSUME NEW i \in LoopInputs
  PROVE  EdgesOf(i) \subseteq Relays \X Relays
BY LoopsAssumption DEF EdgesOf

LEMMA SuccessorsAfter ==
  ASSUME NEW n
  PROVE  Successors(n) = After(edges, n)
BY DEF Successors, After

(* Once its first round has numbered it the device on top is walked from.  *)
LEMMA NumberedWalk ==
  ASSUME LoopsInv, frames # <<>>
  PROVE  /\ Walked(edges, Numbered(index), Numbered(low), Range(Stacked), frames, {})
         /\ InOrder(Stacked, Numbered(index))
         /\ DOMAIN Numbered(index) \ Range(Stacked) = DOMAIN index \ Range(trail)
<1>1. CASE ~Fresh
  <2>1. Numbered(index) = index /\ Numbered(low) = low /\ Stacked = trail
    BY <1>1 DEF Numbered, Stacked
  <2>2. Walked(edges, index, low, Range(trail), frames, {}) /\ InOrder(trail, index)
    BY <1>1 DEF LoopsInv
  <2>3. QED  BY <2>1, <2>2
<1>2. CASE Fresh
  <2> DEFINE n == frames[Len(frames)].node
             c == Cardinality(DOMAIN index)
             rest == SubSeq(frames, 1, Len(frames) - 1)
  <2>1. /\ Descending(edges, index, low, Range(trail), frames)
        /\ frames[Len(frames)].taken = {} /\ InOrder(trail, index)
    BY <1>2 DEF LoopsInv, Fresh, Top
  <2>2. n \notin DOMAIN index /\ Walked(edges, index, low, Range(trail), rest, {n})
    BY <2>1 DEF Descending
  <2>3. Below(index, c)
    BY <2>2 DEF Walked, WalkTypes, Below
  <2>4. Top.node = n
    BY DEF Top
  <2>5. /\ Numbered(index) = WithNumber(index, n, c) /\ Numbered(low) = WithNumber(low, n, c)
        /\ Stacked = Append(trail, n)
    BY <1>2, <2>4 DEF Numbered, Stacked, WithNumber
  <2>6. Walked(edges, WithNumber(index, n, c), WithNumber(low, n, c), Range(trail) \cup {n},
               frames, {})
    BY <2>1, Numbering, LoopsAssumption
  <2> HIDE DEF n, c
  <2>7. /\ InOrder(Append(trail, n), WithNumber(index, n, c))
        /\ Range(Append(trail, n)) = Range(trail) \cup {n}
        /\ DOMAIN WithNumber(index, n, c) \ (Range(trail) \cup {n}) = DOMAIN index \ Range(trail)
    BY <2>1, <2>2, <2>3, TrailGrows
  <2>8. QED  BY <2>5, <2>6, <2>7
<1>3. QED  BY <1>1, <1>2

LEMMA LoopsInvInit == LoopsInit => LoopsInv
<1> SUFFICES ASSUME LoopsInit PROVE LoopsInv
  OBVIOUS
<1>1. /\ asking \in LoopInputs /\ edges = EdgesOf(asking) /\ index = <<>> /\ low = <<>>
      /\ trail = <<>> /\ frames = <<>> /\ loops = {}
  BY DEF LoopsInit
<1>2. edges \subseteq Relays \X Relays
  BY <1>1, EdgesInside
<1>3. /\ DOMAIN <<>> = {} /\ Range(<<>>) = {} /\ <<>> \in Seq({}) /\ Len(<<>>) = 0
      /\ <<>> \in [{} -> Nat] /\ <<>> \in Seq(Frame)
  BY DEF Range
<1>4. WalkTypes(edges, <<>>, <<>>, {}, <<>>)
  BY <1>2, <1>3 DEF WalkTypes, Frame
<1>5. Walked(edges, <<>>, <<>>, {}, <<>>, {})
  BY <1>3, <1>4 DEF Walked, Explored, Joined, LowTrue, LowEnough
<1>6. InOrder(<<>>, <<>>)
  BY <1>3 DEF InOrder
<1>7. {S \in Classes(edges) : Cardinality(S) > 1 /\ S \subseteq {}} = {}
  <2>1. Cardinality({}) = 0
    BY FS_EmptySet
  <2>2. \A S : S \subseteq {} => ~(Cardinality(S) > 1)
    <3> SUFFICES ASSUME NEW S, S \subseteq {} PROVE ~(Cardinality(S) > 1)
      OBVIOUS
    <3>1. S = {}
      OBVIOUS
    <3>2. QED  BY <3>1, <2>1
  <2>3. QED  BY <2>2
<1>8. {l.devices : l \in loops} = {}
  BY <1>1
<1>9. QED  BY <1>1, <1>3, <1>5, <1>6, <1>7, <1>8 DEF LoopsInv, FoundIs, Settled

LEMMA LoopsInvRoot ==
  ASSUME LoopsInv, NextRoot
  PROVE  LoopsInv'
<1>1. PICK n \in Roots : frames' = <<[node |-> n, taken |-> {}]>>
  BY DEF NextRoot
<1>2. /\ frames = <<>> /\ asking' = asking /\ edges' = edges /\ index' = index /\ low' = low
      /\ trail' = trail /\ loops' = loops
  BY DEF NextRoot
<1>3. /\ asking \in LoopInputs /\ edges = EdgesOf(asking) /\ InOrder(trail, index)
      /\ Walked(edges, index, low, Range(trail), <<>>, {})
      /\ FoundIs(loops, edges, DOMAIN index \ Range(trail))
      /\ \A l \in loops : l.rules = RulesInside(l.devices)
  BY <1>2 DEF LoopsInv, FoundIs
<1>4. n \in Relays /\ n \notin DOMAIN index
  BY <1>3, EdgesInside DEF Roots
<1> DEFINE new == <<[node |-> n, taken |-> {}]>>
<1>5. /\ new \in Seq(Frame) /\ Len(new) = 1 /\ DOMAIN new = {1}
      /\ new[1].node = n /\ new[1].taken = {} /\ new # <<>>
  BY <1>4 DEF Frame
<1>6. SubSeq(new, 1, Len(new) - 1) = <<>>
  BY <1>5
<1>7. Walked(edges, index, low, Range(trail), <<>>, {n})
  BY <1>3 DEF Walked, Explored
<1> HIDE DEF new
<1>8. Descending(edges, index, low, Range(trail), new)
  BY <1>4, <1>5, <1>6, <1>7 DEF Descending, Frame
<1>9. frames' = new
  BY <1>1 DEF new
<1>10. Fresh' /\ frames' # <<>>
  BY <1>5, <1>9 DEF Fresh, Top
<1>11. \A i \in DOMAIN new : i < Len(new) => new[i].taken # {}
  BY <1>5
<1>12. \A S : RulesInside(S)' = RulesInside(S)
  BY <1>2 DEF RulesInside
<1>13. FoundIs(loops', edges', DOMAIN index' \ Range(trail'))
  BY <1>2, <1>3
<1>14. QED  BY <1>2, <1>3, <1>8, <1>9, <1>10, <1>11, <1>12, <1>13 DEF LoopsInv, FoundIs, Settled

LEMMA LoopsInvAdvance ==
  ASSUME LoopsInv, Advance
  PROVE  LoopsInv'
<1> DEFINE k == Len(frames)
           n == frames[k].node
<1>1. PICK to \in Untaken :
        LET moved == [frames EXCEPT ![Len(frames)].taken = @ \cup {to}] IN
        /\ index' = Numbered(index) /\ trail' = Stacked
        /\ IF to \in DOMAIN index'
           THEN low' = Lowered(Top.node, to) /\ frames' = moved
           ELSE low' = Numbered(low) /\ frames' = Append(moved, [node |-> to, taken |-> {}])
  BY DEF Advance
<1> DEFINE moved == [frames EXCEPT ![k].taken = @ \cup {to}]
           T == Range(Stacked)
           nx == Numbered(index)
           lows == Numbered(low)
           nl == IF to \in T THEN [lows EXCEPT ![n] = Smaller(@, nx[to])] ELSE lows
<1>2. frames # <<>> /\ asking' = asking /\ edges' = edges /\ loops' = loops
  BY DEF Advance
<1>3. /\ asking \in LoopInputs /\ edges = EdgesOf(asking) /\ Settled(frames)
      /\ FoundIs(loops, edges, DOMAIN index \ Range(trail))
      /\ \A l \in loops : l.rules = RulesInside(l.devices)
  BY DEF LoopsInv, FoundIs, Settled
<1>4. /\ Walked(edges, nx, lows, T, frames, {}) /\ InOrder(Stacked, nx)
      /\ DOMAIN nx \ T = DOMAIN index \ Range(trail)
  BY <1>2, NumberedWalk
<1>5. to \in After(edges, n)
  BY SuccessorsAfter DEF Untaken, Top
<1>6. /\ frames \in Seq(Frame) /\ T \subseteq DOMAIN nx /\ edges \subseteq Relays \X Relays
  BY <1>4 DEF Walked, WalkTypes, Frame
<1>7. k \in Nat \ {0} /\ DOMAIN frames = 1..k /\ k \in 1..k /\ frames[k] \in Frame
  BY <1>2, <1>6, FrontFacts
<1>8. to \in Relays
  BY <1>5, <1>6 DEF After
<1>9. /\ moved \in Seq(Frame) /\ Len(moved) = k /\ DOMAIN moved = 1..k /\ moved # <<>>
      /\ moved[k].node = n /\ to \in moved[k].taken
      /\ \A i \in 1..k : i < k => moved[i] = frames[i]
  <2>1. moved = [frames EXCEPT ![k] = [frames[k] EXCEPT !.taken = @ \cup {to}]]
    OBVIOUS
  <2>2. DOMAIN frames[k] = {"node", "taken"} /\ frames[k].taken \subseteq Relays /\ frames[k].node \in Relays
    BY <1>7 DEF Frame
  <2>3. LET f == [frames[k] EXCEPT !.taken = @ \cup {to}]
        IN f \in Frame /\ f.node = frames[k].node /\ to \in f.taken
    BY <2>2, <1>7, <1>8 DEF Frame
  <2>4. moved # <<>>
    BY <1>7
  <2>5. QED  BY <2>1, <2>3, <2>4, <1>6, <1>7
<1>10. Top.node = n /\ Lowered(n, to) = nl
  BY DEF Top, Lowered
<1>11. \A ahead : to \in DOMAIN nx \cup ahead => Walked(edges, nx, nl, T, moved, ahead)
  BY <1>2, <1>4, <1>5, Moving
<1>12. index' = nx /\ trail' = Stacked /\ Range(trail') = T
  BY <1>1
<1>13. FoundIs(loops', edges', DOMAIN index' \ Range(trail'))
  BY <1>2, <1>3, <1>4, <1>12
<1>14. \A S : RulesInside(S)' = RulesInside(S)
  BY <1>2 DEF RulesInside
<1>15. \A l \in loops' : l.rules = RulesInside(l.devices)'
  BY <1>2, <1>3, <1>14
<1>16. InOrder(trail', index')
  BY <1>4, <1>12
<1>17. \A i \in 1..k : i < k => moved[i].taken # {}
  BY <1>3, <1>7, <1>9 DEF Settled
<1> HIDE DEF moved, nx, nl, lows, T, n, k
<1>18. CASE to \in DOMAIN nx
  <2>1. low' = nl /\ frames' = moved
    BY <1>1, <1>10, <1>12, <1>18 DEF moved, k
  <2>2. Walked(edges', index', low', Range(trail'), frames', {})
    BY <1>2, <1>11, <1>12, <1>18, <2>1
  <2>3. ~Fresh'
    BY <2>1, <1>9 DEF Fresh, Top
  <2>4. Settled(frames')
    BY <2>1, <1>9, <1>17 DEF Settled
  <2>5. QED  BY <2>2, <2>3, <2>4, <1>2, <1>3, <1>13, <1>15, <1>16 DEF LoopsInv, FoundIs, Settled
<1>19. CASE to \notin DOMAIN nx
  <2> DEFINE f == [node |-> to, taken |-> {}]
             fr == Append(moved, f)
  <2>1. low' = lows /\ frames' = fr
    BY <1>1, <1>12, <1>19 DEF moved, k, lows
  <2>2. nl = lows
    BY <1>6, <1>19 DEF nl
  <2>3. f \in Frame /\ f.node = to /\ f.taken = {}
    BY <1>8 DEF Frame
  <2> HIDE DEF f
  <2>4. /\ fr \in Seq(Frame) /\ Len(fr) = k + 1 /\ DOMAIN fr = 1..(k + 1) /\ fr[k + 1] = f
        /\ \A i \in 1..k : fr[i] = moved[i]
    BY <2>3, <1>7, <1>9
  <2>5. SubSeq(fr, 1, Len(fr) - 1) = moved
    BY <2>3, <1>9, AppendFront
  <2>6. fr # <<>>
    BY <2>4, <1>7
  <2> HIDE DEF fr
  <2>7. Walked(edges, nx, lows, T, moved, {to})
    BY <1>11, <2>2
  <2>8. fr[Len(fr)].node = to /\ fr[Len(fr)].taken = {}
    BY <2>3, <2>4
  <2>9. to \in After(edges, moved[Len(moved)].node)
    BY <1>5, <1>9
  <2>10. Descending(edges, nx, lows, T, fr)
    BY <2>4, <2>5, <2>7, <2>8, <2>9, <1>19 DEF Descending, Frame
  <2>11. Descending(edges', index', low', Range(trail'), frames')
    BY <2>1, <2>10, <1>2, <1>12
  <2>12. Fresh' /\ frames' # <<>>
    BY <2>1, <2>6, <2>8 DEF Fresh, Top
  <2>13. Settled(frames')
    <3>1. \A i \in 1..(k + 1) : i < k + 1 => i \in 1..k /\ (i = k \/ i < k)
      BY <1>7
    <3>2. \A i \in 1..k : i = k \/ i < k => fr[i].taken # {}
      BY <2>4, <1>9, <1>17
    <3>3. QED  BY <2>1, <2>4, <3>1, <3>2 DEF Settled
  <2>14. QED
    BY <2>11, <2>12, <2>13, <1>2, <1>3, <1>13, <1>15, <1>16 DEF LoopsInv, FoundIs, Settled
<1>20. QED  BY <1>18, <1>19

LEMMA LoopsInvFinish ==
  ASSUME LoopsInv, Finish
  PROVE  LoopsInv'
<1> DEFINE k == Len(frames)
           n == frames[k].node
           p == frames[k - 1].node
           T == Range(Stacked)
           nx == Numbered(index)
           lows == Numbered(low)
           rest == SubSeq(frames, 1, k - 1)
           start == CHOOSE i \in DOMAIN Stacked : Stacked[i] = n
           group == {Stacked[i] : i \in start..Len(Stacked)}
           nl == IF k = 1 THEN lows ELSE [lows EXCEPT ![p] = Smaller(@, lows[n])]
           named == [devices |-> group, rules |-> RulesInside(group)]
<1>1. /\ frames # <<>> /\ asking' = asking /\ edges' = edges /\ Untaken = {}
      /\ index' = nx /\ low' = nl /\ frames' = rest
      /\ trail' = IF lows[n] = nx[n] THEN SubSeq(Stacked, 1, start - 1) ELSE Stacked
      /\ loops' = IF lows[n] = nx[n] /\ Cardinality(group) > 1 THEN loops \cup {named} ELSE loops
  BY DEF Finish, Top, Front
<1>2. /\ asking \in LoopInputs /\ edges = EdgesOf(asking) /\ Settled(frames)
      /\ FoundIs(loops, edges, DOMAIN index \ Range(trail))
      /\ \A l \in loops : l.rules = RulesInside(l.devices)
  BY DEF LoopsInv, FoundIs, Settled
<1>3. /\ Walked(edges, nx, lows, T, frames, {}) /\ InOrder(Stacked, nx)
      /\ DOMAIN nx \ T = DOMAIN index \ Range(trail)
  BY <1>1, NumberedWalk
<1>4. After(edges, n) \subseteq frames[k].taken
  BY <1>1, SuccessorsAfter DEF Untaken, Top
<1>5. frames \in Seq(Frame) /\ T \subseteq DOMAIN nx /\ nx \in [DOMAIN nx -> Nat]
  BY <1>3 DEF Walked, WalkTypes, Frame
<1>6. /\ k \in Nat \ {0} /\ DOMAIN frames = 1..k /\ k \in 1..k
      /\ rest \in Seq(Frame) /\ DOMAIN rest = 1..(k - 1) /\ Len(rest) = k - 1
      /\ \A i \in 1..(k - 1) : rest[i] = frames[i]
  BY <1>1, <1>5, FrontFacts
<1>7. n \in T
  BY <1>3, <1>6 DEF Walked, WalkTypes
(* The frames left have each turned to a successor. *)
<1>8. \A i \in 1..(k - 1) : rest[i].taken # {}
  <2>1. \A i \in 1..(k - 1) : i \in 1..k /\ i < k
    BY <1>6
  <2>2. QED  BY <2>1, <1>2, <1>6 DEF Settled
<1> HIDE DEF k, n, p, T, nx, lows, rest, start, group, nl, named
<1>9. Settled(rest)
  BY <1>6, <1>8 DEF Settled
<1>10. ~(frames' # <<>> /\ Fresh')
  <2> SUFFICES ASSUME rest # <<>> PROVE rest[Len(rest)].taken # {}
    BY <1>1 DEF Fresh, Top
  <2>1. Len(rest) # 0
    BY <1>6, EmptySeq
  <2>2. QED  BY <2>1, <1>6, <1>8
<1>11. \A S : RulesInside(S)' = RulesInside(S)
  BY <1>1 DEF RulesInside
<1>12. CASE lows[n] # nx[n]
  <2>1. trail' = Stacked /\ loops' = loops /\ Range(trail') = T
    BY <1>1, <1>12 DEF T
  <2>2. k # 1 /\ Walked(edges, nx, nl, T, rest, {})
    <3>1. frames[Len(frames)].node = n /\ frames[Len(frames)].taken = frames[k].taken
      BY DEF n, k
    <3>2. /\ Len(frames) # 1
          /\ Walked(edges, nx, [lows EXCEPT ![p] = Smaller(@, lows[n])], T, rest, {})
      BY <1>1, <1>3, <1>4, <1>12, FinishedOpen DEF n, k, p, rest
    <3>3. QED  BY <3>2 DEF nl, k
  <2>3. Walked(edges', index', low', Range(trail'), frames', {})
    BY <2>1, <2>2, <1>1
  <2>4. InOrder(trail', index')
    BY <2>1, <1>1, <1>3
  <2>5. FoundIs(loops', edges', DOMAIN index' \ Range(trail'))
    BY <2>1, <1>1, <1>2, <1>3
  <2>6. \A l \in loops' : l.rules = RulesInside(l.devices)'
    BY <2>1, <1>2, <1>11
  <2>7. Settled(frames')
    BY <1>1, <1>9
  <2>8. QED  BY <2>3, <2>4, <2>5, <2>6, <2>7, <1>1, <1>2, <1>10 DEF LoopsInv, FoundIs, Settled
<1>13. CASE lows[n] = nx[n]
  <2> DEFINE G == {x \in T : nx[n] <= nx[x]}
  <2>1. n \in Relays /\ G = Class(edges, n) /\ Walked(edges, nx, nl, T \ G, rest, {})
    <3>1. /\ frames[Len(frames)].node \in Relays
          /\ OnOrAbove(nx, T, frames[Len(frames)].node) = Class(edges, frames[Len(frames)].node)
          /\ Walked(edges, nx, Told(frames, lows), T \ OnOrAbove(nx, T, frames[Len(frames)].node),
                    SubSeq(frames, 1, Len(frames) - 1), {})
      BY <1>1, <1>3, <1>4, <1>13, FinishedGroup DEF n, k
    <3>2. nl = Told(frames, lows) /\ n = frames[Len(frames)].node /\ G = OnOrAbove(nx, T, n)
      BY DEF nl, Told, n, p, k, OnOrAbove
    <3>3. rest = SubSeq(frames, 1, Len(frames) - 1)
      BY DEF rest, k
    <3> HIDE DEF G
    <3>4. QED  BY <3>1, <3>2, <3>3
  <2>2. trail' = SubSeq(Stacked, 1, start - 1)
    BY <1>1, <1>13
  <2>3. group = G /\ Range(trail') = T \ G /\ InOrder(trail', nx)
    <3>1. /\ group = {x \in Range(Stacked) : nx[n] <= nx[x]}
          /\ Range(SubSeq(Stacked, 1, start - 1)) = Range(Stacked) \ group
          /\ InOrder(SubSeq(Stacked, 1, start - 1), nx)
      <4>1. LET st == CHOOSE i \in DOMAIN Stacked : Stacked[i] = n
                gr == {Stacked[i] : i \in st..Len(Stacked)}
            IN  /\ gr = {x \in Range(Stacked) : nx[n] <= nx[x]}
                /\ Range(SubSeq(Stacked, 1, st - 1)) = Range(Stacked) \ gr
                /\ InOrder(SubSeq(Stacked, 1, st - 1), nx)
        <5>1. n \in Range(Stacked)
          BY <1>7 DEF T
        <5>2. QED  BY <5>1, <1>3, <1>5, TrailCut
      <4>2. QED  BY <4>1 DEF start, group
    <3>2. group = G
      BY <3>1 DEF T
    <3>3. QED  BY <3>1, <3>2, <2>2 DEF T
  <2> HIDE DEF G
  <2>4. Walked(edges', index', low', Range(trail'), frames', {})
    BY <2>1, <2>3, <1>1
  <2>5. InOrder(trail', index')
    BY <2>3, <1>1
  <2>6. named.devices = G /\ named.rules = RulesInside(G)
    BY <2>3 DEF named
  <2>7. loops' = loops \cup {l \in {named} : Cardinality(G) > 1}
    BY <2>3, <1>1, <1>13
  <2>8. {l.devices : l \in loops'} = {l.devices : l \in loops} \cup {S \in {G} : Cardinality(S) > 1}
    BY <2>6, <2>7
  <2>9. G \subseteq T
    BY DEF G
  <2>10. {S \in Classes(edges) : Cardinality(S) > 1 /\ S \subseteq DOMAIN nx \ (T \ G)}
          = {S \in Classes(edges) : Cardinality(S) > 1 /\ S \subseteq DOMAIN nx \ T}
              \cup {S \in {G} : Cardinality(S) > 1}
    BY <2>1, <2>9, <1>5, FoundGrows
  <2>11. {l.devices : l \in loops}
           = {S \in Classes(edges) : Cardinality(S) > 1 /\ S \subseteq DOMAIN nx \ T}
    BY <1>2, <1>3 DEF FoundIs
  <2>12. FoundIs(loops', edges', DOMAIN index' \ Range(trail'))
    <3>1. {l.devices : l \in loops'}
            = {S \in Classes(edges) : Cardinality(S) > 1 /\ S \subseteq DOMAIN nx \ (T \ G)}
      BY <2>8, <2>10, <2>11
    <3>2. edges' = edges /\ DOMAIN index' \ Range(trail') = DOMAIN nx \ (T \ G)
      BY <2>3, <1>1
    <3>3. QED  BY <3>1, <3>2 DEF FoundIs
  <2>13. \A l \in loops' : l.rules = RulesInside(l.devices)'
    BY <2>6, <2>7, <1>2, <1>11
  <2>14. Settled(frames')
    BY <1>1, <1>9
  <2>15. QED
    BY <2>4, <2>5, <2>12, <2>13, <2>14, <1>1, <1>2, <1>10 DEF LoopsInv, FoundIs, Settled
<1>14. QED  BY <1>12, <1>13

(* A device that is in a group of two reaches another, so it has an edge.  *)
LEMMA GroupsHaveEdges ==
  ASSUME NEW E, NEW S \in Classes(E), Cardinality(S) > 1, NEW a \in S
  PROVE  a \in {e[1] : e \in E}
<1>1. S = Class(E, a) /\ a \in Relays
  BY ClassesApart DEF Classes, Class
<1>2. PICK b \in S : b # a
  <2> SUFFICES ASSUME S = {a} PROVE FALSE
    OBVIOUS
  <2>1. Cardinality(S) = 1
    BY FS_Singleton
  <2>2. QED  BY <2>1
<1>3. Reaches(E, a, b)
  BY <1>1, ReachLaws
<1>4. SUFFICES ASSUME a \notin {e[1] : e \in E} PROVE FALSE
  OBVIOUS
<1>5. {a} \in SUBSET Relays /\ \A x \in {a} : After(E, x) \subseteq {a}
  BY <1>1, <1>4 DEF After
<1>6. b \in {a}
  BY <1>3, <1>5, ReachStays
<1>7. QED  BY <1>2, <1>6

LEMMA LoopsInvExact == LoopsInv => LoopsExact
<1> SUFFICES ASSUME LoopsInv, frames = <<>>
             PROVE  /\ IF Roots = {} THEN {l.devices : l \in loops} = TrueLoops
                       ELSE {l.devices : l \in loops} \subseteq TrueLoops
                    /\ \A l \in loops :
                         l.rules = {r \in asking.enabled :
                                      \E a, b \in l.devices : <<a, b>> \in asking.links[r] \cap Passed}
  BY DEF LoopsExact
<1>1. /\ asking \in LoopInputs /\ edges = EdgesOf(asking)
      /\ Walked(edges, index, low, Range(trail), <<>>, {})
      /\ FoundIs(loops, edges, DOMAIN index \ Range(trail))
      /\ \A l \in loops : l.rules = RulesInside(l.devices)
  BY DEF LoopsInv, FoundIs
<1>2. Range(trail) = {}
  BY <1>1 DEF Walked, Joined
<1>3. Passed = edges
  BY <1>1 DEF Passed, EdgesOf, Forwarding
<1>4. TrueLoops = {S \in Classes(edges) : Cardinality(S) > 1}
  BY <1>3 DEF TrueLoops, Classes, Class, Kept
<1>5. {l.devices : l \in loops} = {S \in TrueLoops : S \subseteq DOMAIN index}
  BY <1>1, <1>2, <1>4 DEF FoundIs
<1>6. Roots = {} => \A S \in TrueLoops : S \subseteq DOMAIN index
  BY <1>4, GroupsHaveEdges DEF Roots
<1>7. \A l \in loops :
        l.rules = {r \in asking.enabled :
                     \E a, b \in l.devices : <<a, b>> \in asking.links[r] \cap Passed}
  <2>1. \A e \in edges : e = <<e[1], e[2]>>
    BY <1>1, EdgesInside
  <2>2. \A C : \A r \in asking.enabled :
          (\E e \in asking.links[r] \cap edges : e[1] \in C /\ e[2] \in C)
            <=> \E a, b \in C : <<a, b>> \in asking.links[r] \cap edges
    BY <2>1
  <2>3. \A C : RulesInside(C) = {r \in asking.enabled :
                                  \E a, b \in C : <<a, b>> \in asking.links[r] \cap edges}
    BY <2>2 DEF RulesInside
  <2>4. QED  BY <2>3, <1>1, <1>3
<1>8. QED  BY <1>5, <1>6, <1>7

LEMMA LoopsAlways == LoopsSpec => []LoopsInv
<1>1. LoopsInit => LoopsInv
  BY LoopsInvInit
<1>2. LoopsInv /\ [LoopsNext]_loopVars => LoopsInv'
  <2> SUFFICES ASSUME LoopsInv, [LoopsNext]_loopVars PROVE LoopsInv'
    OBVIOUS
  <2>1. CASE NextRoot
    BY <2>1, LoopsInvRoot
  <2>2. CASE Advance
    BY <2>2, LoopsInvAdvance
  <2>3. CASE Finish
    BY <2>3, LoopsInvFinish
  <2>4. CASE UNCHANGED loopVars
    BY <2>4 DEF loopVars, LoopsInv, Fresh, Top, RulesInside
  <2>5. QED  BY <2>1, <2>2, <2>3, <2>4 DEF LoopsNext
<1>3. QED  BY <1>1, <1>2, PTL DEF LoopsSpec

(* loops.find_loops: at the end exactly the groups of relaying devices     *)
(* that reach one another were found, each with the rules inside it.       *)
THEOREM LoopsFound == LoopsSpec => []LoopsExact
BY LoopsAlways, LoopsInvExact, PTL

(* find_loops: index and low have the same devices, the stack has no other *)
(* and every frame is about a relaying device and its successors.          *)
THEOREM LoopsTyped == LoopsSpec => []LoopsTypeOK
<1>1. LoopsInv => LoopsTypeOK
  <2> SUFFICES ASSUME LoopsInv PROVE LoopsTypeOK
    OBVIOUS
  <2>1. frames \in Seq(Frame) =>
          \A i \in DOMAIN frames : frames[i].node \in Relays /\ frames[i].taken \subseteq Relays
    <3> SUFFICES ASSUME frames \in Seq(Frame), NEW i \in DOMAIN frames
                 PROVE  frames[i].node \in Relays /\ frames[i].taken \subseteq Relays
      OBVIOUS
    <3>1. frames[i] \in Frame
      OBVIOUS
    <3>2. QED  BY <3>1 DEF Frame
  <2>2. CASE frames # <<>> /\ Fresh
    <3> DEFINE rest == SubSeq(frames, 1, Len(frames) - 1)
    <3>1. /\ Walked(edges, index, low, Range(trail), rest, {frames[Len(frames)].node})
          /\ frames \in Seq(Frame)
      BY <2>2 DEF LoopsInv, Descending
    <3>2. WalkTypes(edges, index, low, Range(trail), rest)
      BY <3>1 DEF Walked
    <3>3. DOMAIN low = DOMAIN index /\ Range(trail) \subseteq DOMAIN index
      BY <3>2 DEF WalkTypes
    <3>4. edges \subseteq Relays \X Relays /\ DOMAIN index \subseteq Relays
      BY <3>2 DEF WalkTypes
    <3>5. QED  BY <2>1, <3>1, <3>3, <3>4 DEF LoopsTypeOK
  <2>3. CASE ~(frames # <<>> /\ Fresh)
    <3>1. WalkTypes(edges, index, low, Range(trail), frames)
      BY <2>3 DEF LoopsInv, Walked
    <3>2. DOMAIN low = DOMAIN index /\ Range(trail) \subseteq DOMAIN index
      BY <3>1 DEF WalkTypes
    <3>3. edges \subseteq Relays \X Relays /\ DOMAIN index \subseteq Relays
      BY <3>1 DEF WalkTypes
    <3>4. frames \in Seq(Frame)
      BY <3>1 DEF WalkTypes
    <3>5. QED  BY <2>1, <3>2, <3>3, <3>4 DEF LoopsTypeOK
  <2>4. QED  BY <2>2, <2>3
<1>2. QED  BY <1>1, LoopsAlways, PTL
=============================================================================
