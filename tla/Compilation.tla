---------------------------- MODULE Compilation ----------------------------
(***************************************************************************)
(* One compilation after another: what a rule asks for and what compiling  *)
(* it makes of that, for every rule and house of a given set.              *)
(***************************************************************************)
EXTENDS Compiler

CONSTANTS
  CompiledRules,   \* the rules tried
  CompileHouse            \* the capabilities they are compiled against

ASSUME CompilationAssumption == \A r \in CompiledRules : IsRule(r)

VARIABLES rule, outcome, compiled

compilationVars == <<rule, outcome, compiled>>

CompilationInit == rule \in CompiledRules /\ outcome = Nil /\ compiled = FALSE

CompileRule ==
  /\ ~compiled /\ compiled' = TRUE
  /\ outcome' = Compile(rule, CompileHouse)
  /\ UNCHANGED rule

CompilationSpec == CompilationInit /\ [][CompileRule]_compilationVars

----------------------------------------------------------------------------
Mentioned(key, about) == <<key, about>> \in outcome.warnings \cup outcome.errors

(* A leg that lets the source act on itself is only ever about on and off, *)
(* and the other legs are about the other targets.                         *)
ServedBy(kind, target, feature) ==
  /\ kind = "self_load" <=> target.device = rule.source
  /\ feature = IF kind = "button_led" THEN Status ELSE OnOff

(* Whatever is asked is a link to the target, a leg at it, or something    *)
(* the author is told of this device, this feature or this opt-in.         *)
DirectlyLinked(target, feature) ==
  \E l \in outcome.links : /\ l.source = rule.source /\ l.target = target.device
                           /\ l.feature = feature
                           /\ l.endpoint = target.endpoint \/ Mentioned("multi_channel_downgrade",
                                                                   <<rule.emitter, target.device>>)
Executed(target, feature) ==
  \E l \in outcome.legs : /\ l.target = target.device /\ l.feature = feature
                          /\ l.endpoint = target.endpoint \/ target.endpoint = NoEndpoint
Diagnosed(target, feature) ==
  \/ Mentioned("feature_unavailable", feature)
  \/ Mentioned("target_cannot_receive", <<target.device, feature>>)
  \/ \E key \in {"unknown_device", "target_is_long_range", "self_association_use_hybrid_leg"} :
       Mentioned(key, target.device)
  \/ \E kind \in rule.hybrid : /\ Mentioned("hybrid_leg_impossible", kind)
                               /\ ServedBy(kind, target, feature)
  \/ Mentioned("hybrid_button_led_one_target", rule.emitter) /\ ServedBy("button_led", target, feature)
Accounted(target, feature) ==
  DirectlyLinked(target, feature) \/ Executed(target, feature) \/ Diagnosed(target, feature)

(* What _targets skips without a word and _compile_self_load does not make *)
(* a leg for: anything but on and off, of a rule's own source.             *)
LeftOut(target, feature) ==
  target.device = rule.source /\ "self_load" \in rule.hybrid /\ feature # OnOff

(* The way back carries all that is asked, or says what it does not.       *)
AccountedBack(device, feature) ==
  \/ \E l \in outcome.links : /\ l.source = device /\ l.target = rule.source
                              /\ l.feature = feature
  \/ \E key \in {"two_way_target_has_no_control", "unknown_device", "target_is_long_range"} :
       Mentioned(key, device)
  \/ Mentioned("target_cannot_receive", <<rule.source, feature>>)
  \/ Mentioned("feature_unavailable", feature)

(* compiler.py: of an enabled rule no feature is left out at any target,   *)
(* there or back, without a word about that feature, that target or the    *)
(* opt-in that should have carried it, whatever the rule combines: part of *)
(* it unavailable, part taken by Home Assistant, some targets unusable.    *)
(* The exception is LeftOut: a source that is its own target is given      *)
(* on/off by its leg and nothing else, and nobody is told.                 *)
NothingDroppedInSilence ==
  compiled /\ rule.enabled =>
    \/ Mentioned("unknown_device", rule.source) \/ Mentioned("source_is_long_range", rule.source)
    \/ Mentioned("unknown_emitter", rule.emitter)
    \/ \A t \in rule.targets, f \in rule.features :
         /\ LeftOut(t, f) \/ Accounted(t, f)
         /\ rule.twoWay /\ t.device # rule.source => AccountedBack(t.device, f)
=============================================================================
