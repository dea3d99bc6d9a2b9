---------------------------- MODULE MCRuleToggle ----------------------------
(* The limiter with its timers as model values. *)
EXTENDS RuleToggle, TLC

CONSTANTS r1, r2
=============================================================================
