----------------------------- MODULE MCReports -----------------------------
(* Two rules of one battery device.                                        *)
EXTENDS Reports, TLC

CONSTANTS rule1, rule2, sleeper

AtSleeper == [r \in {rule1, rule2} |-> sleeper]
=============================================================================
