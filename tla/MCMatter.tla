------------------------------ MODULE MCMatter ------------------------------
(* One switch of two controls, each of which may drive the same lamp.      *)
EXTENDS Matter, TLC

CONSTANTS server, switch1, lamp, e1, e2, t1, m1, m2

OneSwitch == [e \in {e1, e2} |-> switch1]
OneLamp == [t \in {t1} |-> lamp]
BothControls == (m1 :> e1) @@ (m2 :> e2)
TheLamp == [l \in {m1, m2} |-> t1]

AdministeredOnly ==
  {{[privilege |-> "administer", ours |-> TRUE, unreadable |-> FALSE, subjects |-> {server},
     target |-> Whole]}}
=============================================================================
