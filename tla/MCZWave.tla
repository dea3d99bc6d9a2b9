------------------------------ MODULE MCZWave ------------------------------
(* A remote with one group, which holds associations of both command       *)
(* classes.                                                                *)
EXTENDS ZWave, TLC

CONSTANTS remote, bulb, za, zb

AtRemote == [e \in {za, zb} |-> remote]
OneGroup == [e \in {za, zb} |-> "g2"]
BothClasses == (za :> "association") @@ (zb :> "multi_channel")
OneBulb == [e \in {za, zb} |-> bulb]
=============================================================================
