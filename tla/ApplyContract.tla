--------------------------- MODULE ApplyContract ---------------------------
(***************************************************************************)
(* What an apply promises, with nothing of how it is done (executor.py's   *)
(* module documentation): one job at a time; nothing new is sent after a   *)
(* stop; none starts once the runner is going down, and it is not down     *)
(* while one runs; and the report tells exactly which links were handed to *)
(* a backend and which of those the device was seen to agree with.         *)
(***************************************************************************)
CONSTANT Links

VARIABLES
  open,      \* a job is running
  stopping,  \* it has been told to stop
  touched,   \* the links it has handed to a backend
  verdict,   \* what the last report says of each link
  gate       \* the runner takes jobs, is going down, is down

vars == <<open, stopping, touched, verdict, gate>>

Verdicts == {"none", "untouched", "attempted", "confirmed"}

(* The report is exact: a link is attempted or confirmed if and only if it *)
(* was handed to a backend.                                                *)
Exact(report, sent) ==
  report \in [Links -> Verdicts] /\ \A l \in Links :
    report[l] \in {"attempted", "confirmed"} <=> l \in sent

Init ==
  /\ open = FALSE /\ stopping = FALSE
  /\ touched = {}
  /\ verdict = [l \in Links |-> "none"]
  /\ gate = "up"

Begin ==
  /\ gate = "up" /\ ~open
  /\ open' = TRUE
  /\ UNCHANGED <<stopping, touched, verdict, gate>>

(* Everything asked for was refused before anything was sent.              *)
Refuse ==
  /\ gate = "up" /\ ~open
  /\ Exact(verdict', {})
  /\ UNCHANGED <<open, stopping, touched, gate>>

Touch(l) ==
  /\ open /\ ~stopping
  /\ touched' = touched \cup {l}
  /\ UNCHANGED <<open, stopping, verdict, gate>>

Stop ==
  /\ open
  /\ stopping' = TRUE
  /\ UNCHANGED <<open, touched, verdict, gate>>

Close ==
  /\ open
  /\ Exact(verdict', touched)
  /\ open' = FALSE /\ stopping' = FALSE /\ touched' = {}
  /\ UNCHANGED gate

GoDown ==
  /\ gate = "up"
  /\ gate' = IF open THEN "closing" ELSE "down"
  /\ stopping' = open
  /\ UNCHANGED <<open, touched, verdict>>

Down ==
  /\ gate = "closing" /\ ~open
  /\ gate' = "down"
  /\ UNCHANGED <<open, stopping, touched, verdict>>

Next ==
  \/ Begin \/ Refuse \/ Stop \/ Close \/ GoDown \/ Down
  \/ \E l \in Links : Touch(l)

Spec == Init /\ [][Next]_vars

=============================================================================
