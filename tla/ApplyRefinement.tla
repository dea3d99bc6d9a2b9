-------------------------- MODULE ApplyRefinement --------------------------
(***************************************************************************)
(* JobRunner keeps the promises of ApplyContract.                          *)
(***************************************************************************)
EXTENDS JobRunner

(* What a report tells a reader about one link: outcomes that mean nothing *)
(* was sent, a verified_at, or anything else.                              *)
Unsent == {"stale_plan", "cancelled", "interrupted"}

VerdictOf(rep, l) ==
  IF rep = NoReport THEN "none"
  ELSE IF rep.op[l] = "none" THEN "none"
  ELSE IF rep.outcome[l] \in Unsent \/ (rep.outcome[l] = "blocked" /\ rep.attempts[l] = 0)
       THEN "untouched"
  ELSE IF l \in rep.verified THEN "confirmed" ELSE "attempted"

Contract == INSTANCE ApplyContract WITH
  open <- phase # "idle",
  stopping <- stop # "none",
  touched <- sent,
  verdict <- [l \in Links |-> VerdictOf(report, l)],
  gate <- CASE shut = "up" -> "up" [] shut = "stopping" -> "closing" [] OTHER -> "down"

(* Every behaviour of the runner is one the contract allows.               *)
KeepsContract == Contract!Spec

=============================================================================
