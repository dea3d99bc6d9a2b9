------------------------------ MODULE PlanWalk ------------------------------
(***************************************************************************)
(* One plan carried out to its end on one set of tables, every write       *)
(* succeeding, in the order the plan puts its items: what the executor     *)
(* does when nothing goes wrong.  It shows what a plan is worth: where the *)
(* tables are while it runs, and where they end.                           *)
(***************************************************************************)
EXTENDS Planner

VARIABLES
  wanted,     \* the links asked for
  managed,    \* the links some rule owns (enabled or not)
  selected,   \* the unmanaged links ticked for removal
  holding,      \* the links the devices hold
  initial,    \* the links they held when the plan was made
  op,         \* the plan
  todo        \* its writes not carried out yet

walkVars == <<wanted, managed, selected, holding, initial, op, todo>>

Fits(S) == \A g \in Groups : Cardinality(InGroup(S, g)) <= Capacity[g]

(* A rule never owns a system entry; a rollback may ask for links that no  *)
(* rule owns any more; a device holds no more than it has room for.        *)
WalkInit ==
  /\ managed \in SUBSET (Links \ SystemLinks)
  /\ wanted \in SUBSET Links
  /\ selected \in SUBSET Links
  /\ holding \in {S \in SUBSET Links : Fits(S)}
  /\ initial = holding
  /\ op = BuildPlan(wanted, holding, managed, selected)
  /\ todo = Writes(op)

CarryOut(l) ==
  /\ IsFirst(op, todo \cap Of(SourceOf[l]), l)
  /\ holding' = IF op[l] = "add" THEN holding \cup {l} ELSE holding \ {l}
  /\ todo' = todo \ {l}
  /\ UNCHANGED <<wanted, managed, selected, initial, op>>

WalkNext == \E l \in todo : CarryOut(l)

WalkSpec == WalkInit /\ [][WalkNext]_walkVars

WalkTypeOK ==
  /\ managed \in SUBSET Links
  /\ wanted \in SUBSET Links
  /\ selected \in SUBSET Links
  /\ holding \in SUBSET Links
  /\ initial \in SUBSET Links
  /\ op \in [Links -> PlanOps]
  /\ todo \in SUBSET Links

(* No write of a plan, at any point of its order, puts an entry into a     *)
(* group that is already full: the room an add was promised is there by    *)
(* the time the add is sent (planner.py, removals before adds).            *)
NeverOverfull == Fits(holding)

(* Carried out to its end, a plan leaves nothing a second plan would       *)
(* write: applying twice is applying once.                                 *)
Converged ==
  todo = {} => Writes(BuildPlan(wanted, holding, managed, selected)) = {}

(* What somebody else put on a device, and nobody ticked, is there after   *)
(* every write of every plan; so is every system entry.                    *)
OthersUntouched ==
  initial \ (managed \cup selected) \subseteq holding /\ initial \cap SystemLinks \subseteq holding
=============================================================================
