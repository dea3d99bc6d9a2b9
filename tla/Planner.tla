------------------------------ MODULE Planner ------------------------------
(***************************************************************************)
(* What planner.build_plan computes: the writes that turn what the devices *)
(* hold into what the rules ask for.  Pure: nothing here has a state.      *)
(*                                                                         *)
(* A link is known by its fingerprint, so a link IS its fingerprint here:  *)
(* a member of Links.  SourceOf gives the device whose association or      *)
(* binding table holds it, GroupOf the slot of that table (the code's key  *)
(* (identity, emitter_group)), Rank the order of the fingerprints.         *)
(***************************************************************************)
EXTENDS Naturals, FiniteSets

CONSTANTS
  Devices,      \* the devices links are stored on
  Links,        \* every link a rule or a device can name
  SourceOf,     \* [Links -> Devices]
  GroupOf,      \* [Links -> Groups]
  Groups,       \* the slots, each belonging to one device
  Capacity,     \* [Groups -> Nat]; a group the device does not report is 0
  Rank,         \* [Links -> Nat], injective: how fingerprints sort
  SystemLinks   \* the entries a backend marks is_system (lifelines, reporting)

ASSUME LinkAssumption ==
  /\ SourceOf \in [Links -> Devices]
  /\ GroupOf \in [Links -> Groups]
  /\ Capacity \in [Groups -> Nat]
  /\ Rank \in [Links -> Nat]
  /\ SystemLinks \subseteq Links
  /\ \A k, l \in Links : Rank[k] = Rank[l] => k = l
  /\ \A k, l \in Links : GroupOf[k] = GroupOf[l] => SourceOf[k] = SourceOf[l]

ASSUME FiniteLinks == IsFiniteSet(Links)

PlanOps == {"none", "add", "remove", "blocked"}

WriteOps == {"add", "remove"}

(* The links stored on device d. *)
Of(d) == {l \in Links : SourceOf[l] = d}

InGroup(S, g) == {l \in S : GroupOf[l] = g}

(***************************************************************************)
(* In what follows wanted is the links asked for, present the links        *)
(* observed, managed the links some rule of the profile owns, and selected *)
(* the unmanaged links the user ticked for removal.                        *)
(***************************************************************************)

(* Mutant of Removals: whatever is not wanted goes, whoever put it there.  *)
RemovalsOfAnything(wanted, present, managed, selected) == present \ wanted

Removals(wanted, present, managed, selected) ==
  {l \in present \ (SystemLinks \cup wanted) : l \in managed \/ l \in selected}

Survivors(wanted, present, managed, selected) ==
  present \ Removals(wanted, present, managed, selected)

(* The wanted links not on their device, which are handed out in the order *)
(* of their fingerprints until the group has no room left.                 *)
Missing(wanted, present) == wanted \ present

(* Mutant of RoomUsed: the entries the plan removes still take their room. *)
RoomUsedBeforeRemovals(l, wanted, present, managed, selected) ==
    Cardinality(InGroup(present, GroupOf[l]))
  + Cardinality({k \in InGroup(Missing(wanted, present), GroupOf[l]) : Rank[k] < Rank[l]})

RoomUsed(l, wanted, present, managed, selected) ==
    Cardinality(InGroup(Survivors(wanted, present, managed, selected), GroupOf[l]))
  + Cardinality({k \in InGroup(Missing(wanted, present), GroupOf[l]) : Rank[k] < Rank[l]})

Adds(wanted, present, managed, selected) ==
  {l \in Missing(wanted, present) :
     RoomUsed(l, wanted, present, managed, selected) < Capacity[GroupOf[l]]}

(* build_plan: the operation the plan holds for every link. *)
BuildPlan(wanted, present, managed, selected) ==
  LET removals == Removals(wanted, present, managed, selected)
      adds == Adds(wanted, present, managed, selected)
      blocked == Missing(wanted, present) \ adds
  IN  [l \in Links |-> IF l \in removals THEN "remove"
                       ELSE IF l \in adds THEN "add"
                       ELSE IF l \in blocked THEN "blocked" ELSE "none"]

Writes(op) == {l \in Links : op[l] \in WriteOps}

(* Mutant of Precedes: make before break.                                  *)
PrecedesAddsFirst(op, k, l) ==
  \/ op[k] = "add" /\ op[l] = "remove"
  \/ op[k] = op[l] /\ Rank[k] < Rank[l]

(* _ordering: on one device, every removal comes before every add, and     *)
(* each kind follows the order of the fingerprints.                        *)
Precedes(op, k, l) ==
  \/ op[k] = "remove" /\ op[l] = "add"
  \/ op[k] = op[l] /\ Rank[k] < Rank[l]

(* The member of S that the plan's order works first. *)
IsFirst(op, S, l) == l \in S /\ \A k \in S \ {l} : ~Precedes(op, k, l)

=============================================================================
