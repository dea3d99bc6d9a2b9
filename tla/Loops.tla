-------------------------------- MODULE Loops --------------------------------
(***************************************************************************)
(* loops.find_loops: the groups of devices that relay what they receive    *)
(* and can pass a command round between them.  The search is Tarjan's,     *)
(* written with a stack of frames of its own; one step here is one round   *)
(* of its inner while.                                                     *)
(*                                                                         *)
(* A device is its identity, a natural number, so that sorted() is the     *)
(* order of the numbers.  A link is the pair of its ends.  How far a frame *)
(* got through its sorted successors is kept as the set of those it took.  *)
(***************************************************************************)
EXTENDS Integers, Sequences, FiniteSets, Functions, SequencesExt

CONSTANTS
  Relays,      \* the devices
  LoopInputs   \* records of links (for each rule), enabled, mirroring, observed

ASSUME LoopsAssumption ==
  /\ Relays \subseteq Nat /\ IsFiniteSet(Relays)
  /\ \A i \in LoopInputs :
       /\ i.links \in [DOMAIN i.links -> SUBSET (Relays \X Relays)]
       /\ i.enabled \subseteq DOMAIN i.links
       /\ i.mirroring \subseteq Relays /\ i.observed \subseteq Relays

VARIABLES
  asking,      \* the arguments
  edges,       \* _Graph.edges
  index, low,  \* of the nodes reached
  trail,       \* the stack of nodes, the last one on top
  frames,      \* work: a node and which of its successors were taken
  loops        \* found, each with its rules

loopVars == <<asking, edges, index, low, trail, frames, loops>>

(* forwarding_devices: what a rule asks to relay, and what was read to.    *)
Forwarding(input) == input.mirroring \cup input.observed

(* _Graph.add, for every link of every enabled rule.                       *)
EdgesOf(input) ==
  {e \in UNION {input.links[r] : r \in input.enabled} :
     e[1] \in Forwarding(input) /\ e[2] \in Forwarding(input)}

RulesInside(component) ==
  {r \in asking.enabled : \E e \in asking.links[r] \cap edges :
                            e[1] \in component /\ e[2] \in component}

LoopsInit ==
  /\ asking \in LoopInputs
  /\ edges = EdgesOf(asking)
  /\ index = <<>> /\ low = <<>>
  /\ trail = <<>> /\ frames = <<>>
  /\ loops = {}

Successors(n) == {e[2] : e \in {f \in edges : f[1] = n}}

(* The roots are taken in order, those that were reached left out.         *)
Roots == {e[1] : e \in edges} \ DOMAIN index

NextRoot ==
  /\ frames = <<>>
  /\ \E n \in Roots : /\ \A m \in Roots : n <= m
                      /\ frames' = <<[node |-> n, taken |-> {}]>>
  /\ UNCHANGED <<asking, edges, index, low, trail, loops>>

Top == frames[Len(frames)]
Fresh == Top.taken = {}
Untaken == Successors(Top.node) \ Top.taken
Smaller(a, b) == IF a < b THEN a ELSE b

(* What the first round on a node does before it looks at a successor.     *)
Numbered(f) ==
  IF Fresh
  THEN [n \in DOMAIN f \cup {Top.node} |-> IF n = Top.node THEN Cardinality(DOMAIN index) ELSE f[n]]
  ELSE f
Stacked == IF Fresh THEN Append(trail, Top.node) ELSE trail

(* Mutant of Lowered: a node of a finished group counts as on the way.     *)
LoweredByAny(n, to) == [Numbered(low) EXCEPT ![n] = Smaller(@, index[to])]

Lowered(n, to) ==
  IF to \in Range(Stacked) THEN [Numbered(low) EXCEPT ![n] = Smaller(@, Numbered(index)[to])]
  ELSE Numbered(low)

Advance ==
  /\ frames # <<>>
  /\ \E to \in Untaken :
       LET moved == [frames EXCEPT ![Len(frames)].taken = @ \cup {to}] IN
       /\ \A other \in Untaken : to <= other
       /\ index' = Numbered(index) /\ trail' = Stacked
       /\ IF to \in DOMAIN index'
          THEN low' = Lowered(Top.node, to) /\ frames' = moved
          ELSE low' = Numbered(low) /\ frames' = Append(moved, [node |-> to, taken |-> {}])
  /\ UNCHANGED <<asking, edges, loops>>

(* The node is done: its parent hears of it, and if it is where its group  *)
(* began the group is what lies on it in the stack.                        *)
Finish ==
  /\ frames # <<>> /\ Untaken = {}
  /\ LET n == Top.node
         lows == Numbered(low)
         parent == frames[Len(frames) - 1].node
         start == CHOOSE i \in DOMAIN Stacked : Stacked[i] = n
         group == {Stacked[i] : i \in start..Len(Stacked)}
         closed == lows[n] = Numbered(index)[n]
     IN /\ index' = Numbered(index)
        /\ low' = IF Len(frames) = 1 THEN lows
                  ELSE [lows EXCEPT ![parent] = Smaller(@, lows[n])]
        /\ trail' = IF closed THEN SubSeq(Stacked, 1, start - 1) ELSE Stacked
        /\ loops' = IF closed /\ Cardinality(group) > 1
                    THEN loops \cup {[devices |-> group, rules |-> RulesInside(group)]} ELSE loops
        /\ frames' = Front(frames)
  /\ UNCHANGED <<asking, edges>>

LoopsNext == NextRoot \/ Advance \/ Finish
LoopsSpec == LoopsInit /\ [][LoopsNext]_loopVars

-----------------------------------------------------------------------------
LoopsTypeOK ==
  /\ edges \subseteq Relays \X Relays
  /\ DOMAIN index \subseteq Relays /\ DOMAIN low = DOMAIN index
  /\ Range(trail) \subseteq DOMAIN index
  /\ \A i \in DOMAIN frames : frames[i].node \in Relays /\ frames[i].taken \subseteq Relays

(* The reference: what one device passes on, and the sets of devices that  *)
(* nothing relayed leaves.  A loop is all that lies in the same of them.   *)
Passed == {e \in UNION {asking.links[r] : r \in asking.enabled} :
             {e[1], e[2]} \subseteq asking.mirroring \cup asking.observed}
TrueLoops ==
  LET passed == Passed
      kept == {S \in SUBSET Relays : \A e \in passed : e[1] \in S => e[2] \in S}
      together == {{b \in Relays : \A S \in kept : a \in S <=> b \in S} : a \in Relays}
  IN {S \in together : Cardinality(S) > 1}

(* loops.find_loops, FR-R7: at the end exactly the groups of relaying      *)
(* devices that reach one another through enabled rules were found, and    *)
(* after no root one that is not such a group; each names exactly the      *)
(* rules that have a link inside it.                                       *)
LoopsExact ==
  frames = <<>> =>
    LET found == {l.devices : l \in loops} IN
    /\ IF Roots = {} THEN found = TrueLoops ELSE found \subseteq TrueLoops
    /\ \A l \in loops :
         l.rules = {r \in asking.enabled :
                      \E a, b \in l.devices : <<a, b>> \in asking.links[r] \cap Passed}
=============================================================================
