-------------------------------- MODULE Swap --------------------------------
(***************************************************************************)
(* Putting one device in the place of another: what swap.propose makes of  *)
(* the rules, and the websocket commands swap/candidates, swap/preview and *)
(* swap/apply around it, with the ownership and the plan the coordinator   *)
(* derives from the stored rules before and after.                         *)
(*                                                                         *)
(* Rules and capabilities are those of Compiler.  The coordinator's cache  *)
(* is taken to be the table (DeviceCache is about where it is not), every  *)
(* group to have room and no link to be a system link (Planner is about    *)
(* these), and a job writes in one step (JobRunner is about how).          *)
(***************************************************************************)
EXTENDS Compiler, Functions, TLC

CONSTANTS
  SwapHouse,     \* the capabilities of every device there may be
  BackendOf, ModelOf,
  NotShown,     \* no preview, no control, no rule
  FirstProfiles,  \* the profiles, as sequences of rules
  ChosenMaps,      \* the mappings a client may send: from old controls to new
  MaxSwapSteps  \* bound: everything but the end of a job

SwapDevices == DOMAIN SwapHouse

ASSUME SwapAssumption ==
  /\ BackendOf \in [SwapDevices -> Range(BackendOf)] /\ ModelOf \in [SwapDevices -> Range(ModelOf)]
  /\ \A rules \in FirstProfiles :
       /\ rules = [i \in DOMAIN rules |-> rules[i]]
       /\ \A i \in DOMAIN rules : IsRule(rules[i])
  /\ MaxSwapSteps \in Nat

VARIABLES
  profile,     \* the rules of the active profile
  changed,     \* addresses where another model answers than the rules record
  known,       \* the devices that were listed and read
  answering,   \* those that are available
  table,       \* the links on the devices
  shown,       \* the last preview a client has looked at
  job,         \* what is being written
  last,        \* history: the last swap that was stored, and the answer to it
  swapSteps

swapVars == <<profile, changed, known, answering, table, shown, job, last, swapSteps>>

Visible == Restrict(SwapHouse, known)

(* _compile_active_profile: a disabled rule claims what it wrote, and the  *)
(* first rule that claims a link owns it.                                  *)
LinksOf(r) == Compile([r EXCEPT !.enabled = TRUE], Visible).links
Claims(rules) == UNION {LinksOf(r) : r \in Range(rules)}
Desired(rules) == UNION {LinksOf(r) : r \in {s \in Range(rules) : s.enabled}}
OwnerOf(rules, l) ==
  LET claiming == {i \in DOMAIN rules : l \in LinksOf(rules[i])}
  IN IF claiming = {} THEN NotShown
     ELSE rules[CHOOSE i \in claiming : \A j \in claiming : i <= j].id

(* async_plan and build_plan: desired is what the rules after want, while  *)
(* ownership is that of the stored rules.  A removal carries its owner.    *)
Planned(wanted, owner, selected) ==
  LET present == DOMAIN owner
      managed == {l \in present : owner[l] # NotShown}
  IN [items |-> {[op |-> "remove", link |-> l, owner |-> owner[l]] :
                   l \in {k \in present \ wanted : k \in managed \cup selected}}
                \cup {[op |-> "add", link |-> l, owner |-> NotShown] : l \in wanted \ present},
      token |-> <<wanted, present, managed, selected \cap present>>]
PlanOf(after, stored, scope, selected) ==
  Planned({l \in Desired(after) : l.source \in scope \cap answering},
          [l \in {k \in table : k.source \in scope \cap answering} |-> OwnerOf(stored, l)],
          selected)

-----------------------------------------------------------------------------
References(r, d) == r.source = d \/ \E t \in r.targets : t.device = d

(* _map_emitter: what was chosen, the control of the same name, or the one *)
(* control that carries all the rules ask of the old one.                  *)
MapEmitter(id, needed, new, chosen) ==
  LET offered == {e.id : e \in EmittersOf(SwapHouse[new])}
      covering == {e \in EmittersOf(SwapHouse[new]) : needed \subseteq Carries(e)}
  IN IF id \in DOMAIN chosen /\ chosen[id] \in offered THEN chosen[id]
     ELSE IF id \in offered THEN id
     ELSE IF Cardinality(covering) = 1 THEN (CHOOSE e \in covering : TRUE).id
     ELSE NotShown

Mapping(rules, old, new, chosen) ==
  LET using == {r \in Range(rules) : r.source = old}
  IN [id \in {r.emitter : r \in using} |->
        MapEmitter(id, UNION {r.features : r \in {s \in using : s.emitter = id}}, new, chosen)]

(* _Rewriter.rewrite; a source whose control has no successor is left.     *)
Moved(t, old, new) ==
  IF t.device = old THEN [device |-> new, endpoint |-> SwapHouse[new].at] ELSE t
Successor(new, id) == CHOOSE e \in EmittersOf(SwapHouse[new]) : e.id = id
Rewrite(r, old, new, mapping) ==
  LET moved == [r EXCEPT !.targets = {Moved(t, old, new) : t \in @}]
  IN IF r.source # old THEN moved
     ELSE IF mapping[r.emitter] = NotShown THEN r
     ELSE [moved EXCEPT !.source = new, !.emitter = mapping[r.emitter],
                        !.from = Successor(new, mapping[r.emitter]).from]

Refusals(rules, old, new) ==
       (IF old = new /\ old \notin changed THEN {"swap_same_device"} ELSE {})
  \cup (IF BackendOf[old] # BackendOf[new] THEN {"swap_across_backends"} ELSE {})
  \cup (IF new \notin known THEN {"swap_replacement_unreadable"} ELSE {})
  \cup (IF \A r \in Range(rules) : ~References(r, old) THEN {"swap_device_not_referenced"} ELSE {})

(* Mutant of IsLossy: what the compiler only warns of is not looked at.    *)
LossyByErrors(r, after) ==
  Compile([after EXCEPT !.enabled = TRUE], Visible).errors # {}

(* _losses and the errors of the rewritten rule.                           *)
IsLossy(r, after) ==
  \/ r.features \ {l.feature : l \in LinksOf(after)} # {}
  \/ Compile([after EXCEPT !.enabled = TRUE], Visible).errors # {}

(* propose, for a device the rules refer to. *)
Propose(rules, old, new, chosen) ==
  LET refused == Refusals(rules, old, new)
      mapping == IF refused = {} THEN Mapping(rules, old, new, chosen) ELSE <<>>
      rewritten == IF refused # {} THEN {}
                   ELSE {i \in DOMAIN rules :
                           /\ References(rules[i], old)
                           /\ rules[i].source = old => mapping[rules[i].emitter] # NotShown}
      after == [i \in DOMAIN rules |-> IF i \in rewritten
                THEN Rewrite(rules[i], old, new, mapping) ELSE rules[i]]
  IN [errors |-> refused,
      unmapped |-> {id \in DOMAIN mapping : mapping[id] = NotShown},
      rewritten |-> rewritten, after |-> after,
      lossy |-> \E i \in rewritten : IsLossy(rules[i], after[i])]

(* _build_swap: the plan is of the devices the swap touches, and takes off *)
(* them what the rules after no longer claim.                              *)
Planning(p, stale, scope) ==
  [errors |-> p.errors, unmapped |-> p.unmapped, rewritten |-> p.rewritten, after |-> p.after,
   lossy |-> p.lossy, stale |-> stale, scope |-> scope,
   plan |-> PlanOf(p.after, profile, scope, stale)]
Touching(p, ends) ==
  Planning(p, Claims(profile) \ Claims(p.after),
           ends \cup {l.source : l \in UNION {LinksOf(profile[i]) \cup LinksOf(p.after[i]) :
                                              i \in p.rewritten}})
BuildSwap(old, new, chosen) == Touching(Propose(profile, old, new, chosen), {old, new})

(* find_replacements: what is offered, with require_candidate off.         *)
Referenced == {r.source : r \in Range(profile)}
              \cup {t.device : t \in UNION {r.targets : r \in Range(profile)}}
Replacements(up) ==
  {[old |-> d, candidates |->
      IF d \in known THEN {d}
      ELSE {c \in known \ Referenced : BackendOf[c] = BackendOf[d] /\ ModelOf[c] = ModelOf[d]}] :
    d \in {e \in Referenced : BackendOf[e] \in up /\ (e \notin known \/ e \in changed)}}

-----------------------------------------------------------------------------
NoSwap == [old |-> NotShown, new |-> NotShown, answer |-> "none", accepted |-> FALSE,
           before |-> <<>>, after |-> <<>>]

SwapInit ==
  /\ profile \in FirstProfiles
  /\ changed \in {{}} \cup {{d} : d \in SwapDevices}
  /\ known = SwapDevices /\ answering = known
  /\ table \in {{}, Desired(profile)}
  /\ shown = NotShown /\ job = {} /\ last = NoSwap
  /\ swapSteps = 0

Steps == swapSteps < MaxSwapSteps /\ swapSteps' = swapSteps + 1

Preview(old, new, chosen) ==
  /\ Steps /\ old \in Referenced
  /\ shown' = BuildSwap(old, new, chosen).plan
  /\ UNCHANGED <<profile, changed, known, answering, table, job, last>>

(* _refuse_unapplicable.                                                   *)
Applicable(swap, new) ==
  new \in answering /\ swap.unmapped = {} /\ swap.errors = {} /\ swap.rewritten # {}

TokenHolds(plan) == plan.token = shown.token

(* What a swap writes into a rule records the replacement as it is now; a  *)
(* rule that named it before keeps the record it had.                      *)
ChangedAfter(old, new) ==
  IF old # new /\ new \in Referenced THEN changed ELSE changed \ {new}

(* Mutant of Stored: rules the old device is only a target of stay as they *)
(* are.                                                                    *)
StoredSources(swap, old, new) ==
  /\ profile' = [i \in DOMAIN profile |-> IF profile[i].source = swap.after[i].source
                                          THEN profile[i] ELSE swap.after[i]]
  /\ changed' = ChangedAfter(old, new)

Stored(swap, old, new) == profile' = swap.after /\ changed' = ChangedAfter(old, new)

(* _refuse_a_different_plan. *)
Compared(writing, previewed) ==
  IF writing # previewed THEN "out of date"
  ELSE IF writing = {} THEN "nothing to do" ELSE "running"

(* _swap_apply: refuse, check the token, store, plan again from what is    *)
(* stored, compare, write.                                                 *)
Replanned(swap) == PlanOf(swap.after, swap.after, swap.scope, swap.stale).items
Apply(old, new, chosen) ==
  /\ Steps /\ job = {} /\ shown # NotShown /\ old \in Referenced
  /\ \E swap \in {BuildSwap(old, new, chosen)}, accept \in BOOLEAN :
       /\ Applicable(swap, new) /\ TokenHolds(swap.plan)
       /\ swap.lossy => accept
       /\ Stored(swap, old, new)
       /\ \E writing \in {Replanned(swap)} :
            LET answer == Compared(writing, swap.plan.items)
            IN /\ job' = IF answer = "running" THEN writing ELSE {}
               /\ last' = [old |-> old, new |-> new, answer |-> answer, accepted |-> accept,
                           before |-> profile, after |-> swap.after]
  /\ UNCHANGED <<known, answering, table, shown>>

(* The job writes what it can.                                             *)
JobEnds ==
  /\ job # {}
  /\ \E done \in SUBSET job :
       table' = (table \ {i.link : i \in {j \in done : j.op = "remove"}})
                \cup {i.link : i \in {j \in done : j.op = "add"}}
  /\ job' = {}
  /\ UNCHANGED <<profile, changed, known, answering, shown, last, swapSteps>>

(* async_set_rule_enabled, from another client or a switch entity.         *)
ToggleRule(i) ==
  /\ Steps
  /\ profile' = [profile EXCEPT ![i].enabled = ~@]
  /\ UNCHANGED <<changed, known, answering, table, shown, job, last>>

(* _forget_unlisted: a listing comes without the device.                   *)
Forget(d) ==
  /\ Steps /\ d \in known
  /\ known' = known \ {d} /\ answering' = answering \ {d}
  /\ UNCHANGED <<profile, changed, table, shown, job, last>>

(* It stops answering, or answers again.                                   *)
Silence(d) ==
  /\ Steps /\ d \in known
  /\ answering' = IF d \in answering THEN answering \ {d} ELSE answering \cup {d}
  /\ UNCHANGED <<profile, changed, known, table, shown, job, last>>

(* Somebody else takes a link off a device, or puts it there again.        *)
OtherWrites(l) ==
  /\ Steps
  /\ table' = IF l \in table THEN table \ {l} ELSE table \cup {l}
  /\ UNCHANGED <<profile, changed, known, answering, shown, job, last>>

SwapNext ==
  \/ \E old, new \in SwapDevices, chosen \in ChosenMaps :
       Preview(old, new, chosen) \/ Apply(old, new, chosen)
  \/ JobEnds
  \/ \E i \in DOMAIN profile : ToggleRule(i)
  \/ \E d \in SwapDevices : Forget(d) \/ Silence(d)
  \/ \E l \in Claims(profile) : OtherWrites(l)

SwapSpec == SwapInit /\ [][SwapNext]_swapVars

-----------------------------------------------------------------------------
SwapTypeOK ==
  /\ changed \subseteq SwapDevices /\ answering \subseteq known /\ known \subseteq SwapDevices
  /\ \A i \in job : i.op \in {"add", "remove"} /\ i.link.source \in SwapDevices
  /\ last.answer \in {"none", "out of date", "nothing to do", "running"}

(* swap.py: a swap is refused unless its loss was accepted: of a rule that *)
(* is one-way and has no opt-ins every feature still reaches every target. *)
NoLossUnsaid ==
  [][last' # last /\ ~last'.accepted =>
       \A i \in DOMAIN last'.after :
         LET r == last'.after[i] IN
         r # last'.before[i] /\ ~r.twoWay /\ r.hybrid = {} =>
           \A t \in r.targets, f \in r.features :
             \E l \in LinksOf(r) : l.source = r.source /\ l.target = t.device /\ l.feature = f]_swapVars

(* test_s7_the_swap_stops_being_offered_once_it_is_done: the rules have    *)
(* let go of the old device, as source and as target, in whatever way its  *)
(* controls were mapped.                                                   *)
OldLetGo ==
  [][last' # last =>
       /\ last'.old # last'.new => last'.old \notin Referenced'
       /\ last'.old \notin {r.old : r \in Replacements(Range(BackendOf))'}]_swapVars
=============================================================================
