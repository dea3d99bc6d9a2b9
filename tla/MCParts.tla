------------------------------ MODULE MCParts ------------------------------
(***************************************************************************)
(* The parts of the integration that share no state, each on a small       *)
(* house of its own: a plan carried out, a rule compiled, loops looked     *)
(* for, a device swapped, the Zigbee, Matter and Z-Wave adapters, the legs  *)
(* that light a button, the store with its mirror, and what is reported.   *)
(* A behaviour is one of the part it names; the others rest in one of      *)
(* their initial states.                                                   *)
(***************************************************************************)
EXTENDS PlanWalk, Compilation, Loops, Swap, Zigbee, Matter, Hybrid, Storage, ZWave, Reports, TLC

VARIABLE part

----------------------------------------------------------------------------
(* Plans: four links on a two-slot group and a one-slot group of the same  *)
(* device, one of them a system entry: every profile, table and selection. *)
CONSTANTS d1, linkA, linkB, linkU, linkS, g1, g2

WalkSourceOf == [l \in {linkA, linkB, linkU, linkS} |-> d1]
WalkGroupOf == [l \in {linkA, linkB, linkU, linkS} |-> IF l = linkS THEN g2 ELSE g1]
WalkCapacity == (g1 :> 2) @@ (g2 :> 1)
WalkRank == (linkA :> 1) @@ (linkB :> 2) @@ (linkU :> 3) @@ (linkS :> 4)

PlanAtRest == wanted = {} /\ managed = {} /\ selected = {} /\ holding = {} /\ WalkInit

----------------------------------------------------------------------------
(* Compiling: a Z-Wave switch with a paddle and a button, a Zigbee lamp    *)
(* with a control and one endpoint, and a long range device.               *)
Emitter(id, from, groups, addresses, extra) ==
  [id |-> id, from |-> from, groups |-> groups, addresses |-> addresses,
   scene |-> extra, indicator |-> extra, verified |-> ~extra]
Able(longRange, emitters, receives, at) ==
  [longRange |-> longRange, emitters |-> emitters, receives |-> receives, at |-> at,
   mirrors |-> {}]

CompiledHouse ==
  ("switch" :> Able(FALSE,
      <<Emitter("paddle", 0, (OnOff :> "g2") @@ (LevelHold :> "g4"), FALSE, FALSE),
        Emitter("button", 0, (OnOff :> "g5") @@ (Status :> "g6"), FALSE, TRUE)>>,
      {OnOff, LevelHold}, NoEndpoint))
  @@ ("lamp" :> Able(FALSE, <<Emitter("control", 2, (OnOff :> "c6"), TRUE, FALSE)>>,
                     {OnOff, Status}, 1))
  @@ ("far" :> Able(TRUE, <<>>, {OnOff}, NoEndpoint))

At(device, endpoint) == [device |-> device, endpoint |-> endpoint]

CompiledTargets ==
  {At("switch", NoEndpoint), At("lamp", NoEndpoint), At("lamp", 1), At("far", NoEndpoint),
   At("gone", NoEndpoint)}

EveryRule ==
  [id : {"r"}, enabled : {TRUE}, source : {"switch", "lamp"}, from : {0},
   emitter : {"paddle", "button", "control"},
   targets : {S \in SUBSET CompiledTargets : S # {} /\ Cardinality(S) <= 2},
   features : (SUBSET {OnOff, LevelHold, Status}) \ {{}}, twoWay : BOOLEAN,
   hybrid : {S \in SUBSET {"on_only", "off_only", "button_led", "self_load"} :
               ~ {"on_only", "off_only"} \subseteq S},
   offAll : {FALSE}, mirror : {Leave}]

CompilerAtRest ==
  /\ rule = [id |-> "r", enabled |-> TRUE, source |-> "switch", from |-> 0,
             emitter |-> "paddle", targets |-> {At("far", NoEndpoint)}, features |-> {OnOff},
             twoWay |-> FALSE, hybrid |-> {}, offAll |-> FALSE, mirror |-> Leave]
  /\ CompilationInit

----------------------------------------------------------------------------
(* Loops: one rule among four relays; two rules, one perhaps disabled,     *)
(* among three of which the first may not relay.                           *)
Hops(S) == {e \in S \X S : e[1] # e[2]}

Question(links, enabled, relaying, observed) ==
  [links |-> links, enabled |-> enabled, mirroring |-> relaying, observed |-> observed]

NoRules == Question([r \in {"r1"} |-> {}], {"r1"}, 1..4, {})

LoopQuestions ==
  UNION {{NoRules},
         {Question([r \in {"r1"} |-> l \cup {<<1, 2>>, <<2, 1>>}], {"r1"}, 1..4, {}) :
            l \in SUBSET (Hops(1..4) \ {<<1, 2>>, <<2, 1>>, <<1, 4>>})},
         {Question([r \in {"r1", "r2"} |-> IF r = "r1" THEN l ELSE k], e, relaying, {2, 3}) :
            l \in SUBSET Hops(1..3), k \in {{}} \cup {{h} : h \in Hops(1..3)},
            e \in {{"r1"}, {"r1", "r2"}}, relaying \in {{1}, {}}}}

LoopsAtRest == asking = NoRules /\ LoopsInit

----------------------------------------------------------------------------
(* Swapping: a two-channel paddle, a device with two one-channel controls  *)
(* to put in its place, and the lamp it drives.                            *)
SwappedHouse ==
  ("old" :> Able(FALSE,
      <<Emitter("paddle", 0, (OnOff :> "g2") @@ (LevelHold :> "g4"), FALSE, FALSE)>>,
      {OnOff, LevelHold}, NoEndpoint))
  @@ ("new" :> Able(FALSE,
      <<Emitter("up", 1, (OnOff :> "g5"), FALSE, FALSE),
        Emitter("down", 2, (OnOff :> "g6") @@ (LevelHold :> "g7"), FALSE, FALSE)>>,
      {OnOff}, 1))
  @@ ("lamp" :> Able(FALSE, <<Emitter("paddle", 2, (OnOff :> "c6"), TRUE, FALSE)>>,
                     {OnOff, LevelHold}, 1))

SwappedBackend == [d \in {"old", "new", "lamp"} |-> "zwave_js"]
SwappedModel == [d \in {"old", "new", "lamp"} |-> IF d = "lamp" THEN "lamp" ELSE "switch"]

Driving(id, enabled, source, targets, features) ==
  [id |-> id, enabled |-> enabled, source |-> source, from |-> 0, emitter |-> "paddle",
   targets |-> targets, features |-> features, twoWay |-> FALSE, hybrid |-> {},
   offAll |-> FALSE, mirror |-> Leave]

SwappedProfiles ==
  {<<Driving("r1", TRUE, "old", {At("lamp", 1)}, {OnOff, LevelHold}),
     Driving("r2", FALSE, "lamp", {At("old", NoEndpoint)}, {OnOff})>>}

MapChoices == {<<>>, [i \in {"paddle"} |-> "up"]}

SwapAtRest == changed = {} /\ table = {} /\ SwapInit

----------------------------------------------------------------------------
(* Zigbee: a device with a control that two links want to drive two lamps  *)
(* from, one of which is asleep and drives the device back.                *)
CONSTANTS keypad, lamp1, lamp2, coordinator, shared, owned, keyUp, lampKey, z1, z2, z3

ZigbeeControlNode == (keyUp :> keypad) @@ (lampKey :> lamp1)
ZigbeeControl == (z1 :> keyUp) @@ (z2 :> keyUp) @@ (z3 :> lampKey)
ZigbeeTarget == (z1 :> lamp1) @@ (z2 :> lamp2) @@ (z3 :> keypad)
ZigbeeGroup == [l \in {z1, z2, z3} |-> shared]
NothingBound == [bound |-> {}, groups |-> [g \in {} |-> {}]]
BoundByHand ==
  [bound |-> {<<lampKey, lamp2>>, <<keyUp, coordinator>>, <<keyUp, owned>>},
   groups |-> owned :> {lamp1}]
ZigbeeSetups == {NothingBound, BoundByHand}

ZigbeeAtRest == air = NothingBound /\ stateFirst = TRUE /\ ZigbeeInit

----------------------------------------------------------------------------
(* Matter: two switches, one of two controls, and a lamp of two endpoints  *)
(* with an entry nobody may touch beside the administrator's.              *)
CONSTANTS server, switch1, switch2, lamp, e1, e2, e3, t1, t2, m1, m2, m3, m4

MatterEndpointNode == (e1 :> switch1) @@ (e2 :> switch1) @@ (e3 :> switch2)
MatterTargetNode == (t1 :> lamp) @@ (t2 :> lamp)
MatterSource == (m1 :> e1) @@ (m2 :> e2) @@ (m3 :> e3) @@ (m4 :> e1)
MatterTarget == (m1 :> t1) @@ (m2 :> t1) @@ (m3 :> t1) @@ (m4 :> t2)

Administering ==
  [privilege |-> "administer", ours |-> TRUE, unreadable |-> FALSE, subjects |-> {server},
   target |-> Whole]
OfAnotherFabric ==
  [privilege |-> "operate", ours |-> FALSE, unreadable |-> FALSE, subjects |-> {},
   target |-> Whole]
Unreadably ==
  [privilege |-> "operate", ours |-> TRUE, unreadable |-> TRUE, subjects |-> {switch1},
   target |-> t1]
MatterSetups == {{Administering, OfAnotherFabric}, {Administering, Unreadably}}

MatterAtRest ==
  acl = [n \in Lamps |-> {Administering, OfAnotherFabric}] /\ MatterInit

----------------------------------------------------------------------------
(* Z-Wave: a remote with one group of one entry, which two associations    *)
(* want, one with and one without an endpoint of the same lamp.            *)
CONSTANTS remote, bulb, za, zb, service, runner

ZWaveNode == [e \in {za, zb} |-> remote]
ZWaveGroup == [e \in {za, zb} |-> "g2"]
ZWaveClass == (za :> "association") @@ (zb :> "multi_channel")
ZWaveTarget == [e \in {za, zb} |-> bulb]

ZWaveAtRest == held = {} /\ ZWaveInit

----------------------------------------------------------------------------
(* Storage: two profiles, one of them stored and active at first.          *)
CONSTANTS p1, p2, lit, unlit

StoredAtFirst == {[profiles |-> (p1 :> lit) @@ (p2 :> NoProfile), active |-> p1]}

----------------------------------------------------------------------------
(* Reports: one rule, of one battery device.                               *)
CONSTANTS rule1, sleeper

AtSleeper == [r \in {rule1} |-> sleeper]

ReportsAtRest == present = {} /\ switchedOn = {} /\ applied = {} /\ ReportsInit

LegsAtRest == entities = {} /\ led = {} /\ HybridInit
StorageAtRest == file = Nothing /\ wish = EmptyState /\ mirrored = NoFiles /\ StorageInit

PartsInit ==
  \/ /\ part = "plan" /\ CompilerAtRest /\ LoopsAtRest /\ SwapAtRest /\ ZigbeeAtRest
     /\ MatterAtRest /\ LegsAtRest /\ StorageAtRest /\ ZWaveAtRest /\ ReportsAtRest
     /\ WalkInit
  \/ /\ part = "compile" /\ PlanAtRest /\ LoopsAtRest /\ SwapAtRest /\ ZigbeeAtRest
     /\ MatterAtRest /\ LegsAtRest /\ StorageAtRest /\ ZWaveAtRest /\ ReportsAtRest
     /\ CompilationInit
  \/ /\ part = "loops" /\ PlanAtRest /\ CompilerAtRest /\ SwapAtRest /\ ZigbeeAtRest
     /\ MatterAtRest /\ LegsAtRest /\ StorageAtRest /\ ZWaveAtRest /\ ReportsAtRest
     /\ LoopsInit
  \/ /\ part = "swap" /\ PlanAtRest /\ CompilerAtRest /\ LoopsAtRest /\ ZigbeeAtRest
     /\ MatterAtRest /\ LegsAtRest /\ StorageAtRest /\ ZWaveAtRest /\ ReportsAtRest
     /\ SwapInit
  \/ /\ part = "zigbee" /\ PlanAtRest /\ CompilerAtRest /\ LoopsAtRest /\ SwapAtRest
     /\ MatterAtRest /\ LegsAtRest /\ StorageAtRest /\ ZWaveAtRest /\ ReportsAtRest
     /\ ZigbeeInit
  \/ /\ part = "matter" /\ PlanAtRest /\ CompilerAtRest /\ LoopsAtRest /\ SwapAtRest
     /\ ZigbeeAtRest /\ LegsAtRest /\ StorageAtRest /\ ZWaveAtRest /\ ReportsAtRest
     /\ MatterInit
  \/ /\ part = "legs" /\ PlanAtRest /\ CompilerAtRest /\ LoopsAtRest /\ SwapAtRest
     /\ ZigbeeAtRest /\ MatterAtRest /\ StorageAtRest /\ ZWaveAtRest /\ ReportsAtRest
     /\ HybridInit
  \/ /\ part = "storage" /\ PlanAtRest /\ CompilerAtRest /\ LoopsAtRest /\ SwapAtRest
     /\ ZigbeeAtRest /\ MatterAtRest /\ LegsAtRest /\ ZWaveAtRest /\ ReportsAtRest
     /\ StorageInit
  \/ /\ part = "zwave" /\ PlanAtRest /\ CompilerAtRest /\ LoopsAtRest /\ SwapAtRest
     /\ ZigbeeAtRest /\ MatterAtRest /\ LegsAtRest /\ StorageAtRest /\ ReportsAtRest
     /\ ZWaveInit
  \/ /\ part = "reports" /\ PlanAtRest /\ CompilerAtRest /\ LoopsAtRest /\ SwapAtRest
     /\ ZigbeeAtRest /\ MatterAtRest /\ LegsAtRest /\ StorageAtRest /\ ZWaveAtRest
     /\ ReportsInit

PartsNext ==
  /\ UNCHANGED part
  /\ \/ /\ part = "plan" /\ WalkNext
        /\ UNCHANGED <<compilationVars, loopVars, swapVars, zigbeeVars, matterVars,
                       hybridVars, storageVars, zwaveVars, reportsVars>>
     \/ /\ part = "compile" /\ CompileRule
        /\ UNCHANGED <<walkVars, loopVars, swapVars, zigbeeVars, matterVars, hybridVars,
                       storageVars, zwaveVars, reportsVars>>
     \/ /\ part = "loops" /\ LoopsNext
        /\ UNCHANGED <<walkVars, compilationVars, swapVars, zigbeeVars, matterVars,
                       hybridVars, storageVars, zwaveVars, reportsVars>>
     \/ /\ part = "swap" /\ SwapNext
        /\ UNCHANGED <<walkVars, compilationVars, loopVars, zigbeeVars, matterVars,
                       hybridVars, storageVars, zwaveVars, reportsVars>>
     \/ /\ part = "zigbee" /\ ZigbeeNext
        /\ UNCHANGED <<walkVars, compilationVars, loopVars, swapVars, matterVars,
                       hybridVars, storageVars, zwaveVars, reportsVars>>
     \/ /\ part = "matter" /\ MatterNext
        /\ UNCHANGED <<walkVars, compilationVars, loopVars, swapVars, zigbeeVars,
                       hybridVars, storageVars, zwaveVars, reportsVars>>
     \/ /\ part = "legs" /\ HybridNext
        /\ UNCHANGED <<walkVars, compilationVars, loopVars, swapVars, zigbeeVars,
                       matterVars, storageVars, zwaveVars, reportsVars>>
     \/ /\ part = "storage" /\ StorageNext
        /\ UNCHANGED <<walkVars, compilationVars, loopVars, swapVars, zigbeeVars,
                       matterVars, hybridVars, zwaveVars, reportsVars>>
     \/ /\ part = "zwave" /\ ZWaveNext
        /\ UNCHANGED <<walkVars, compilationVars, loopVars, swapVars, zigbeeVars,
                       matterVars, hybridVars, storageVars, reportsVars>>
     \/ /\ part = "reports" /\ ReportsNext
        /\ UNCHANGED <<walkVars, compilationVars, loopVars, swapVars, zigbeeVars,
                       matterVars, hybridVars, storageVars, zwaveVars>>

PartsSpec ==
  /\ PartsInit
  /\ [][PartsNext]_<<part, walkVars, compilationVars, loopVars, swapVars, zigbeeVars,
                     matterVars, hybridVars, storageVars, zwaveVars, reportsVars>>

(* Every part keeps its variables to their types, and its tables, queues   *)
(* and histories to the lengths the code gives them.                       *)
PartsTypeOK ==
  /\ WalkTypeOK /\ LoopsTypeOK /\ SwapTypeOK
  /\ ZigbeeTypeOK /\ MatterTypeOK /\ ZWaveTypeOK /\ HybridTypeOK
  /\ StorageTypeOK /\ ReportsTypeOK
=============================================================================
