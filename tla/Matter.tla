------------------------------- MODULE Matter -------------------------------
(***************************************************************************)
(* backends.matter.MatterBackend with matter_protocol: a link is an entry  *)
(* of the Binding list of the source's endpoint, and a grant for the       *)
(* source node in the Access Control list of the target.  Both are lists   *)
(* that are read, changed and written back whole, with an await between    *)
(* any two steps, by the coroutines of several source nodes and by other   *)
(* controllers.                                                            *)
(*                                                                         *)
(* A control is an endpoint of a source with the cluster it sends, and a   *)
(* target an endpoint of a node with the cluster it serves.  Features of   *)
(* one cluster share the binding.                                          *)
(***************************************************************************)
EXTENDS Naturals, FiniteSets

CONSTANTS
  Switches, Lamps,               \* source and target nodes
  Controller,                    \* the node of Home Assistant
  Endpoints, EndpointNode,       \* the controls
  Targets, TargetNode,
  MLinks, MSource, MTarget,
  Refused,       \* links refused whatever the state, or with writes disabled
  Incapable,     \* links whose source cannot send or target cannot receive
  AclSetups,     \* what an Access Control list may hold before
  BindingTableCapacity, EntriesPerFabric, SubjectsPerEntry,
  Whole,         \* the target list of an entry that covers the node
  MaxMishaps     \* bound: writes asked for, and what goes wrong with them

(* Entries of another fabric come without anything to read.  An entry      *)
(* without subjects is for every node.                                     *)
AclEntry ==
  [privilege : {"operate", "administer"}, ours : BOOLEAN, unreadable : BOOLEAN,
   subjects : SUBSET (Switches \cup {Controller}), target : Targets \cup {Whole}]

ASSUME MatterAssumption ==
  /\ EndpointNode \in [Endpoints -> Switches] /\ TargetNode \in [Targets -> Lamps]
  /\ MSource \in [MLinks -> Endpoints] /\ MTarget \in [MLinks -> Targets]
  /\ Refused \subseteq MLinks /\ Incapable \subseteq MLinks /\ Whole \notin Targets
  /\ AclSetups \subseteq SUBSET AclEntry
  /\ {BindingTableCapacity, EntriesPerFabric, SubjectsPerEntry, MaxMishaps} \subseteq Nat

VARIABLES
  bindings,   \* the Binding list of each control
  acl,        \* the Access Control list of each target node
  writer,     \* what the coroutine writing a link of each source node is at
  mishaps,
  kept,       \* history: the links written and not asked to be removed
  contended   \* history: targets that two coroutines worked on at once

matterVars == <<bindings, acl, writer, mishaps, kept, contended>>

NoJob ==
  [step |-> "idle", link |-> CHOOSE l \in MLinks : TRUE, adding |-> FALSE, list |-> {},
   before |-> {}, written |-> FALSE, result |-> "none"]

MatterInit ==
  /\ acl \in [Lamps -> AclSetups]
  /\ bindings = [c \in Endpoints |-> {}]
  /\ writer = [n \in Switches |-> NoJob]
  /\ mishaps = 0 /\ kept = {} /\ contended = {}

-----------------------------------------------------------------------------
(* matter_protocol, on Access Control lists.                               *)
OursIn(list) == {e \in list : e.ours}
Administer(list) == {e \in list : e.ours /\ e.privilege = "administer"}

Grants(e, subject, target) ==
  /\ e.ours /\ ~e.unreadable
  /\ e.subjects = {} \/ subject \in e.subjects
  /\ e.target \in {Whole, target}

Granted(list, subject, target) == \E e \in list : Grants(e, subject, target)

IsManagedGrant(e, target) ==
  /\ e.ours /\ ~e.unreadable /\ e.subjects # {}
  /\ e.privilege = "operate" /\ e.target = target

(* No entry tells our fabric, or one of ours holds what nobody can read.   *)
MayNotWrite(list) == OursIn(list) = {} \/ \E e \in OursIn(list) : e.unreadable

GrantEntry(subject, target) ==
  [privilege |-> "operate", ours |-> TRUE, unreadable |-> FALSE,
   subjects |-> {subject}, target |-> target]

WithRoom(list, target) ==
  {e \in OursIn(list) : IsManagedGrant(e, target) /\ Cardinality(e.subjects) < SubjectsPerEntry}

(* grant_for, when the grant is not there: the lists it may become; none   *)
(* when there is no room.                                                  *)
GrantFor(list, subject, target) ==
  IF WithRoom(list, target) # {}
  THEN {(OursIn(list) \ {e}) \cup {[e EXCEPT !.subjects = @ \cup {subject}]} :
          e \in WithRoom(list, target)}
  ELSE IF Cardinality(OursIn(list)) < EntriesPerFabric
       THEN {OursIn(list) \cup {GrantEntry(subject, target)}}
       ELSE {}

(* Mutant of RevokeFor: an entry goes for everybody it names.              *)
RevokeAll(list, subject, target) ==
  {e \in OursIn(list) : ~(IsManagedGrant(e, target) /\ subject \in e.subjects)}

(* An entry without its last subject would be for everybody, so it goes.   *)
RevokeFor(list, subject, target) ==
  LET taken == {e \in OursIn(list) : IsManagedGrant(e, target) /\ subject \in e.subjects}
  IN (OursIn(list) \ taken)
     \cup {[e EXCEPT !.subjects = @ \ {subject}] : e \in {f \in taken : f.subjects # {subject}}}

(* Mutant of ConfirmGrant: what was written is taken for what is there.    *)
ConfirmUnread(before, after, subject, target) == Administer(before) \subseteq after

(* The read after the write shows the grant, every administrator and as    *)
(* many entries of other fabrics.                                          *)
ConfirmGrant(before, after, subject, target) ==
  /\ OursIn(after) # {} /\ Administer(before) \subseteq after
  /\ Cardinality(before \ OursIn(before)) = Cardinality(after \ OursIn(after))
  /\ Granted(after, subject, target)

-----------------------------------------------------------------------------
Source(w) == MSource[w.link]
Target(w) == MTarget[w.link]
Lamp(w) == TargetNode[MTarget[w.link]]
Within == mishaps < MaxMishaps

Go(n, w) == writer' = [writer EXCEPT ![n] = w]
Step(w, step) == [w EXCEPT !.step = step]
WriteList(w, step, list) == [w EXCEPT !.step = step, !.list = list]

(* The result is reported to the runner.                                   *)
End(n, w, result) ==
  /\ Go(n, [NoJob EXCEPT !.result = result])
  /\ kept' = kept \cup (IF w.adding /\ result = "applied" THEN {w.link} ELSE {})

Proceed(n, w) == Go(n, w) /\ UNCHANGED kept

(* _bind: a binding that failed gives back the grant written for it.       *)
BindFailed(n, w) ==
  IF w.written THEN Proceed(n, [w EXCEPT !.step = "revoke", !.result = "failed"])
  ELSE End(n, w, "failed")

(* Links that live on the grant a removal takes back: those of the node to *)
(* the target, from any of its controls.                                   *)
SharesGrant(l) ==
  {k \in MLinks : MTarget[k] = MTarget[l] /\ EndpointNode[MSource[k]] = EndpointNode[MSource[l]]}

(* async_add_link, async_remove_link.                                      *)
StartMatterWrite(l, adding) ==
  LET n == EndpointNode[MSource[l]]
      w == [NoJob EXCEPT !.step = "view", !.link = l, !.adding = adding]
      busy == {m \in Switches : writer[m].step # "idle" /\ Lamp(writer[m]) = Lamp(w)}
  IN
  /\ writer[n].step = "idle" /\ Within
  /\ mishaps' = mishaps + 1
  /\ kept' = IF adding THEN kept ELSE kept \ SharesGrant(l)
  /\ contended' = IF busy = {} THEN contended ELSE contended \cup {Lamp(w)}
  /\ Go(n, IF l \in Refused THEN [NoJob EXCEPT !.result = "blocked"] ELSE w)
  /\ UNCHANGED <<bindings, acl>>

(* The coroutine reads a list and decides.                                 *)
ReadSource(n, w) ==
  LET here == bindings[Source(w)] IN
  /\ w.step = "view"
  /\ CASE w.adding /\ Target(w) \in here -> End(n, w, "present")
       [] w.adding /\ Target(w) \notin here ->
            IF w.link \in Incapable \/ Cardinality(here) >= BindingTableCapacity
            THEN End(n, w, "blocked") ELSE Proceed(n, Step(w, "grant"))
       [] ~w.adding /\ Target(w) \in here -> Proceed(n, Step(w, "unbind"))
       [] OTHER -> Proceed(n, [w EXCEPT !.step = "revoke", !.result = "present"])

Grant(n, w) ==
  LET list == acl[Lamp(w)]  subject == EndpointNode[Source(w)]  target == Target(w) IN
  /\ w.step = "grant"
  /\ CASE MayNotWrite(list) -> End(n, w, "blocked")
       [] ~MayNotWrite(list) /\ Granted(list, subject, target) -> Proceed(n, Step(w, "bind"))
       [] OTHER ->
            \/ GrantFor(list, subject, target) = {} /\ End(n, w, "blocked")
            \/ \E after \in GrantFor(list, subject, target) :
                 Proceed(n, WriteList([w EXCEPT !.before = list], "granting", after))

Confirm(n, w) ==
  /\ w.step = "confirm"
  /\ IF ConfirmGrant(w.before, acl[Lamp(w)], EndpointNode[Source(w)], Target(w))
     THEN Proceed(n, [w EXCEPT !.step = "bind", !.written = TRUE])
     ELSE End(n, w, "failed")

(* The list is read again: others may have written while access was given. *)
BindRead(n, w) ==
  LET here == bindings[Source(w)] IN
  /\ w.step = "bind"
  /\ CASE Target(w) \in here /\ Cardinality(here) < BindingTableCapacity -> End(n, w, "present")
       [] Cardinality(here) >= BindingTableCapacity -> End(n, w, "blocked")
       [] OTHER -> Proceed(n, WriteList(w, "binding", here \cup {Target(w)}))

BindVerify(n, w) ==
  /\ w.step = "verify"
  /\ IF Target(w) \in bindings[Source(w)] THEN End(n, w, "applied") ELSE BindFailed(n, w)

UnbindRead(n, w) ==
  LET here == bindings[Source(w)] IN
  /\ w.step = "unbind"
  /\ Proceed(n, IF Target(w) \in here THEN WriteList(w, "unbinding", here \ {Target(w)})
                ELSE [w EXCEPT !.step = "revoke", !.result = "present"])

UnbindVerify(n, w) ==
  /\ w.step = "unverify"
  /\ IF Target(w) \in bindings[Source(w)] THEN End(n, w, "failed")
     ELSE Proceed(n, [w EXCEPT !.step = "revoke", !.result = "applied"])

Revoke(n, w) ==
  LET list == acl[Lamp(w)]
      narrowed == RevokeFor(list, EndpointNode[Source(w)], Target(w))
  IN
  /\ w.step = "revoke"
  /\ IF MayNotWrite(list) \/ narrowed = OursIn(list) THEN End(n, w, w.result)
     ELSE Proceed(n, WriteList(w, "revoking", narrowed))

Reading(n) ==
  LET w == writer[n] IN
  /\ \/ ReadSource(n, w) \/ Grant(n, w) \/ Confirm(n, w) \/ BindRead(n, w)
     \/ BindVerify(n, w) \/ UnbindRead(n, w) \/ UnbindVerify(n, w) \/ Revoke(n, w)
  /\ UNCHANGED <<bindings, acl, mishaps, contended>>

(* A write replaces the list; of an Access Control list, this fabric's     *)
(* part.                                                                   *)
Replace(w, landed) ==
  CASE ~landed -> UNCHANGED <<bindings, acl>>
    [] landed /\ w.step \in {"binding", "unbinding"} ->
         bindings' = [bindings EXCEPT ![Source(w)] = w.list] /\ UNCHANGED acl
    [] landed /\ w.step \in {"granting", "revoking"} ->
         acl' = [acl EXCEPT ![Lamp(w)] = (@ \ OursIn(@)) \cup w.list] /\ UNCHANGED bindings

Checking == [granting |-> "confirm", binding |-> "verify", unbinding |-> "unverify"]
WritingSteps == DOMAIN Checking \cup {"revoking"}

(* The write is answered; it may have been accepted and ignored.           *)
Writing(n, landed) ==
  LET w == writer[n] IN
  /\ w.step \in WritingSteps
  /\ Replace(w, landed)
  /\ IF landed THEN UNCHANGED mishaps ELSE Within /\ mishaps' = mishaps + 1
  /\ IF w.step = "revoking" THEN End(n, w, w.result)
     ELSE Proceed(n, Step(w, Checking[w.step]))
  /\ UNCHANGED contended

(* A read or a write raises, the write having landed or not.  A node that  *)
(* cannot be reached when the link is first looked at is tried later.      *)
Raises(n, landed) ==
  LET w == writer[n] IN
  /\ w.step # "idle" /\ Within
  /\ mishaps' = mishaps + 1
  /\ landed => w.step \in WritingSteps
  /\ Replace(w, landed)
  /\ CASE w.step = "view" -> \E r \in {"wakeup", "blocked", "failed"} : End(n, w, r)
       [] w.step \in {"bind", "binding", "verify"} -> BindFailed(n, w)
       [] w.step \in {"revoke", "revoking"} -> End(n, w, w.result)
       [] OTHER -> End(n, w, "failed")
  /\ UNCHANGED contended

(* Another controller binds one of the controls.                           *)
OtherBinds(c, t) ==
  /\ Within /\ t \notin bindings[c] /\ Cardinality(bindings[c]) < BindingTableCapacity
  /\ mishaps' = mishaps + 1
  /\ bindings' = [bindings EXCEPT ![c] = @ \cup {t}]
  /\ UNCHANGED <<acl, writer, kept, contended>>

MatterNext ==
  \/ \E l \in MLinks, adding \in BOOLEAN : StartMatterWrite(l, adding)
  \/ \E n \in Switches : Reading(n)
  \/ \E n \in Switches, landed \in BOOLEAN : Writing(n, landed) \/ Raises(n, landed)
  \/ \E c \in Endpoints, t \in Targets : OtherBinds(c, t)

MatterSpec == MatterInit /\ [][MatterNext]_matterVars

-----------------------------------------------------------------------------
MatterTypeOK ==
  /\ bindings \in [Endpoints -> SUBSET Targets]
  /\ \A n \in Lamps : acl[n] \subseteq AclEntry
  /\ \A n \in Switches : writer[n].step # "idle" => writer[n].link \in MLinks
  /\ mishaps \in 0..MaxMishaps /\ kept \subseteq MLinks /\ contended \subseteq Lamps

Linked(l) == MTarget[l] \in bindings[MSource[l]]
Allowed(l) == Granted(acl[TargetNode[MTarget[l]]], EndpointNode[MSource[l]], MTarget[l])
Acting(n) == writer'[n] # writer[n]

(* PRD E27, matter._bind: no step of a writer adds a binding whose target  *)
(* does not let the source in at that moment, whatever was refused,        *)
(* ignored or raised before, unless another writer is at that target.      *)
BindingFollowsGrant ==
  [][\A l \in MLinks :
       /\ ~Linked(l) /\ Linked(l)' /\ \E n \in Switches : Acting(n)
       /\ TargetNode[MTarget[l]] \notin contended
       => Allowed(l)]_matterVars

(* matter._revoke: a link that was written stays allowed while links of    *)
(* other sources that share its entry come and go, until somebody removes  *)
(* a link of its source to its target, and as long as no two writers have  *)
(* met at the target.                                                      *)
KeptLinksAllowed ==
  \A l \in kept : TargetNode[MTarget[l]] \notin contended => Allowed(l)

(* tests/test_matter_writes.py: a removal leaves another control's grant   *)
(* in place.  Here any other endpoint is another control.                  *)
OtherControlsKeepGrant ==
  [][\A l \in MLinks, n \in Switches :
       /\ Linked(l) /\ Allowed(l) /\ ~Allowed(l)'
       /\ Acting(n) /\ ~writer[n].adding
       => MSource[writer[n].link] = MSource[l]]_matterVars
=============================================================================
