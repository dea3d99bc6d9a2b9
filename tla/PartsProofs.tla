---------------------------- MODULE PartsProofs -----------------------------
(***************************************************************************)
(* Theorems about the store and its mirror, the hybrid legs and the        *)
(* reports, for every set of profiles, texts, rules and legs and every     *)
(* bound.                                                                  *)
(***************************************************************************)
EXTENDS Storage, Hybrid, Reports, FiniteSetTheorems, SequenceTheorems,
        WellFoundedInduction, NaturalsInduction, TLAPS

(***************************************************************************)
(* The store: edits are kept.  What is newest of the data a store has yet  *)
(* to write, is writing and has written is the state as it was last        *)
(* edited; without a crash or an unload in the seconds of the delay no     *)
(* other store has anything left to write over it.                         *)
(***************************************************************************)
Loaded(content) == IF content \in States THEN content ELSE EmptyState

StorageTyped ==
  /\ entry \in {"unloaded", "loaded", "refused"}
  /\ store \in 0..MaxStarts
  /\ state \in States /\ wish \in States
  /\ unsaved \in [Stores -> States \cup {Nothing}]
  /\ saving \in [Stores -> States \cup {Nothing}]

(* Of the stores only the coordinator's has anything to write. *)
OneWriter == \A s \in Stores : s # store => unsaved[s] = Nothing /\ saving[s] = Nothing

(* What it has is the state as it was last edited. *)
NewestIsWish ==
  /\ state = wish
  /\ store \in Stores
  /\ unsaved[store] # Nothing => unsaved[store] = wish
  /\ unsaved[store] = Nothing /\ saving[store] # Nothing => saving[store] = wish
  /\ unsaved[store] = Nothing /\ saving[store] = Nothing => Loaded(file) = wish

(* With no entry the file is, unless it is of another version. *)
FileIsWish == Kept(unsaved) /\ Kept(saving) /\ (Loaded(file) = wish \/ Unreadable)

KeptInv ==
  /\ StorageTyped
  /\ ~running => entry = "unloaded"
  /\ ~crashed /\ ~hurried =>
       IF entry = "loaded" THEN OneWriter /\ NewestIsWish ELSE FileIsWish

LEMMA KeptStart == StorageInit => KeptInv
<1> SUFFICES ASSUME StorageInit PROVE KeptInv  OBVIOUS
<1>1. EmptyState \in States
  BY DEF EmptyState, States, NoFiles, Contents
<1>2. wish \in States
  BY <1>1, StorageAssumption DEF StorageInit, States, Contents
<1>3. Nothing \notin States
  BY StorageAssumption DEF States, Contents
<1>4. StorageTyped
  BY <1>1, <1>2, StorageAssumption DEF StorageInit, StorageTyped
<1>5. FileIsWish
  BY <1>2, <1>3 DEF StorageInit, FileIsWish, Kept, Loaded
<1>6. QED  BY <1>4, <1>5 DEF StorageInit, KeptInv

(* A new state is kept by the save that it schedules. *)
LEMMA UpdateKeeps == ASSUME KeptInv, NEW new \in States, UpdateState(new) PROVE KeptInv'
<1>1. Nothing \notin States
  BY StorageAssumption DEF States, Contents
<1>2. /\ entry = "loaded" /\ state' = new /\ wish' = new
      /\ unsaved' = [unsaved EXCEPT ![store] = new]
      /\ UNCHANGED <<running, entry, store, saving, file, crashed, hurried>>
  BY DEF UpdateState, ScheduleSave
<1>3. StorageTyped'
  BY <1>2 DEF KeptInv, StorageTyped
<1>4. ASSUME ~crashed, ~hurried  PROVE OneWriter' /\ NewestIsWish'
  <2>1. OneWriter /\ NewestIsWish /\ unsaved \in [Stores -> States \cup {Nothing}]
    BY <1>2, <1>4 DEF KeptInv, StorageTyped
  <2>2. QED  BY <1>1, <1>2, <2>1 DEF OneWriter, NewestIsWish
<1>5. QED  BY <1>2, <1>3, <1>4 DEF KeptInv

Edits ==
  \/ \E p \in Profiles :
       \/ \E text \in Texts : \/ CreateProfile(p, text) \/ UpdateProfile(p, text)
                             \/ ImportProfile(p, text) \/ EditRule(p, text)
       \/ \E twin \in Profiles : DuplicateProfile(p, twin)
       \/ DeleteProfile(p) \/ ActivateProfile(p)
  \/ \E text \in Texts : SetRuleEnabled(text)

(* The commands make states of what is stored. *)
LEMMA EditsUpdate == ASSUME state \in States, Edits PROVE \E new \in States : UpdateState(new)
<1>1. \A p \in Profiles, text \in Texts \cup {NoProfile} : StoredWith(p, text) \in States
  BY DEF StoredWith, States, Contents
<1>2. \A p \in Profiles : state.profiles[p] \in Texts \cup {NoProfile}
  BY DEF States, Contents
<1>3. \A p \in Profiles : [state EXCEPT !.active = p] \in States
  BY DEF States
<1>4. \A p \in Profiles : [profiles |-> [state.profiles EXCEPT ![p] = NoProfile],
                          active |-> IF state.active = p THEN NoProfile ELSE state.active]
                           \in States
  BY DEF States, Contents
<1>5. QED
  BY <1>1, <1>2, <1>3, <1>4
  DEF Edits, CreateProfile, UpdateProfile, ImportProfile, EditRule, DuplicateProfile,
      DeleteProfile, ActivateProfile, SetRuleEnabled, ActiveProfiles, StoredProfiles

LEMMA EditsKeep == ASSUME KeptInv, Edits PROVE KeptInv'
BY EditsUpdate, UpdateKeeps DEF KeptInv, StorageTyped

(* A save that is due, and its end. *)
LEMMA SavesKeep ==
  ASSUME KeptInv, NEW s \in Stores, SaveDue(s) \/ Saved(s)
  PROVE  KeptInv'
<1>1. Nothing \notin States
  BY StorageAssumption DEF States, Contents
<1>2. UNCHANGED <<running, entry, store, state, wish, crashed, hurried>>
  BY DEF SaveDue, Saved
<1>3. unsaved \in [Stores -> States \cup {Nothing}] /\ saving \in [Stores -> States \cup {Nothing}]
  BY DEF KeptInv, StorageTyped
<1>4. StorageTyped'
  BY <1>2, <1>3 DEF SaveDue, Saved, KeptInv, StorageTyped
<1>5. CASE entry # "loaded" /\ ~crashed /\ ~hurried
  BY <1>5 DEF KeptInv, FileIsWish, Kept, SaveDue, Saved
<1>6. ASSUME entry = "loaded", ~crashed, ~hurried  PROVE OneWriter' /\ NewestIsWish'
  <2>1. OneWriter /\ NewestIsWish /\ wish \in States
    BY <1>6 DEF KeptInv, StorageTyped
  <2>2. s = store
    BY <2>1 DEF OneWriter, SaveDue, Saved
  <2>3. CASE SaveDue(s)
    BY <1>2, <1>3, <2>1, <2>2, <2>3 DEF SaveDue, OneWriter, NewestIsWish
  <2>4. CASE Saved(s)
    BY <1>2, <1>3, <2>1, <2>2, <2>4 DEF Saved, OneWriter, NewestIsWish, Loaded
  <2>5. QED  BY <2>3, <2>4
<1>7. QED  BY <1>2, <1>4, <1>5, <1>6 DEF KeptInv

(* Set-ups load what is stored; unloads and stops leave it stored. *)
LEMMA EntryKeeps ==
  ASSUME KeptInv, Setup \/ Unload \/ Stop \/ Crash \/ Start \/ PutFile
  PROVE  KeptInv'
<1>1. Nothing \notin States /\ EmptyState \in States
  BY StorageAssumption DEF States, Contents, EmptyState, NoFiles
<1>2. StorageTyped
  BY DEF KeptInv
<1>3. CASE Setup
  <2>1. StorageTyped'
    BY <1>1, <1>2, <1>3, StorageAssumption DEF Setup, stores, StorageTyped
  <2>2. ASSUME ~crashed, ~hurried
        PROVE  IF entry' = "loaded" THEN OneWriter' /\ NewestIsWish' ELSE FileIsWish'
    <3>1. FileIsWish /\ UNCHANGED <<unsaved, saving, file, wish>>
      BY <1>3, <2>2 DEF KeptInv, Setup, stores
    <3>2. CASE entry' = "refused"
      BY <3>1, <3>2 DEF FileIsWish, Kept, Unreadable
    <3>3. CASE entry' = "loaded"
      <4>1. ~Unreadable /\ state' = Loaded(file) /\ store' \in Stores
        BY <1>2, <1>3, <3>3, StorageAssumption DEF Setup, Loaded, StorageTyped, Stores
      <4>2. QED  BY <3>1, <3>3, <4>1 DEF FileIsWish, Kept, OneWriter, NewestIsWish
    <3>4. QED  BY <1>3, <3>2, <3>3 DEF Setup
  <2>3. QED  BY <1>3, <2>1, <2>2 DEF Setup, KeptInv
<1>4. CASE Unload
  <2>1. StorageTyped' /\ entry' = "unloaded" /\ running
    BY <1>2, <1>4 DEF Unload, EntryGone, stores, StorageTyped
  <2>2. ASSUME ~crashed, ~hurried'  PROVE FileIsWish'
    <3>1. Kept(unsaved) /\ Kept(saving) /\ ~hurried /\ UNCHANGED <<unsaved, saving, file, wish>>
      BY <1>4, <2>2 DEF Unload, EntryGone, stores
    <3>2. Loaded(file) = wish \/ Unreadable
      BY <2>2, <3>1 DEF KeptInv, NewestIsWish, FileIsWish, Kept
    <3>3. QED  BY <3>1, <3>2 DEF FileIsWish, Kept, Unreadable
  <2>3. QED  BY <1>4, <2>1, <2>2 DEF Unload, KeptInv
<1>5. CASE Stop \/ Crash
  <2>1. /\ StorageTyped' /\ entry' = "unloaded"
        /\ Kept(unsaved)' /\ Kept(saving)' /\ UNCHANGED wish
    BY <1>2, <1>5 DEF Stop, Crash, Forgotten, EntryGone, StorageTyped, Kept
  <2>2. ASSUME Stop, ~crashed, ~hurried  PROVE Loaded(file') = wish \/ file' = TooNew
    <3> DEFINE last == [s \in Stores |-> IF unsaved[s] # Nothing THEN unsaved[s] ELSE saving[s]]
    <3>1. \/ UNCHANGED file /\ \A s \in Stores : last[s] = Nothing
          \/ \E s \in Stores : last[s] # Nothing /\ file' = last[s]
      BY <2>2 DEF Stop, Kept
    <3>2. CASE entry = "loaded"
      <4>1. OneWriter /\ NewestIsWish
        BY <2>2, <3>2 DEF KeptInv
      <4>2. \A s \in Stores : last[s] # Nothing => last[s] = wish
        BY <4>1 DEF OneWriter, NewestIsWish
      <4>3. (\A s \in Stores : last[s] = Nothing) => Loaded(file) = wish
        BY <4>1 DEF NewestIsWish
      <4> HIDE DEF last
      <4>4. QED  BY <1>2, <3>1, <4>2, <4>3 DEF Loaded, StorageTyped
    <3>3. CASE entry # "loaded"
      <4>1. FileIsWish
        BY <2>2, <3>3 DEF KeptInv
      <4>2. QED  BY <3>1, <4>1 DEF FileIsWish, Kept, Unreadable
    <3>4. QED  BY <3>2, <3>3
  <2>3. ASSUME ~crashed', ~hurried'  PROVE FileIsWish'
    <3>1. Stop /\ ~crashed /\ ~hurried
      BY <1>5, <2>3 DEF Stop, Crash
    <3>2. QED  BY <2>1, <2>2, <3>1 DEF FileIsWish, Unreadable, Loaded
  <2>4. QED  BY <2>1, <2>3 DEF KeptInv
<1>6. CASE Start
  BY <1>2, <1>6 DEF Start, stores, KeptInv, StorageTyped, FileIsWish, Kept, Unreadable
<1>7. CASE PutFile
  <2>1. StorageTyped' /\ entry' = "unloaded" /\ ~running' /\ UNCHANGED <<unsaved, saving, crashed, hurried>>
    BY <1>2, <1>7, StorageAssumption DEF PutFile, StorageTyped, KeptInv, States, Contents
  <2>2. file' = TooNew \/ Loaded(file') = wish'
    BY <1>7, StorageAssumption DEF PutFile, Loaded, States, Contents
  <2>3. QED  BY <1>7, <2>1, <2>2 DEF PutFile, KeptInv, FileIsWish, Kept, Unreadable
<1>8. QED  BY <1>3, <1>4, <1>5, <1>6, <1>7

LEMMA KeptStep == KeptInv /\ [StorageNext]_storageVars => KeptInv'
<1> SUFFICES ASSUME KeptInv, [StorageNext]_storageVars PROVE KeptInv'  OBVIOUS
<1>1. ASSUME UNCHANGED <<running, entry, store, state, unsaved, saving, file, wish, crashed,
                         hurried>>
      PROVE  KeptInv'
  BY <1>1 DEF KeptInv, StorageTyped, OneWriter, NewestIsWish, FileIsWish, Kept, Unreadable
<1>2. CASE DeviceUpdate \/ FlushDue \/ Flushed \/ UNCHANGED storageVars
  BY <1>1, <1>2 DEF DeviceUpdate, FlushDue, Flushed, storageVars, stores
<1>3. QED  BY <1>2, EditsKeep, SavesKeep, EntryKeeps DEF StorageNext, Edits

(* An edit is lost to nothing but a crash, unless an entry is unloaded     *)
(* before its store has saved (storage.py, async_schedule_save).           *)
THEOREM EditsAreKept == StorageSpec => []EditsKept
<1>1. KeptInv => EditsKept  BY DEF KeptInv, NewestIsWish, EditsKept
<1>2. QED  BY <1>1, KeptStart, KeptStep, PTL DEF StorageSpec

----------------------------------------------------------------------------
(***************************************************************************)
(* The mirror: what it believes it has written is what its files say.      *)
(*                                                                         *)
(* A flush that an unload left behind still writes the files, under the    *)
(* mirror of the next entry.  It does no harm because that mirror has      *)
(* written nothing as long as the old flush is out: it waits for it.       *)
(***************************************************************************)
OldFlush == flushing # Nothing /\ flushing.by # store

MirrorInv ==
  /\ directory /\ ~broken /\ written # NoFiles => mirrored = written
  /\ directory /\ OldFlush => written = NoFiles
  /\ directory => entry = "loaded"

LEMMA MirrorStart == StorageInit => MirrorInv
BY DEF StorageInit, MirrorInv

LEMMA MirrorStep == MirrorInv /\ [StorageNext]_storageVars => MirrorInv'
<1> SUFFICES ASSUME MirrorInv, [StorageNext]_storageVars PROVE MirrorInv'  OBVIOUS
<1>1. ASSUME UNCHANGED <<directory, flushing, written, broken, mirrored, store, entry>>
      PROVE  MirrorInv'
  BY <1>1 DEF MirrorInv, OldFlush
<1>2. CASE Edits
  <2>1. \E new : UpdateState(new)
    BY <1>2 DEF Edits, CreateProfile, UpdateProfile, ImportProfile, EditRule, DuplicateProfile,
                DeleteProfile, ActivateProfile, SetRuleEnabled
  <2>2. UNCHANGED <<directory, flushing, written, broken, mirrored, store, entry>>
    BY <2>1 DEF UpdateState
  <2>3. QED  BY <1>1, <2>2
<1>3. CASE \/ DeviceUpdate \/ Start \/ PutFile \/ UNCHANGED storageVars
           \/ \E s \in Stores : SaveDue(s) \/ Saved(s)
  BY <1>1, <1>3 DEF DeviceUpdate, Start, PutFile, SaveDue, Saved, mirror, storageVars
<1>4. CASE FlushDue
  BY <1>4 DEF FlushDue, MirrorInv, OldFlush
<1>5. CASE Flushed
  BY <1>5 DEF Flushed, MirrorInv, OldFlush
<1>6. CASE Setup
  BY <1>6 DEF Setup, MirrorInv, OldFlush
<1>7. CASE Unload \/ Stop \/ Crash
  BY <1>7 DEF Unload, Stop, Crash, Forgotten, EntryGone, MirrorInv, OldFlush
<1>8. QED  BY <1>2, <1>3, <1>4, <1>5, <1>6, <1>7 DEF StorageNext, Edits

(* What the mirror believes to have written is what its files say,         *)
(* whatever was edited while a flush was writing, and whichever entry had   *)
(* begun the flush (see Flushed and Setup).                 *)
THEOREM MirrorIsRight == StorageSpec => []MirrorKnows
<1>1. MirrorInv => MirrorKnows  BY DEF MirrorInv, MirrorKnows
<1>2. QED  BY <1>1, MirrorStart, MirrorStep, PTL DEF StorageSpec

(* What is on or off. *)
OnOff ==
  /\ running \in BOOLEAN /\ directory \in BOOLEAN /\ armed \in BOOLEAN
  /\ broken \in BOOLEAN /\ crashed \in BOOLEAN /\ hurried \in BOOLEAN

LEMMA OnOffStep == OnOff /\ [StorageNext]_storageVars => OnOff'
<1> SUFFICES ASSUME OnOff, [StorageNext]_storageVars PROVE OnOff'
  OBVIOUS
<1>1. CASE Edits
  <2>1. PICK new : UpdateState(new)
    BY <1>1 DEF Edits, CreateProfile, UpdateProfile, ImportProfile, EditRule, DuplicateProfile,
                DeleteProfile, ActivateProfile, SetRuleEnabled
  <2>2. Noticed(new) /\ UNCHANGED <<running, directory, broken, crashed, hurried>>
    BY <2>1 DEF UpdateState
  <2>3. armed' \in BOOLEAN
    BY <2>2 DEF Noticed
  <2>4. QED  BY <2>2, <2>3 DEF OnOff
<1>2. CASE DeviceUpdate
  <2>1. Noticed(state) /\ UNCHANGED <<running, directory, broken, crashed, hurried>>
    BY <1>2 DEF DeviceUpdate
  <2>2. armed' \in BOOLEAN
    BY <2>1 DEF Noticed
  <2>3. QED  BY <2>1, <2>2 DEF OnOff
<1>3. CASE \/ PutFile \/ UNCHANGED storageVars
           \/ \E s \in Stores : SaveDue(s) \/ Saved(s)
  BY <1>3 DEF PutFile, storageVars, SaveDue, Saved, mirror, OnOff
<1>4. CASE FlushDue
  BY <1>4 DEF FlushDue, OnOff
<1>5. CASE Flushed
  <2>1. broken' \in BOOLEAN
    BY <1>5 DEF Flushed, OnOff
  <2>2. QED  BY <1>5, <2>1 DEF Flushed, OnOff
<1>6. CASE Setup
  <2>1. UNCHANGED <<running, crashed, hurried>>
    BY <1>6 DEF Setup
  <2>2. directory' \in BOOLEAN /\ broken' \in BOOLEAN
    BY <1>6 DEF Setup, OnOff
  <2>3. armed' \in BOOLEAN
    BY <1>6 DEF Setup, OnOff
  <2>4. QED  BY <2>1, <2>2, <2>3 DEF OnOff
<1>7. CASE Unload
  <2>1. UNCHANGED <<running, broken, crashed>> /\ directory' = FALSE /\ armed' = FALSE
    BY <1>7 DEF Unload, EntryGone
  <2>2. hurried' \in BOOLEAN
    BY <1>7 DEF Unload
  <2>3. QED  BY <2>1, <2>2 DEF OnOff
<1>8. CASE Stop \/ Crash
  <2>1. /\ UNCHANGED <<broken, hurried>> /\ running' = FALSE /\ directory' = FALSE /\ armed' = FALSE
        /\ crashed' \in {crashed, TRUE}
    BY <1>8 DEF Stop, Crash, Forgotten, EntryGone
  <2>2. QED  BY <2>1 DEF OnOff
<1>9. CASE Start
  <2>1. UNCHANGED <<directory, armed, broken, crashed, hurried>> /\ running' = TRUE
    BY <1>9 DEF Start, mirror
  <2>2. QED  BY <2>1 DEF OnOff
<1>10. QED
  BY <1>1, <1>2, <1>3, <1>4, <1>5, <1>6, <1>7, <1>8, <1>9 DEF StorageNext, Edits

(* What is being written; and what has a flush to do has been set up.      *)
FilesTyped ==
  /\ file \in States \cup {Nothing, TooNew}
  /\ flushing \in [by : Stores, files : Contents] \cup {Nothing}
  /\ written \in Contents /\ mirrored \in Contents /\ edits \in 0..MaxEdits
  /\ armed \/ directory => store \in Stores

LEMMA FilesStart == StorageInit => OnOff /\ FilesTyped
<1> SUFFICES ASSUME StorageInit PROVE OnOff /\ FilesTyped
  OBVIOUS
<1>1. EmptyState \in States /\ NoFiles \in Contents
  BY DEF EmptyState, States, NoFiles, Contents
<1>2. Backups \subseteq States
  BY StorageAssumption DEF States, Contents
<1>3. wish \in States /\ file \in States \cup {Nothing}
  BY <1>1, <1>2 DEF StorageInit
<1>4. wish.profiles \in Contents
  BY <1>3 DEF States
<1>5. mirrored \in Contents /\ written \in Contents
  BY <1>1, <1>4 DEF StorageInit
<1>6. OnOff
  BY DEF StorageInit, OnOff
<1>7. FilesTyped
  BY <1>3, <1>5, StorageAssumption DEF StorageInit, FilesTyped
<1>8. QED  BY <1>6, <1>7

LEMMA FilesStep == KeptInv /\ FilesTyped /\ [StorageNext]_storageVars => FilesTyped'
<1> SUFFICES ASSUME KeptInv, FilesTyped, [StorageNext]_storageVars PROVE FilesTyped'
  OBVIOUS
<1>1. /\ state \in States /\ store \in 0..MaxStarts
      /\ unsaved \in [Stores -> States \cup {Nothing}]
      /\ saving \in [Stores -> States \cup {Nothing}]
  BY DEF KeptInv, StorageTyped
<1>2. CASE Edits \/ DeviceUpdate
  <2>1. PICK new : UpdateState(new) \/ DeviceUpdate
    BY <1>2 DEF Edits, CreateProfile, UpdateProfile, ImportProfile, EditRule, DuplicateProfile,
                DeleteProfile, ActivateProfile, SetRuleEnabled
  <2>2. UNCHANGED <<file, flushing, written, mirrored, store, directory>>
    BY <2>1 DEF UpdateState, DeviceUpdate, stores
  <2>3. edits' \in 0..MaxEdits
    <3>1. edits' = edits \/ (edits < MaxEdits /\ edits' = edits + 1)
      BY <2>1 DEF UpdateState, DeviceUpdate
    <3>2. QED  BY <3>1, StorageAssumption DEF FilesTyped
  <2>4. armed' => armed \/ directory
    <3>1. Noticed(new) \/ Noticed(state)
      BY <2>1 DEF UpdateState, DeviceUpdate
    <3>2. QED  BY <3>1 DEF Noticed
  <2>5. QED  BY <2>2, <2>3, <2>4 DEF FilesTyped
<1>3. CASE Start \/ UNCHANGED storageVars
  BY <1>3 DEF Start, storageVars, stores, mirror, FilesTyped
<1>4. ASSUME NEW s \in Stores, SaveDue(s) \/ Saved(s)  PROVE FilesTyped'
  <2>1. file' \in States \cup {Nothing, TooNew}
    BY <1>1, <1>4 DEF SaveDue, Saved, FilesTyped
  <2>2. UNCHANGED <<flushing, written, mirrored, edits, armed, directory, store>>
    BY <1>4 DEF SaveDue, Saved, mirror
  <2>3. QED  BY <2>1, <2>2 DEF FilesTyped
<1>5. CASE FlushDue
  <2>1. store \in Stores /\ state.profiles \in Contents
    BY <1>1, <1>5 DEF FlushDue, FilesTyped, States
  <2>2. flushing' \in [by : Stores, files : Contents]
    BY <1>5, <2>1 DEF FlushDue
  <2>3. UNCHANGED <<file, written, mirrored, edits, directory, store>>
    BY <1>5 DEF FlushDue, stores
  <2>4. QED  BY <2>1, <2>2, <2>3 DEF FilesTyped
<1>6. CASE Flushed
  <2>1. flushing.files \in Contents /\ mirrored \in Contents /\ written \in Contents
    BY <1>6 DEF Flushed, FilesTyped
  <2>2. \A part \in SUBSET Profiles :
          [p \in Profiles |-> IF p \in part THEN flushing.files[p] ELSE mirrored[p]] \in Contents
    BY <2>1 DEF Contents
  <2>3. mirrored' \in Contents /\ written' \in Contents
    BY <1>6, <2>1, <2>2 DEF Flushed
  <2>4. flushing' = Nothing /\ UNCHANGED <<file, edits, armed, directory, store>>
    BY <1>6 DEF Flushed, stores
  <2>5. QED  BY <2>3, <2>4 DEF FilesTyped
<1>7. CASE Setup
  <2>1. NoFiles \in Contents
    BY DEF NoFiles, Contents
  <2>2. store' \in Stores
    BY <1>1, <1>7, StorageAssumption DEF Setup, Stores
  <2>3. written' \in Contents /\ UNCHANGED <<file, flushing, mirrored, edits>>
    BY <1>7, <2>1 DEF Setup, stores, FilesTyped
  <2>4. QED  BY <2>2, <2>3 DEF FilesTyped
<1>8. CASE Unload
  <2>1. /\ UNCHANGED <<file, flushing, written, mirrored, edits>>
        /\ directory' = FALSE /\ armed' = FALSE
    BY <1>8 DEF Unload, EntryGone, stores
  <2>2. QED  BY <2>1 DEF FilesTyped
<1>9. CASE Stop \/ Crash
  <2>1. file' \in States \cup {Nothing, TooNew}
    <3>1. CASE Stop
      <4> DEFINE last == [s \in Stores |-> IF unsaved[s] # Nothing THEN unsaved[s] ELSE saving[s]]
      <4>1. \A s \in Stores : last[s] \in States \cup {Nothing}
        BY <1>1
      <4>2. file' = file \/ \E s \in Stores : file' = last[s]
        BY <3>1 DEF Stop
      <4> HIDE DEF last
      <4>3. QED  BY <4>1, <4>2 DEF FilesTyped
    <3>2. CASE Crash
      BY <1>1, <3>2 DEF Crash, FilesTyped
    <3>3. QED  BY <1>9, <3>1, <3>2
  <2>2. mirrored' \in Contents
    BY <1>9 DEF Stop, Crash, FilesTyped
  <2>3. /\ flushing' = Nothing /\ UNCHANGED written /\ directory' = FALSE /\ armed' = FALSE
        /\ edits' \in 0..MaxEdits
    BY <1>9, StorageAssumption DEF Stop, Crash, Forgotten, EntryGone, FilesTyped
  <2>4. QED  BY <2>1, <2>2, <2>3 DEF FilesTyped
<1>10. CASE PutFile
  <2>1. file' \in States \cup {Nothing, TooNew}
    BY <1>10, StorageAssumption DEF PutFile, States, Contents
  <2>2. /\ UNCHANGED <<flushing, written, mirrored, armed, directory, store>>
        /\ edits' \in 0..MaxEdits
    BY <1>10, StorageAssumption DEF PutFile, mirror, FilesTyped
  <2>3. QED  BY <2>1, <2>2 DEF FilesTyped
<1>11. QED
  BY <1>2, <1>3, <1>4, <1>5, <1>6, <1>7, <1>8, <1>9, <1>10 DEF StorageNext, Edits

(* The store, the mirror and the entry: what is stored, on its way to the  *)
(* file or being mirrored is always a state as a whole.                    *)
THEOREM StoreTyped == StorageSpec => []StorageTypeOK
<1>1. KeptInv /\ OnOff /\ FilesTyped => StorageTypeOK
  BY DEF KeptInv, StorageTyped, OnOff, FilesTyped, StorageTypeOK
<1>2. QED
  BY <1>1, KeptStart, KeptStep, FilesStart, FilesStep, OnOffStep, PTL DEF StorageSpec

----------------------------------------------------------------------------
(***************************************************************************)
(* The hybrid legs: a button shows its light, and is left as it was found. *)
(*                                                                         *)
(* A button shows what its last write said.  So what has to be known of a  *)
(* leg is that the last write in its queue says what is wanted, or, when   *)
(* the queue is empty, that what was taken last is what is wanted; and     *)
(* that what counts as taken is of a write of this leg's, with nothing     *)
(* behind it in the queue but writes of this leg's.  A button is put back  *)
(* to what was read before its first write, and no write of a leg begins   *)
(* before the read; a restore stands before every write of the leg's next  *)
(* life.                                                                   *)
(***************************************************************************)
LegType ==
  [running : BOOLEAN, watching : BOOLEAN, wanted : Shown, written : Shown, recent : BOOLEAN,
   armed : BOOLEAN, original : Shown, tasks : Seq(Tasks), failed : BOOLEAN, dropped : BOOLEAN,
   spoilt : BOOLEAN]

OwnWrite(task) == task.do = "write" /\ task.mine

(* What a leg knows of its light, which is on or off. *)
Watches(s, on) ==
  /\ s.watching => s.running /\ s.wanted = on
  /\ ~s.watching => s.wanted = NoValue /\ ~s.armed

(* The queue: nothing of an earlier life behind a write of this one.       *)
InLine(s) ==
  /\ \A i, j \in DOMAIN s.tasks :
       i < j /\ OwnWrite(s.tasks[i]) => OwnWrite(s.tasks[j])
  /\ s.written # NoValue => \A i \in DOMAIN s.tasks : OwnWrite(s.tasks[i])
  /\ ~s.running => s.written = NoValue /\ \A i \in DOMAIN s.tasks : ~OwnWrite(s.tasks[i])

(* What is taken is shown. *)
Taken(s, shown) == s.written # NoValue /\ ~s.failed => s.written = shown

(* What is wanted is taken, or last in line. *)
LastSays(s) ==
  s.watching /\ ~s.armed /\ ~s.dropped =>
    IF s.tasks = <<>> THEN s.failed \/ s.written = s.wanted
    ELSE OwnWrite(s.tasks[Len(s.tasks)]) /\ s.tasks[Len(s.tasks)].lit = s.wanted

(* What the owner had is shown, or read, or about to be put back.          *)
PutsBack(s, shown, owned) ==
  ~s.spoilt =>
    /\ s.original # NoValue => s.original = owned
    /\ \A i \in DOMAIN s.tasks :
         IF s.tasks[i].do = "write" THEN s.tasks[i].mine /\ (s.tasks[i].begun => s.original # NoValue)
         ELSE s.tasks[i].lit = owned
    /\ ~s.running => s.original = NoValue
    /\ s.original = NoValue /\ (\A i \in DOMAIN s.tasks : s.tasks[i].do = "write") => shown = owned

Core(s, shown, owned) ==
  s \in LegType /\ InLine(s) /\ Taken(s, shown) /\ PutsBack(s, shown, owned)

LegInv(s, on, shown, owned) == Core(s, shown, owned) /\ Watches(s, on) /\ LastSays(s)

HybridInv ==
  /\ led \subseteq Buttons /\ leg \in [Buttons -> LegType]
  /\ hybridUp => \A b \in Buttons : LegInv(leg[b], IsOn(b), b \in led, b \in owners)
  /\ ~hybridUp =>
       \A b \in Buttons : ~leg[b].running /\ ~leg[b].watching /\ ~leg[b].armed /\ leg[b].tasks = <<>>

LEMMA Typed ==
  /\ NoValue \notin BOOLEAN /\ BOOLEAN \subseteq Shown
  /\ \A value \in BOOLEAN : Write(value) \in Tasks /\ Restore(value) \in Tasks
BY HybridAssumption DEF Shown, Tasks, Write, Restore

(* The queue without its head. *)
LEMMA TailOf ==
  ASSUME NEW queue \in Seq(Tasks), queue # <<>>
  PROVE  /\ Head(queue) \in Tasks /\ Tail(queue) \in Seq(Tasks)
         /\ 1 \in DOMAIN queue /\ queue[1] = Head(queue)
         /\ Len(queue) \in Nat /\ DOMAIN queue = 1..Len(queue)
         /\ Len(Tail(queue)) = Len(queue) - 1 /\ DOMAIN Tail(queue) = 1..Len(queue) - 1
         /\ \A i \in DOMAIN Tail(queue) :
              i + 1 \in DOMAIN queue /\ Tail(queue)[i] = queue[i + 1] /\ i + 1 > 1
         /\ Tail(queue) = <<>> => Len(queue) = 1
         /\ Tail(queue) # <<>> => Len(queue) - 1 \in DOMAIN Tail(queue)
<1>1. /\ Len(queue) \in Nat /\ Len(queue) # 0 /\ DOMAIN queue = 1..Len(queue)
      /\ Head(queue) = queue[1] /\ Tail(queue) \in Seq(Tasks)
      /\ Len(Tail(queue)) = Len(queue) - 1
  OBVIOUS
<1>2. Head(queue) \in Tasks /\ 1 \in DOMAIN queue
  BY <1>1
<1>3. DOMAIN Tail(queue) = 1..Len(queue) - 1
  BY <1>1
<1>4. \A i \in DOMAIN Tail(queue) :
        i + 1 \in DOMAIN queue /\ Tail(queue)[i] = queue[i + 1] /\ i + 1 > 1
  <2>1. ASSUME NEW i \in 1..Len(queue) - 1
        PROVE  i + 1 \in 1..Len(queue) /\ i + 1 > 1 /\ Tail(queue)[i] = queue[i + 1]
    BY <1>1
  <2>2. QED  BY <1>1, <1>3, <2>1
<1>5. Tail(queue) = <<>> => Len(queue) = 1
  <2>1. ASSUME Tail(queue) = <<>> PROVE Len(Tail(queue)) = Len(<<>>)
    BY <2>1
  <2>2. Len(<<>>) = 0
    OBVIOUS
  <2>3. QED  BY <1>1, <2>1, <2>2
<1>6. Tail(queue) # <<>> => Len(queue) - 1 \in DOMAIN Tail(queue)
  BY <1>1, <1>3
<1>7. QED  BY <1>1, <1>2, <1>3, <1>4, <1>5, <1>6

LEMMA QueuedFields ==
  ASSUME NEW s \in LegType, NEW task \in Tasks
  PROVE  LET r == Queued(s, task)
         IN /\ r \in LegType /\ r.running = s.running /\ r.watching = s.watching
            /\ r.wanted = s.wanted /\ r.written = s.written /\ r.armed = s.armed
            /\ r.original = s.original /\ r.tasks = Append(s.tasks, task)
            /\ r.failed = s.failed /\ r.dropped = s.dropped /\ r.spoilt = s.spoilt
<1> DEFINE tasks == Append(s.tasks, task)
<1>1. tasks \in Seq(Tasks)
  BY DEF LegType
<1> HIDE DEF tasks
<1>2. Queued(s, task) = [s EXCEPT !.tasks = tasks]
  BY DEF Queued, tasks
<1>3. QED  BY <1>1, <1>2 DEF LegType, tasks

(* Another write in line. *)
LEMMA WriteNowKeeps ==
  ASSUME NEW on \in BOOLEAN, NEW shown \in BOOLEAN, NEW owned \in BOOLEAN,
         NEW s, Core(s, shown, owned), s.running, s.watching, s.wanted = on, ~s.armed
  PROVE  LegInv(WriteIndicationNow(s), on, shown, owned)
<1>1. s \in LegType
  BY DEF Core
<1>2. CASE s.wanted = s.written
  <2> DEFINE r == [s EXCEPT !.dropped = s.tasks # <<>>]
  <2>1. /\ r \in LegType /\ r.running = s.running /\ r.watching = s.watching
        /\ r.wanted = s.wanted /\ r.written = s.written /\ r.armed = s.armed
        /\ r.original = s.original /\ r.tasks = s.tasks /\ r.failed = s.failed
        /\ r.dropped = (s.tasks # <<>>) /\ r.spoilt = s.spoilt
    BY <1>1 DEF LegType
  <2>2. WriteIndicationNow(s) = r
    BY <1>2 DEF WriteIndicationNow
  <2> HIDE DEF r
  <2>3. Core(r, shown, owned)
    BY <2>1 DEF Core, InLine, Taken, PutsBack
  <2>4. Watches(r, on) /\ LastSays(r)
    BY <1>2, <2>1 DEF Watches, LastSays
  <2>5. QED  BY <2>2, <2>3, <2>4 DEF LegInv
<1>3. CASE s.wanted # s.written
  <2> DEFINE task == Write(on)
             r == Queued([s EXCEPT !.recent = TRUE, !.dropped = FALSE], task)
  <2>1. /\ task \in Tasks /\ OwnWrite(task) /\ task.do = "write" /\ task.mine
        /\ task.lit = on /\ ~task.begun
    BY Typed DEF Write, OwnWrite
  <2> HIDE DEF task
  <2>2. /\ r \in LegType /\ r.running = s.running /\ r.watching = s.watching
        /\ r.wanted = s.wanted /\ r.written = s.written /\ r.armed = s.armed
        /\ r.original = s.original /\ r.tasks = Append(s.tasks, task) /\ r.failed = s.failed
        /\ r.dropped = FALSE /\ r.spoilt = s.spoilt
    <3> DEFINE x == [s EXCEPT !.recent = TRUE, !.dropped = FALSE]
    <3>1. /\ x \in LegType /\ x.running = s.running /\ x.watching = s.watching
          /\ x.wanted = s.wanted /\ x.written = s.written /\ x.armed = s.armed
          /\ x.original = s.original /\ x.tasks = s.tasks /\ x.failed = s.failed
          /\ x.dropped = FALSE /\ x.spoilt = s.spoilt
      BY <1>1 DEF LegType
    <3>2. r = Queued(x, task)
      OBVIOUS
    <3> HIDE DEF x, r
    <3>3. QED  BY <2>1, <3>1, <3>2, QueuedFields
  <2>3. WriteIndicationNow(s) = r
    BY <1>3 DEF WriteIndicationNow, task
  <2> HIDE DEF r
  <2>4. /\ s.tasks \in Seq(Tasks) /\ Len(r.tasks) = Len(s.tasks) + 1 /\ r.tasks # <<>>
        /\ DOMAIN s.tasks = 1..Len(s.tasks) /\ DOMAIN r.tasks = 1..Len(s.tasks) + 1
        /\ Len(s.tasks) \in Nat
        /\ \A i \in DOMAIN s.tasks : r.tasks[i] = s.tasks[i]
        /\ r.tasks[Len(s.tasks) + 1] = task
    BY <1>1, <2>1, <2>2 DEF LegType
  <2>5. \A i \in DOMAIN r.tasks : i \in DOMAIN s.tasks \/ r.tasks[i] = task
    BY <2>4
  <2>6. InLine(r)
    <3>1. ASSUME NEW i \in DOMAIN r.tasks, NEW j \in DOMAIN r.tasks, i < j, OwnWrite(r.tasks[i])
          PROVE  OwnWrite(r.tasks[j])
      BY <2>1, <2>4, <2>5, <3>1 DEF Core, InLine
    <3>2. QED  BY <2>1, <2>2, <2>4, <2>5, <3>1 DEF Core, InLine
  <2>7. PutsBack(r, shown, owned)
    BY <2>1, <2>2, <2>4, <2>5 DEF Core, PutsBack
  <2>8. Taken(r, shown) /\ Watches(r, on) /\ LastSays(r)
    BY <2>1, <2>2, <2>4 DEF Core, Taken, Watches, LastSays
  <2>9. QED  BY <2>2, <2>3, <2>6, <2>7, <2>8 DEF LegInv, Core
<1>4. QED  BY <1>2, <1>3

(* A wish is taken in: at once, or by the timer. *)
LEMMA WantKeeps ==
  ASSUME NEW on \in BOOLEAN, NEW shown \in BOOLEAN, NEW owned \in BOOLEAN,
         NEW s, Core(s, shown, owned), s.running, s.watching, s.wanted = on => LastSays(s)
  PROVE  LegInv(WantIndication(s, on), on, shown, owned)
<1>1. s \in LegType
  BY DEF Core
<1>2. CASE s.wanted = on
  <2>1. WantIndication(s, on) = s
    BY <1>2 DEF WantIndication
  <2>2. QED  BY <1>2, <2>1 DEF LegInv, Watches
<1>3. CASE s.wanted # on
  <2> DEFINE r == [s EXCEPT !.wanted = on]
             q == [r EXCEPT !.armed = TRUE]
  <2>1. /\ r \in LegType /\ r.running = s.running /\ r.watching = s.watching
        /\ r.wanted = on /\ r.written = s.written /\ r.armed = s.armed
        /\ r.original = s.original /\ r.tasks = s.tasks /\ r.failed = s.failed
        /\ r.dropped = s.dropped /\ r.spoilt = s.spoilt
    BY <1>1, Typed DEF LegType
  <2>2. /\ q \in LegType /\ q.running = s.running /\ q.watching = s.watching
        /\ q.wanted = on /\ q.written = s.written /\ q.armed = TRUE
        /\ q.original = s.original /\ q.tasks = s.tasks /\ q.failed = s.failed
        /\ q.dropped = s.dropped /\ q.spoilt = s.spoilt
    BY <1>1, Typed DEF LegType
  <2>3. WantIndication(s, on) = IF s.armed \/ s.recent THEN q ELSE WriteIndicationNow(r)
    BY <1>3 DEF WantIndication
  <2> HIDE DEF r, q
  <2>4. Core(r, shown, owned) /\ Core(q, shown, owned)
    BY <2>1, <2>2 DEF Core, InLine, Taken, PutsBack
  <2>5. LegInv(q, on, shown, owned)
    BY <2>2, <2>4 DEF LegInv, Watches, LastSays
  <2>6. ~(s.armed \/ s.recent) => LegInv(WriteIndicationNow(r), on, shown, owned)
    BY <2>1, <2>4, WriteNowKeeps
  <2>7. QED  BY <2>3, <2>5, <2>6
<1>4. QED  BY <1>2, <1>3

(* A leg that watches nothing begins to watch, when there is something.    *)
LEMMA WatchKeeps ==
  ASSUME NEW on \in BOOLEAN, NEW shown \in BOOLEAN, NEW owned \in BOOLEAN, NEW known \in BOOLEAN,
         NEW s, Core(s, shown, owned), s.running, ~s.watching, s.wanted = NoValue, ~s.armed
  PROVE  LegInv(WatchTarget(s, known, on), on, shown, owned)
<1>1. s \in LegType
  BY DEF Core
<1>2. CASE ~known
  BY <1>2 DEF WatchTarget, LegInv, Watches, LastSays
<1>3. CASE known
  <2> DEFINE r == [s EXCEPT !.watching = TRUE]
  <2>1. /\ r \in LegType /\ r.running = s.running /\ r.watching
        /\ r.wanted = s.wanted /\ r.written = s.written /\ r.armed = s.armed
        /\ r.original = s.original /\ r.tasks = s.tasks /\ r.failed = s.failed
        /\ r.dropped = s.dropped /\ r.spoilt = s.spoilt
    BY <1>1 DEF LegType
  <2>2. WatchTarget(s, known, on) = WantIndication(r, on)
    BY <1>3 DEF WatchTarget
  <2> HIDE DEF r
  <2>3. Core(r, shown, owned) /\ r.wanted # on
    BY <2>1, Typed DEF Core, InLine, Taken, PutsBack
  <2>4. QED  BY <2>1, <2>2, <2>3, WantKeeps
<1>4. QED  BY <1>2, <1>3

(* What it heard of its light is forgotten. *)
LEMMA UnheardKeeps ==
  ASSUME NEW s, NEW shown \in BOOLEAN, NEW owned \in BOOLEAN, Core(s, shown, owned)
  PROVE  LET r == Unheard(s)
         IN /\ Core(r, shown, owned) /\ ~r.watching /\ ~r.armed /\ r.wanted = NoValue
            /\ r.written = NoValue /\ r.running = s.running /\ r.tasks = s.tasks
            /\ r.original = s.original /\ r.spoilt = s.spoilt
<1> DEFINE r == Unheard(s)
<1>1. s \in LegType
  BY DEF Core
<1>2. /\ r \in LegType /\ r.running = s.running /\ ~r.watching
      /\ r.wanted = NoValue /\ r.written = NoValue /\ ~r.armed
      /\ r.original = s.original /\ r.tasks = s.tasks /\ r.failed = s.failed
      /\ r.dropped = s.dropped /\ r.spoilt = s.spoilt
  BY <1>1 DEF LegType, Unheard, Shown
<1> HIDE DEF r
<1>3. Core(r, shown, owned)
  BY <1>2 DEF Core, InLine, Taken, PutsBack
<1>4. QED  BY <1>2, <1>3 DEF r

(* A leg ends: what its owner had is to be put back. *)
LEMMA RetireKeeps ==
  ASSUME NEW on \in BOOLEAN, NEW shown \in BOOLEAN, NEW owned \in BOOLEAN,
         NEW s, LegInv(s, on, shown, owned), s.running
  PROVE  LegInv(Retire(s), on, shown, owned)
<1> DEFINE old == [i \in DOMAIN s.tasks |-> [s.tasks[i] EXCEPT !.mine = FALSE]]
           left == [Unheard(s) EXCEPT !.running = FALSE, !.recent = FALSE, !.original = NoValue,
                                      !.dropped = FALSE, !.spoilt = @ \/ UnderWay(s),
                                      !.tasks = [i \in DOMAIN @ |-> [@[i] EXCEPT !.mine = FALSE]]]
<1>1. /\ Core(s, shown, owned) /\ s \in LegType /\ s.tasks \in Seq(Tasks)
      /\ Len(s.tasks) \in Nat /\ DOMAIN s.tasks = 1..Len(s.tasks)
  BY DEF LegInv, Core, LegType
<1>2. \A i \in DOMAIN s.tasks :
        /\ old[i] \in Tasks /\ ~old[i].mine
        /\ old[i].do = s.tasks[i].do /\ old[i].lit = s.tasks[i].lit
  <2>1. \A t \in Tasks : LET u == [t EXCEPT !.mine = FALSE]
                         IN u \in Tasks /\ ~u.mine /\ u.do = t.do /\ u.lit = t.lit
    BY DEF Tasks
  <2>2. \A i \in DOMAIN s.tasks : s.tasks[i] \in Tasks /\ old[i] = [s.tasks[i] EXCEPT !.mine = FALSE]
    BY <1>1
  <2> HIDE DEF old
  <2>3. QED  BY <2>1, <2>2
<1>3. old \in Seq(Tasks) /\ DOMAIN old = DOMAIN s.tasks /\ Len(old) = Len(s.tasks)
  <2>1. old \in [1..Len(s.tasks) -> Tasks]
    BY <1>1, <1>2
  <2>2. QED  BY <1>1, <2>1
<1> HIDE DEF old
<1>4. /\ left \in LegType /\ ~left.running /\ ~left.watching /\ left.wanted = NoValue
      /\ left.written = NoValue /\ ~left.armed /\ left.original = NoValue /\ left.tasks = old
      /\ left.spoilt = (s.spoilt \/ UnderWay(s))
  <2> DEFINE u == Unheard(s)
  <2>1. /\ u \in LegType /\ u.tasks = s.tasks /\ u.spoilt = s.spoilt /\ ~u.watching
        /\ u.wanted = NoValue /\ u.written = NoValue /\ ~u.armed
    BY <1>1, UnheardKeeps DEF Core
  <2> DEFINE spoilt == s.spoilt \/ UnderWay(s)
  <2>2. spoilt \in BOOLEAN
    BY <1>1 DEF UnderWay, LegType
  <2>3. left = [u EXCEPT !.running = FALSE, !.recent = FALSE, !.original = NoValue,
                         !.dropped = FALSE, !.spoilt = spoilt, !.tasks = old]
    BY <2>1 DEF LegType, old
  <2>a. left.spoilt = spoilt => left.spoilt = (s.spoilt \/ UnderWay(s))
    OBVIOUS
  <2> HIDE DEF spoilt, left, u
  <2>4. /\ left \in LegType /\ ~left.running /\ left.watching = u.watching
        /\ left.wanted = u.wanted /\ left.written = u.written /\ left.armed = u.armed
        /\ left.original = NoValue /\ left.tasks = old /\ left.spoilt = spoilt
    BY <1>3, <2>1, <2>2, <2>3 DEF LegType, Shown
  <2>5. QED  BY <2>1, <2>4, <2>a
<1> HIDE DEF left
<1>5. /\ PutsBack(s, shown, owned)
      /\ ~left.spoilt => ~s.spoilt /\ \A i \in DOMAIN s.tasks : s.tasks[i].do # "write"
  BY <1>1, <1>4 DEF Core, UnderWay, LegType
<1>6. CASE s.original = NoValue
  <2>1. Retire(s) = left
    BY <1>6 DEF Retire, left
  <2>2. InLine(left) /\ Taken(left, shown) /\ Watches(left, on) /\ LastSays(left)
    BY <1>2, <1>3, <1>4 DEF InLine, Taken, Watches, LastSays, OwnWrite
  <2>3. PutsBack(left, shown, owned)
    BY <1>2, <1>3, <1>4, <1>5, <1>6 DEF PutsBack
  <2>4. QED  BY <1>4, <2>1, <2>2, <2>3 DEF LegInv, Core
<1>7. CASE s.original # NoValue
  <2> DEFINE task == Restore(s.original)
             r == Queued(left, task)
  <2>1. /\ task \in Tasks /\ task.do = "restore" /\ task.lit = s.original
    BY <1>1, <1>7, Typed DEF Restore, LegType, Shown
  <2>2. Retire(s) = r
    BY <1>7 DEF Retire, left
  <2> HIDE DEF task
  <2>3. /\ r \in LegType /\ ~r.running /\ ~r.watching /\ r.wanted = NoValue
        /\ r.written = NoValue /\ ~r.armed /\ r.original = NoValue
        /\ r.tasks = Append(old, task) /\ r.spoilt = left.spoilt
    BY <1>4, <2>1, QueuedFields
  <2> HIDE DEF r
  <2>4. /\ DOMAIN r.tasks = 1..Len(s.tasks) + 1
        /\ \A i \in DOMAIN s.tasks : r.tasks[i] = old[i]
        /\ r.tasks[Len(s.tasks) + 1] = task
    BY <1>1, <1>3, <2>1, <2>3
  <2>5. \A i \in DOMAIN r.tasks : i \in DOMAIN s.tasks \/ (r.tasks[i] = task)
    BY <1>1, <2>4
  <2>6. \A i \in DOMAIN r.tasks : ~OwnWrite(r.tasks[i])
    BY <1>2, <2>1, <2>4, <2>5 DEF OwnWrite
  <2>7. InLine(r) /\ Taken(r, shown) /\ Watches(r, on) /\ LastSays(r)
    BY <2>3, <2>6 DEF InLine, Taken, Watches, LastSays
  <2>8. PutsBack(r, shown, owned)
    <3>1. SUFFICES ASSUME ~r.spoilt PROVE PutsBack(r, shown, owned)
      BY DEF PutsBack
    <3>2. \A i \in DOMAIN r.tasks : r.tasks[i].do # "write" /\ r.tasks[i].lit = owned
      BY <1>2, <1>5, <1>7, <2>1, <2>3, <2>4, <2>5, <3>1 DEF PutsBack
    <3>3. Len(s.tasks) + 1 \in DOMAIN r.tasks
      BY <1>1, <2>4
    <3>4. QED  BY <2>3, <3>2, <3>3 DEF PutsBack
  <2>9. QED  BY <2>2, <2>3, <2>7, <2>8 DEF LegInv, Core
<1>8. QED  BY <1>6, <1>7

(* Every leg is looked at again. *)
LEMMA ResyncKeeps ==
  ASSUME NEW on \in BOOLEAN, NEW shown \in BOOLEAN, NEW owned \in BOOLEAN,
         NEW wanted \in BOOLEAN, NEW known \in BOOLEAN, NEW s, LegInv(s, on, shown, owned)
  PROVE  LegInv(ResyncLeg(s, wanted, known, on), on, shown, owned)
<1>1. s \in LegType /\ Core(s, shown, owned)
  BY DEF LegInv, Core
<1>2. CASE s.running /\ ~wanted
  BY <1>2, RetireKeeps DEF ResyncLeg
<1>3. CASE ~s.running /\ wanted
  <2> DEFINE r == [s EXCEPT !.running = TRUE]
  <2>1. /\ r \in LegType /\ r.running /\ r.watching = s.watching
        /\ r.wanted = s.wanted /\ r.written = s.written /\ r.armed = s.armed
        /\ r.original = s.original /\ r.tasks = s.tasks /\ r.failed = s.failed
        /\ r.dropped = s.dropped /\ r.spoilt = s.spoilt
    BY <1>1 DEF LegType
  <2>2. ResyncLeg(s, wanted, known, on) = WatchTarget(r, known, on)
    BY <1>3 DEF ResyncLeg, StartLeg
  <2> HIDE DEF r
  <2>3. Core(r, shown, owned)
    BY <1>1, <2>1 DEF Core, InLine, Taken, PutsBack
  <2>4. ~r.watching /\ r.wanted = NoValue /\ ~r.armed
    BY <1>3, <2>1 DEF LegInv, Watches
  <2>5. QED  BY <2>1, <2>2, <2>3, <2>4, WatchKeeps
<1>4. CASE s.running /\ wanted
  <2>1. ResyncLeg(s, wanted, known, on) = Rewatch(s, known, on)
    BY <1>4 DEF ResyncLeg
  <2>2. CASE s.watching = known
    BY <2>1, <2>2 DEF Rewatch
  <2>3. CASE s.watching # known
    <3> DEFINE r == Unheard(s)
    <3>1. /\ Core(r, shown, owned) /\ ~r.watching /\ ~r.armed /\ r.wanted = NoValue
          /\ r.running
      BY <1>1, <1>4, UnheardKeeps
    <3>2. ResyncLeg(s, wanted, known, on) = WatchTarget(r, known, on)
      BY <2>1, <2>3 DEF Rewatch
    <3> HIDE DEF r
    <3>3. QED  BY <3>1, <3>2, WatchKeeps
  <2>4. QED  BY <2>2, <2>3
<1>5. CASE ~s.running /\ ~wanted
  BY <1>5 DEF ResyncLeg
<1>6. QED  BY <1>1, <1>2, <1>3, <1>4, <1>5 DEF LegType

LEMMA ResyncInv ==
  ASSUME hybridUp', NEW legs, NEW wanted, Resync(legs, wanted),
         UNCHANGED <<entities, light, owners>>, led' \subseteq Buttons,
         \A b \in Buttons : LegInv(legs[b], IsOn(b), b \in led', b \in owners)
  PROVE  HybridInv'
<1>1. \A b \in Buttons : leg'[b] = ResyncLeg(legs[b], b \in wanted, b \in entities, IsOn(b))
  BY DEF Resync
<1>2. \A b \in Buttons : LegInv(leg'[b], IsOn(b), b \in led', b \in owners)
  <2>1. SUFFICES ASSUME NEW b \in Buttons
                 PROVE  LegInv(leg'[b], IsOn(b), b \in led', b \in owners)
    OBVIOUS
  <2> DEFINE on == IsOn(b)  shown == b \in led'  owned == b \in owners
             asks == b \in wanted  known == b \in entities
  <2>2. /\ on \in BOOLEAN /\ shown \in BOOLEAN /\ owned \in BOOLEAN
        /\ asks \in BOOLEAN /\ known \in BOOLEAN
    BY DEF IsOn
  <2>3. LegInv(legs[b], on, shown, owned) /\ leg'[b] = ResyncLeg(legs[b], asks, known, on)
    BY <1>1
  <2> HIDE DEF on, shown, owned, asks, known
  <2>4. LegInv(leg'[b], on, shown, owned)
    BY <2>2, <2>3, ResyncKeeps
  <2>5. QED  BY <2>4 DEF on, shown, owned
<1>3. \A b \in Buttons : leg'[b] \in LegType
  BY <1>2 DEF LegInv, Core
<1>4. leg' \in [Buttons -> LegType]
  BY <1>3 DEF Resync
<1>5. \A b \in Buttons : LegInv(leg'[b], IsOn(b)', b \in led', b \in owners')
  BY <1>2 DEF IsOn
<1>6. (\A b \in Buttons : LegInv(leg[b], IsOn(b), b \in led, b \in owners))'
  BY <1>5 DEF LegInv, Core, LegType, Watches, InLine, Taken, PutsBack, LastSays, OwnWrite
<1>7. QED  BY <1>4, <1>6 DEF HybridInv

(* One leg changes, and its light or its button. *)
LEMMA OneLeg ==
  ASSUME HybridInv, hybridUp, hybridUp', NEW b \in Buttons, NEW s, leg' = [leg EXCEPT ![b] = s],
         led' \subseteq Buttons, UNCHANGED owners,
         LegInv(s, IsOn(b)', b \in led', b \in owners),
         \A c \in Buttons \ {b} : (IsOn(c)' <=> IsOn(c)) /\ (c \in led' <=> c \in led)
  PROVE  HybridInv'
<1>1. leg \in [Buttons -> LegType]
  BY DEF HybridInv
<1>2. s \in LegType
  BY DEF LegInv, Core
<1>3. \A c \in Buttons : leg'[c] = IF c = b THEN s ELSE leg[c]
  BY <1>1
<1>4. \A c \in Buttons : LegInv(leg'[c], IsOn(c)', c \in led', c \in owners')
  BY <1>3 DEF HybridInv, IsOn
<1>5. (\A c \in Buttons : LegInv(leg[c], IsOn(c), c \in led, c \in owners))'
  BY <1>4 DEF LegInv, Core, LegType, Watches, InLine, Taken, PutsBack, LastSays, OwnWrite
<1>6. QED  BY <1>1, <1>2, <1>5 DEF HybridInv

(* The leg when the head of its queue has ended, or has begun.             *)
AfterWrite(s, taken) ==
  [s EXCEPT !.tasks = Tail(@), !.failed = ~taken,
            !.written = IF taken /\ Head(s.tasks).mine THEN Head(s.tasks).lit ELSE @]

AfterRestore(s, landed) == [s EXCEPT !.tasks = Tail(@), !.spoilt = @ \/ ~landed]

BegunFirst(queue) == [queue EXCEPT ![1] = [@ EXCEPT !.begun = TRUE]]

(* A write at the head of the queue has ended. *)
LEMMA EndedKeeps ==
  ASSUME NEW on \in BOOLEAN, NEW shown \in BOOLEAN, NEW owned \in BOOLEAN, NEW taken \in BOOLEAN,
         NEW later \in BOOLEAN, NEW s, LegInv(s, on, shown, owned),
         s.tasks # <<>>, Head(s.tasks).do = "write",
         taken => later = Head(s.tasks).lit, later = shown \/ Head(s.tasks).begun
  PROVE  LegInv(AfterWrite(s, taken), on, later, owned)
<1> DEFINE task == Head(s.tasks)
           kept == IF taken /\ task.mine THEN task.lit ELSE s.written
           tasks == Tail(s.tasks)
           failed == ~taken
           r == [s EXCEPT !.tasks = tasks, !.failed = failed, !.written = kept]
<1>1. s \in LegType /\ s.tasks \in Seq(Tasks) /\ Core(s, shown, owned) /\ Watches(s, on) /\ LastSays(s)
  BY DEF LegInv, Core, LegType
<1>2. /\ task \in Tasks /\ tasks \in Seq(Tasks) /\ 1 \in DOMAIN s.tasks /\ s.tasks[1] = task
      /\ Len(s.tasks) \in Nat /\ DOMAIN s.tasks = 1..Len(s.tasks)
      /\ Len(tasks) = Len(s.tasks) - 1 /\ DOMAIN tasks = 1..Len(s.tasks) - 1
      /\ \A i \in DOMAIN tasks : i + 1 \in DOMAIN s.tasks /\ tasks[i] = s.tasks[i + 1] /\ i + 1 > 1
      /\ tasks = <<>> => Len(s.tasks) = 1
      /\ tasks # <<>> => Len(s.tasks) - 1 \in DOMAIN tasks
  BY <1>1, TailOf
<1>3. kept \in Shown /\ failed \in BOOLEAN
  BY <1>1, <1>2, Typed DEF LegType, Tasks
<1>4. LegInv(r, on, later, owned)
  <2> HIDE DEF task, tasks, kept, failed
  <2>1. /\ r \in LegType /\ r.running = s.running /\ r.watching = s.watching
        /\ r.wanted = s.wanted /\ r.written = kept /\ r.armed = s.armed
        /\ r.original = s.original /\ r.tasks = tasks /\ r.failed = failed
        /\ r.dropped = s.dropped /\ r.spoilt = s.spoilt
    BY <1>1, <1>2, <1>3 DEF LegType
  <2> HIDE DEF r
  <2>2. /\ \A i \in DOMAIN s.tasks : OwnWrite(task) /\ 1 < i => OwnWrite(s.tasks[i])
        /\ s.written # NoValue => OwnWrite(task) /\ \A i \in DOMAIN s.tasks : OwnWrite(s.tasks[i])
        /\ ~s.running => s.written = NoValue /\ ~OwnWrite(task)
    BY <1>1, <1>2 DEF Core, InLine
  <2>3. \A i \in DOMAIN tasks : OwnWrite(task) => OwnWrite(tasks[i])
    BY <1>2, <2>2
  <2>4. kept # NoValue => OwnWrite(task)
    BY <2>2 DEF kept, OwnWrite, task
  <2>5. InLine(r)
    <3>1. ASSUME NEW i \in DOMAIN tasks, NEW j \in DOMAIN tasks, i < j, OwnWrite(tasks[i])
          PROVE  OwnWrite(tasks[j])
      <4>1. i + 1 \in DOMAIN s.tasks /\ j + 1 \in DOMAIN s.tasks /\ i + 1 < j + 1
        BY <1>2, <3>1
      <4>2. QED  BY <1>1, <1>2, <3>1, <4>1 DEF Core, InLine
    <3>2. ~s.running => kept = NoValue /\ \A i \in DOMAIN tasks : ~OwnWrite(tasks[i])
      BY <1>1, <1>2, <2>4, <2>2 DEF Core, InLine
    <3>3. QED  BY <2>1, <2>3, <2>4, <3>1, <3>2 DEF InLine
  <2>6. Taken(r, later)
    BY <2>1, <2>4 DEF Taken, failed, kept, OwnWrite, task
  <2>7. LastSays(r)
    <3>1. SUFFICES ASSUME s.watching, ~s.armed, ~s.dropped
                   PROVE  IF tasks = <<>> THEN failed \/ kept = s.wanted
                          ELSE OwnWrite(tasks[Len(tasks)]) /\ tasks[Len(tasks)].lit = s.wanted
      BY <2>1 DEF LastSays
    <3>2. OwnWrite(s.tasks[Len(s.tasks)]) /\ s.tasks[Len(s.tasks)].lit = s.wanted
      BY <1>1, <3>1 DEF LastSays
    <3>3. CASE tasks = <<>>
      BY <1>2, <3>2, <3>3 DEF OwnWrite, failed, kept
    <3>4. CASE tasks # <<>>
      <4>1. tasks[Len(tasks)] = s.tasks[Len(s.tasks)]
        BY <1>2, <3>4
      <4>2. QED  BY <3>2, <3>4, <4>1
    <3>5. QED  BY <3>3, <3>4
  <2>8. PutsBack(r, later, owned)
    <3>1. SUFFICES ASSUME ~s.spoilt  PROVE PutsBack(r, later, owned)
      BY <2>1 DEF PutsBack
    <3>2. /\ s.original # NoValue => s.original = owned
          /\ \A i \in DOMAIN s.tasks :
               IF s.tasks[i].do = "write"
               THEN s.tasks[i].mine /\ (s.tasks[i].begun => s.original # NoValue)
               ELSE s.tasks[i].lit = owned
          /\ ~s.running => s.original = NoValue
          /\ s.original = NoValue /\ (\A i \in DOMAIN s.tasks : s.tasks[i].do = "write")
             => shown = owned
      BY <1>1, <3>1 DEF Core, PutsBack
    <3>3. \A i \in DOMAIN tasks :
            IF tasks[i].do = "write"
            THEN tasks[i].mine /\ (tasks[i].begun => s.original # NoValue)
            ELSE tasks[i].lit = owned
      BY <1>2, <3>2
    <3>4. task.do = "write" /\ (task.begun => s.original # NoValue) /\ OwnWrite(task)
      BY <1>2, <3>2 DEF task, OwnWrite
    <3>5. \A i \in DOMAIN s.tasks : s.tasks[i].do = "write"
      <4>1. \A i \in DOMAIN s.tasks : i = 1 \/ 1 < i
        BY <1>2
      <4>2. QED  BY <1>2, <2>2, <3>4, <4>1 DEF OwnWrite
    <3>6. s.original = NoValue => later = owned
      BY <3>2, <3>4, <3>5 DEF task
    <3>7. QED  BY <2>1, <3>2, <3>3, <3>6 DEF PutsBack
  <2>9. QED  BY <1>1, <2>1, <2>5, <2>6, <2>7, <2>8 DEF LegInv, Core, Watches
<1>5. QED  BY <1>4 DEF AfterWrite

(* A restore at the head of the queue has ended. *)
LEMMA RestoredKeeps ==
  ASSUME NEW on \in BOOLEAN, NEW shown \in BOOLEAN, NEW owned \in BOOLEAN, NEW landed \in BOOLEAN,
         NEW later \in BOOLEAN, NEW s, LegInv(s, on, shown, owned),
         s.tasks # <<>>, Head(s.tasks).do = "restore", landed => later = Head(s.tasks).lit
  PROVE  LegInv(AfterRestore(s, landed), on, later, owned)
<1> DEFINE task == Head(s.tasks)
           tasks == Tail(s.tasks)
           spoilt == s.spoilt \/ ~landed
           r == [s EXCEPT !.tasks = tasks, !.spoilt = spoilt]
<1>1. s \in LegType /\ s.tasks \in Seq(Tasks) /\ Core(s, shown, owned) /\ Watches(s, on) /\ LastSays(s)
  BY DEF LegInv, Core, LegType
<1>2. /\ task \in Tasks /\ tasks \in Seq(Tasks) /\ 1 \in DOMAIN s.tasks /\ s.tasks[1] = task
      /\ Len(s.tasks) \in Nat /\ DOMAIN s.tasks = 1..Len(s.tasks)
      /\ Len(tasks) = Len(s.tasks) - 1 /\ DOMAIN tasks = 1..Len(s.tasks) - 1
      /\ \A i \in DOMAIN tasks : i + 1 \in DOMAIN s.tasks /\ tasks[i] = s.tasks[i + 1] /\ i + 1 > 1
      /\ tasks = <<>> => Len(s.tasks) = 1
      /\ tasks # <<>> => Len(s.tasks) - 1 \in DOMAIN tasks
  BY <1>1, TailOf
<1>3. spoilt \in BOOLEAN
  BY <1>1 DEF LegType
<1>4. LegInv(r, on, later, owned)
  <2> HIDE DEF task, tasks, spoilt
  <2>1. /\ r \in LegType /\ r.running = s.running /\ r.watching = s.watching
        /\ r.wanted = s.wanted /\ r.written = s.written /\ r.armed = s.armed
        /\ r.original = s.original /\ r.tasks = tasks /\ r.failed = s.failed
        /\ r.dropped = s.dropped /\ r.spoilt = spoilt
    BY <1>1, <1>2, <1>3 DEF LegType
  <2> HIDE DEF r
  <2>2. ~OwnWrite(task)
    BY DEF OwnWrite, task
  <2>3. s.written = NoValue
    BY <1>1, <1>2, <2>2 DEF Core, InLine
  <2>4. InLine(r)
    <3>1. ASSUME NEW i \in DOMAIN tasks, NEW j \in DOMAIN tasks, i < j, OwnWrite(tasks[i])
          PROVE  OwnWrite(tasks[j])
      <4>1. i + 1 \in DOMAIN s.tasks /\ j + 1 \in DOMAIN s.tasks /\ i + 1 < j + 1
        BY <1>2, <3>1
      <4>2. QED  BY <1>1, <1>2, <3>1, <4>1 DEF Core, InLine
    <3>2. ~s.running => \A i \in DOMAIN tasks : ~OwnWrite(tasks[i])
      BY <1>1, <1>2 DEF Core, InLine
    <3>3. QED  BY <2>1, <2>3, <3>1, <3>2 DEF InLine
  <2>5. Taken(r, later)
    BY <2>1, <2>3 DEF Taken
  <2>6. LastSays(r)
    <3>1. SUFFICES ASSUME s.watching, ~s.armed, ~s.dropped
                   PROVE  tasks # <<>> /\ OwnWrite(tasks[Len(tasks)])
                          /\ tasks[Len(tasks)].lit = s.wanted
      BY <2>1 DEF LastSays
    <3>2. OwnWrite(s.tasks[Len(s.tasks)]) /\ s.tasks[Len(s.tasks)].lit = s.wanted
      BY <1>1, <3>1 DEF LastSays
    <3>3. tasks # <<>>
      BY <1>2, <2>2, <3>2
    <3>4. tasks[Len(tasks)] = s.tasks[Len(s.tasks)]
      BY <1>2, <3>3
    <3>5. QED  BY <3>2, <3>3, <3>4
  <2>7. PutsBack(r, later, owned)
    <3>1. SUFFICES ASSUME ~spoilt  PROVE PutsBack(r, later, owned)
      BY <2>1 DEF PutsBack
    <3>2. ~s.spoilt /\ landed
      BY <3>1 DEF spoilt
    <3>3. /\ s.original # NoValue => s.original = owned
          /\ \A i \in DOMAIN s.tasks :
               IF s.tasks[i].do = "write"
               THEN s.tasks[i].mine /\ (s.tasks[i].begun => s.original # NoValue)
               ELSE s.tasks[i].lit = owned
          /\ ~s.running => s.original = NoValue
      BY <1>1, <3>2 DEF Core, PutsBack
    <3>4. \A i \in DOMAIN tasks :
            IF tasks[i].do = "write"
            THEN tasks[i].mine /\ (tasks[i].begun => s.original # NoValue)
            ELSE tasks[i].lit = owned
      BY <1>2, <3>3
    <3>5. later = owned
      <4>1. task.do = "restore" /\ later = task.lit
        BY <3>2 DEF task
      <4>2. QED  BY <1>2, <3>3, <4>1
    <3>6. QED  BY <2>1, <3>3, <3>4, <3>5 DEF PutsBack
  <2>8. QED  BY <1>1, <2>1, <2>4, <2>5, <2>6, <2>7 DEF LegInv, Core, Watches
<1>5. QED  BY <1>4 DEF AfterRestore

(* The write at the head of the queue begins; the button has been read or  *)
(* need not be, or does not say.                                           *)
LEMMA BegunKeeps ==
  ASSUME NEW on \in BOOLEAN, NEW shown \in BOOLEAN, NEW owned \in BOOLEAN,
         NEW s, LegInv(s, on, shown, owned), s.tasks # <<>>, Head(s.tasks).do = "write",
         NEW r \in LegType, r.running = s.running, r.watching = s.watching, r.wanted = s.wanted,
         r.written = s.written, r.armed = s.armed, r.failed = s.failed, r.dropped = s.dropped,
         r.tasks = BegunFirst(s.tasks),
         \/ r.spoilt
         \/ r.spoilt = s.spoilt /\ s.original # NoValue /\ r.original = s.original
         \/ r.spoilt = s.spoilt /\ s.original = NoValue /\ r.original = shown
  PROVE  LegInv(r, on, shown, owned)
<1>1. s \in LegType /\ s.tasks \in Seq(Tasks) /\ Core(s, shown, owned) /\ Watches(s, on) /\ LastSays(s)
  BY DEF LegInv, Core, LegType
<1>2. /\ 1 \in DOMAIN s.tasks /\ s.tasks[1] \in Tasks /\ s.tasks[1].do = "write"
      /\ Len(s.tasks) \in Nat /\ DOMAIN s.tasks = 1..Len(s.tasks)
      /\ Len(s.tasks) \in DOMAIN s.tasks
  BY <1>1
<1> DEFINE task == [s.tasks[1] EXCEPT !.begun = TRUE]
<1>3. task.do = "write" /\ task.mine = s.tasks[1].mine /\ task.lit = s.tasks[1].lit
  BY <1>2 DEF Tasks
<1>4. DOMAIN r.tasks = DOMAIN s.tasks /\ \A i \in DOMAIN s.tasks :
        r.tasks[i] = IF i = 1 THEN task ELSE s.tasks[i]
  BY <1>1, <1>2 DEF BegunFirst
<1> HIDE DEF task
<1>5. /\ \A i \in DOMAIN s.tasks :
           /\ r.tasks[i].do = s.tasks[i].do /\ r.tasks[i].mine = s.tasks[i].mine
           /\ r.tasks[i].lit = s.tasks[i].lit /\ (i = 1 \/ r.tasks[i].begun = s.tasks[i].begun)
      /\ Len(r.tasks) = Len(s.tasks) /\ r.tasks # <<>>
  <2>1. r.tasks \in Seq(Tasks)
    BY DEF LegType
  <2>2. Len(r.tasks) = Len(s.tasks) /\ r.tasks # <<>>
    BY <1>1, <1>2, <1>4, <2>1
  <2>3. ASSUME NEW i \in DOMAIN s.tasks
        PROVE  /\ r.tasks[i].do = s.tasks[i].do /\ r.tasks[i].mine = s.tasks[i].mine
               /\ r.tasks[i].lit = s.tasks[i].lit /\ (i = 1 \/ r.tasks[i].begun = s.tasks[i].begun)
    BY <1>2, <1>3, <1>4
  <2>4. QED  BY <2>2, <2>3
<1>6. InLine(r) /\ Taken(r, shown) /\ LastSays(r) /\ Watches(r, on)
  BY <1>1, <1>2, <1>4, <1>5 DEF Core, InLine, Taken, LastSays, Watches, OwnWrite
<1>7. PutsBack(r, shown, owned)
  <2>1. SUFFICES ASSUME ~r.spoilt PROVE PutsBack(r, shown, owned)
    BY DEF PutsBack
  <2>2. ~s.spoilt
    BY <2>1
  <2>3. /\ s.original # NoValue => s.original = owned
        /\ \A i \in DOMAIN s.tasks :
             IF s.tasks[i].do = "write"
             THEN s.tasks[i].mine /\ (s.tasks[i].begun => s.original # NoValue)
             ELSE s.tasks[i].lit = owned
        /\ s.original = NoValue /\ (\A i \in DOMAIN s.tasks : s.tasks[i].do = "write")
           => shown = owned
    BY <1>1, <2>2 DEF Core, PutsBack
  <2>4. OwnWrite(s.tasks[1]) /\ s.running
    BY <1>1, <1>2, <2>3 DEF OwnWrite, Core, InLine
  <2>5. \A i \in DOMAIN s.tasks : s.tasks[i].do = "write"
    <3>1. \A i \in DOMAIN s.tasks : i = 1 \/ 1 < i
      BY <1>2
    <3>2. QED  BY <1>1, <1>2, <2>4, <3>1 DEF OwnWrite, Core, InLine
  <2>6. r.original # NoValue /\ r.original = owned
    BY <2>1, <2>3, <2>5, Typed
  <2>7. QED  BY <1>4, <1>5, <2>3, <2>4, <2>5, <2>6 DEF PutsBack
<1>8. QED  BY <1>6, <1>7 DEF LegInv, Core

LEMMA HybridStart == HybridInit => HybridInv
<1> SUFFICES ASSUME HybridInit PROVE HybridInv
  OBVIOUS
<1>1. Dormant \in LegType
  <2>1. <<>> \in Seq(Tasks)
    OBVIOUS
  <2>2. QED  BY <2>1 DEF Dormant, LegType, Shown
<1>2. \A b \in Buttons : leg[b] = Dormant /\ (b \in led <=> b \in owners)
  BY DEF HybridInit
<1>3. \A on, shown \in BOOLEAN : LegInv(Dormant, on, shown, shown)
  <2>1. ~Dormant.running /\ ~Dormant.watching /\ ~Dormant.armed /\ Dormant.wanted = NoValue
        /\ Dormant.written = NoValue /\ Dormant.original = NoValue /\ Dormant.tasks = <<>>
    BY DEF Dormant
  <2> HIDE DEF Dormant
  <2>2. \A i \in DOMAIN Dormant.tasks : FALSE
    BY <2>1
  <2>3. QED
    BY <1>1, <2>1, <2>2 DEF LegInv, Core, InLine, Taken, PutsBack, Watches, LastSays
<1>4. ASSUME NEW b \in Buttons PROVE LegInv(leg[b], IsOn(b), b \in led, b \in owners)
  <2> DEFINE on == IsOn(b)  shown == b \in led  owned == b \in owners
  <2>1. on \in BOOLEAN /\ shown \in BOOLEAN /\ owned = shown /\ leg[b] = Dormant
    BY <1>2 DEF IsOn
  <2> HIDE DEF on, shown, owned
  <2>2. LegInv(leg[b], on, shown, owned)
    BY <1>3, <2>1
  <2>3. QED  BY <2>2 DEF on, shown, owned
<1>5. QED  BY <1>1, <1>4 DEF HybridInv, HybridInit

(* What every step below starts from. *)
LEMMA LegNow ==
  ASSUME HybridInv, hybridUp, NEW b \in Buttons
  PROVE  /\ leg \in [Buttons -> LegType] /\ leg[b] \in LegType
         /\ LegInv(leg[b], IsOn(b), b \in led, b \in owners)
         /\ IsOn(b) \in BOOLEAN
BY DEF HybridInv, IsOn

LEMMA ResyncStep ==
  ASSUME HybridInv, EditLegs \/ Told
  PROVE  HybridInv'
<1>1. hybridUp /\ hybridUp' /\ UNCHANGED <<entities, light, owners, led>>
  BY DEF EditLegs, Told, Happens
<1>2. \A b \in Buttons : LegInv(leg[b], IsOn(b), b \in led', b \in owners)
  BY <1>1 DEF HybridInv
<1>3. led' \subseteq Buttons
  BY <1>1 DEF HybridInv
<1>4. PICK wanted : Resync(leg, wanted)
  BY DEF EditLegs, Told
<1>5. QED  BY <1>1, <1>2, <1>3, <1>4, ResyncInv

(* A listener hears of its light. *)
LEMMA HeardStep ==
  ASSUME HybridInv, NEW b \in Buttons, LightChanges(b) \/ EntitiesChange(b)
  PROVE  HybridInv'
<1>1. hybridUp /\ hybridUp' /\ UNCHANGED <<led, owners>>
  BY DEF LightChanges, EntitiesChange, Happens
<1> DEFINE on == IsOn(b)'  shown == b \in led  owned == b \in owners
           old == IsOn(b)  s == leg[b]
           r == IF s.watching THEN WantIndication(s, on) ELSE s
<1>2. on \in BOOLEAN /\ shown \in BOOLEAN /\ owned \in BOOLEAN
  BY DEF IsOn
<1>3. leg' = [leg EXCEPT ![b] = r]
  <2>1. Heard(b, on)
    BY DEF LightChanges, EntitiesChange, IsOn
  <2>2. QED  BY <2>1 DEF Heard
<1>4. LegInv(s, old, shown, owned)
  BY <1>1, LegNow
<1>5. \A c \in Buttons \ {b} : (IsOn(c)' <=> IsOn(c)) /\ (c \in led' <=> c \in led)
  BY <1>1 DEF LightChanges, EntitiesChange, IsOn
<1>6. led' \subseteq Buttons
  BY <1>1 DEF HybridInv
<1>7. LegInv(r, on, shown, owned)
  <2> HIDE DEF on, shown, owned, s, old
  <2>1. CASE s.watching
    BY <1>2, <1>4, <2>1, WantKeeps DEF LegInv, Watches
  <2>2. CASE ~s.watching
    BY <1>4, <2>2 DEF LegInv, Watches
  <2>3. QED  BY <2>1, <2>2
<1> HIDE DEF r
<1>8. LegInv(r, IsOn(b)', b \in led', b \in owners')
  BY <1>1, <1>7
<1>9. QED  BY <1>1, <1>3, <1>5, <1>6, <1>8, OneLeg

(* A second has passed since a write, or the timer runs out. *)
LEMMA TimerStep ==
  ASSUME HybridInv, NEW b \in Buttons, SecondPasses(b) \/ Later(b)
  PROVE  HybridInv'
<1>1. hybridUp /\ hybridUp' /\ UNCHANGED <<led, owners, light, entities>>
  BY DEF SecondPasses, Later, HybridInv
<1> DEFINE on == IsOn(b)  shown == b \in led  owned == b \in owners  s == leg[b]
           q == [s EXCEPT !.recent = FALSE]
           r == [s EXCEPT !.armed = FALSE]
<1>2. on \in BOOLEAN /\ shown \in BOOLEAN /\ owned \in BOOLEAN
  BY DEF IsOn
<1>3. LegInv(s, on, shown, owned) /\ s \in LegType /\ leg \in [Buttons -> LegType]
  BY <1>1, LegNow
<1>4. /\ IsOn(b)' = on /\ (b \in led') = shown /\ (b \in owners') = owned
      /\ led' \subseteq Buttons
      /\ \A c \in Buttons \ {b} : (IsOn(c)' <=> IsOn(c)) /\ (c \in led' <=> c \in led)
  BY <1>1 DEF HybridInv, IsOn
<1>5. CASE SecondPasses(b)
  <2>1. leg' = [leg EXCEPT ![b] = q]
    BY <1>3, <1>5 DEF SecondPasses
  <2>2. /\ q \in LegType /\ q.running = s.running /\ q.watching = s.watching
        /\ q.wanted = s.wanted /\ q.written = s.written /\ q.armed = s.armed
        /\ q.original = s.original /\ q.tasks = s.tasks /\ q.failed = s.failed
        /\ q.dropped = s.dropped /\ q.spoilt = s.spoilt
    BY <1>3 DEF LegType
  <2>3. LegInv(q, on, shown, owned)
    <3> HIDE DEF q, on, shown, owned, s
    <3>1. QED
      BY <1>3, <2>2 DEF LegInv, Core, InLine, Taken, PutsBack, Watches, LastSays
  <2> HIDE DEF q, on, shown, owned, s
  <2>4. LegInv(q, IsOn(b)', b \in led', b \in owners')
    BY <1>4, <2>3
  <2>5. QED  BY <1>1, <1>4, <2>1, <2>4, OneLeg
<1>6. CASE Later(b)
  <2>1. s.armed /\ leg' = [leg EXCEPT ![b] = WriteIndicationNow(r)]
    BY <1>3, <1>6 DEF Later
  <2>2. /\ r \in LegType /\ r.running = s.running /\ r.watching = s.watching
        /\ r.wanted = s.wanted /\ r.written = s.written /\ ~r.armed
        /\ r.original = s.original /\ r.tasks = s.tasks /\ r.failed = s.failed
        /\ r.dropped = s.dropped /\ r.spoilt = s.spoilt
    BY <1>3 DEF LegType
  <2> HIDE DEF r, on, shown, owned, s
  <2>3. Core(r, shown, owned) /\ r.running /\ r.watching /\ r.wanted = on
    BY <1>3, <2>1, <2>2 DEF LegInv, Core, InLine, Taken, PutsBack, Watches
  <2>4. LegInv(WriteIndicationNow(r), on, shown, owned)
    BY <1>2, <2>2, <2>3, WriteNowKeeps
  <2>5. LegInv(WriteIndicationNow(r), IsOn(b)', b \in led', b \in owners')
    BY <1>4, <2>4
  <2>6. QED  BY <1>1, <1>4, <2>1, <2>5, OneLeg
<1>7. QED  BY <1>5, <1>6

(* A write at the head of a queue ends, and the manager hears of itself.   *)
LEMMA EndedStep ==
  ASSUME HybridInv, hybridUp, hybridUp', NEW b \in Buttons, NEW taken \in BOOLEAN,
         leg[b].tasks # <<>>, Head(leg[b].tasks).do = "write",
         Ended(b, leg[b], taken), UNCHANGED <<entities, light, owners>>, led' \subseteq Buttons,
         \A c \in Buttons \ {b} : c \in led' <=> c \in led,
         taken => (b \in led' <=> Head(leg[b].tasks).lit),
         (b \in led' <=> b \in led) \/ Head(leg[b].tasks).begun
  PROVE  HybridInv'
<1> DEFINE on == IsOn(b)  shown == b \in led  owned == b \in owners  later == b \in led'
           s == leg[b]
           r == AfterWrite(s, taken)
           legs == [leg EXCEPT ![b] = r]
<1>1. on \in BOOLEAN /\ shown \in BOOLEAN /\ owned \in BOOLEAN /\ later \in BOOLEAN
  BY DEF IsOn
<1>2. LegInv(s, on, shown, owned) /\ s \in LegType /\ leg \in [Buttons -> LegType]
  BY LegNow
<1>3. Head(s.tasks).lit \in BOOLEAN
  <2>1. Head(s.tasks) \in Tasks
    BY <1>2, TailOf DEF LegType
  <2>2. QED  BY <2>1 DEF Tasks
<1>4. taken => later = Head(s.tasks).lit
  BY <1>3
<1>5. later = shown \/ Head(s.tasks).begun
  <2>1. (b \in led' <=> b \in led) => later = shown
    OBVIOUS
  <2> HIDE DEF later, shown
  <2>2. QED  BY <2>1
<1>6. LegInv(r, on, later, owned)
  <2>1. s.tasks # <<>> /\ Head(s.tasks).do = "write"
    OBVIOUS
  <2> HIDE DEF on, shown, owned, later, s
  <2>2. QED  BY <1>1, <1>2, <1>4, <1>5, <2>1, EndedKeeps
<1>7. Resync(legs, asked)
  BY <1>2 DEF Ended, AfterWrite
<1> HIDE DEF r
<1>8. ASSUME NEW c \in Buttons PROVE LegInv(legs[c], IsOn(c), c \in led', c \in owners)
  <2>1. CASE c = b
    BY <1>2, <1>6, <2>1
  <2>2. CASE c # b
    <3>1. legs[c] = leg[c] /\ (c \in led') = (c \in led)
      BY <1>2, <2>2
    <3>2. LegInv(leg[c], IsOn(c), c \in led, c \in owners)
      BY LegNow
    <3>3. QED  BY <3>1, <3>2
  <2>3. QED  BY <2>1, <2>2
<1> HIDE DEF legs
<1>9. QED  BY <1>7, <1>8, ResyncInv

LEMMA BeginStep ==
  ASSUME HybridInv, NEW b \in Buttons, NEW read, BeginWrite(b, read)
  PROVE  HybridInv'
<1>1. hybridUp /\ hybridUp' /\ UNCHANGED <<led, owners, light, entities>>
  BY DEF BeginWrite, HybridInv
<1> DEFINE on == IsOn(b)  shown == b \in led  owned == b \in owners  s == leg[b]
           tasks == BegunFirst(s.tasks)
<1>2. on \in BOOLEAN /\ shown \in BOOLEAN /\ owned \in BOOLEAN
  BY DEF IsOn
<1>3. /\ LegInv(s, on, shown, owned) /\ s \in LegType /\ leg \in [Buttons -> LegType]
      /\ s.tasks # <<>> /\ Head(s.tasks).do = "write"
  BY <1>1, LegNow DEF BeginWrite
<1>4. /\ IsOn(b)' = on /\ (b \in led') = shown /\ (b \in owners') = owned
      /\ led' \subseteq Buttons
      /\ \A c \in Buttons \ {b} : (IsOn(c)' <=> IsOn(c)) /\ (c \in led' <=> c \in led)
  BY <1>1 DEF HybridInv, IsOn
<1>5. tasks \in Seq(Tasks)
  <2>1. s.tasks \in Seq(Tasks) /\ 1 \in DOMAIN s.tasks /\ s.tasks[1] \in Tasks
    BY <1>3 DEF LegType
  <2> DEFINE task == [s.tasks[1] EXCEPT !.begun = TRUE]
  <2>2. task \in Tasks
    BY <2>1 DEF Tasks
  <2>3. tasks = [s.tasks EXCEPT ![1] = task]
    BY DEF BegunFirst
  <2> HIDE DEF task, tasks, s
  <2>4. QED  BY <2>1, <2>2, <2>3
<1>6. ASSUME NEW r \in LegType, leg' = [leg EXCEPT ![b] = r],
             r.running = s.running, r.watching = s.watching, r.wanted = s.wanted,
             r.written = s.written, r.armed = s.armed, r.failed = s.failed,
             r.dropped = s.dropped, r.tasks = tasks,
             \/ r.spoilt
             \/ r.spoilt = s.spoilt /\ s.original # NoValue /\ r.original = s.original
             \/ r.spoilt = s.spoilt /\ s.original = NoValue /\ r.original = shown
      PROVE  HybridInv'
  <2> HIDE DEF on, shown, owned, s
  <2>1. LegInv(r, on, shown, owned)
    BY <1>2, <1>3, <1>6, BegunKeeps
  <2> HIDE DEF tasks
  <2>2. LegInv(r, IsOn(b)', b \in led', b \in owners')
    BY <1>4, <2>1
  <2>3. QED  BY <1>1, <1>4, <1>6, <2>2, OneLeg
<1>7. CASE s.original # NoValue /\ leg' = [leg EXCEPT ![b].tasks[1].begun = TRUE]
  <2> DEFINE r == [s EXCEPT !.tasks = tasks]
  <2>1. leg' = [leg EXCEPT ![b] = r]
    BY <1>3, <1>7 DEF BegunFirst
  <2> HIDE DEF tasks, s
  <2>2. /\ r \in LegType /\ r.running = s.running /\ r.watching = s.watching
        /\ r.wanted = s.wanted /\ r.written = s.written /\ r.armed = s.armed
        /\ r.original = s.original /\ r.tasks = tasks /\ r.failed = s.failed
        /\ r.dropped = s.dropped /\ r.spoilt = s.spoilt
    BY <1>3, <1>5 DEF LegType
  <2> HIDE DEF r
  <2>3. QED  BY <1>6, <1>7, <2>1, <2>2
<1>8. CASE s.original = NoValue
           /\ leg' = [leg EXCEPT ![b] = [@ EXCEPT !.original = (b \in led),
                                                 !.tasks[1].begun = TRUE]]
  <2> DEFINE r == [s EXCEPT !.original = shown, !.tasks = tasks]
  <2>1. leg' = [leg EXCEPT ![b] = r]
    BY <1>3, <1>8 DEF LegType, BegunFirst
  <2> HIDE DEF tasks, s, shown
  <2>2. /\ r \in LegType /\ r.running = s.running /\ r.watching = s.watching
        /\ r.wanted = s.wanted /\ r.written = s.written /\ r.armed = s.armed
        /\ r.original = shown /\ r.tasks = tasks /\ r.failed = s.failed
        /\ r.dropped = s.dropped /\ r.spoilt = s.spoilt
    BY <1>2, <1>3, <1>5, Typed DEF LegType
  <2> HIDE DEF r
  <2>3. QED  BY <1>6, <1>8, <2>1, <2>2
<1>9. CASE leg' = [leg EXCEPT ![b] = [@ EXCEPT !.spoilt = TRUE, !.tasks[1].begun = TRUE]]
  <2> DEFINE r == [s EXCEPT !.spoilt = TRUE, !.tasks = tasks]
  <2>1. leg' = [leg EXCEPT ![b] = r]
    BY <1>3, <1>9 DEF LegType, BegunFirst
  <2> HIDE DEF tasks, s
  <2>2. /\ r \in LegType /\ r.running = s.running /\ r.watching = s.watching
        /\ r.wanted = s.wanted /\ r.written = s.written /\ r.armed = s.armed
        /\ r.original = s.original /\ r.tasks = tasks /\ r.failed = s.failed
        /\ r.dropped = s.dropped /\ r.spoilt
    BY <1>3, <1>5 DEF LegType
  <2> HIDE DEF r
  <2>3. QED  BY <1>6, <2>1, <2>2
<1>10. CASE Ended(b, leg[b], FALSE)
  BY <1>1, <1>3, <1>4, <1>10, EndedStep
<1>11. QED  BY <1>7, <1>8, <1>9, <1>10 DEF BeginWrite

LEMMA EndWriteStep ==
  ASSUME HybridInv, NEW b \in Buttons, NEW landed \in BOOLEAN, NEW taken \in BOOLEAN,
         EndWrite(b, landed, taken)
  PROVE  HybridInv'
<1>1. /\ hybridUp /\ hybridUp' /\ UNCHANGED <<owners, light, entities>>
      /\ leg[b].tasks # <<>> /\ Head(leg[b].tasks).do = "write" /\ Head(leg[b].tasks).begun
      /\ Ended(b, leg[b], taken) /\ (taken => landed) /\ Shows(b, Head(leg[b].tasks).lit, landed)
  BY DEF EndWrite, HybridInv
<1>2. /\ led' \subseteq Buttons /\ \A c \in Buttons \ {b} : c \in led' <=> c \in led
      /\ taken => (b \in led' <=> Head(leg[b].tasks).lit)
  BY <1>1 DEF Shows, HybridInv
<1>3. QED  BY <1>1, <1>2, EndedStep

LEMMA EndRestoreStep ==
  ASSUME HybridInv, NEW b \in Buttons, NEW landed \in BOOLEAN, EndRestore(b, landed)
  PROVE  HybridInv'
<1>1. /\ hybridUp /\ hybridUp' /\ UNCHANGED <<owners, light, entities>>
      /\ leg[b].tasks # <<>> /\ Head(leg[b].tasks).do = "restore"
      /\ Shows(b, Head(leg[b].tasks).lit, landed)
  BY DEF EndRestore, HybridInv
<1> DEFINE on == IsOn(b)  shown == b \in led  owned == b \in owners  later == b \in led'
           s == leg[b]
           r == AfterRestore(s, landed)
<1>2. on \in BOOLEAN /\ shown \in BOOLEAN /\ owned \in BOOLEAN /\ later \in BOOLEAN
  BY DEF IsOn
<1>3. /\ LegInv(s, on, shown, owned) /\ s \in LegType /\ leg \in [Buttons -> LegType]
      /\ s.tasks # <<>> /\ Head(s.tasks).do = "restore"
  BY <1>1, LegNow
<1>4. Head(s.tasks).lit \in BOOLEAN
  <2>1. Head(s.tasks) \in Tasks
    BY <1>3, TailOf DEF LegType
  <2>2. QED  BY <2>1 DEF Tasks
<1>5. landed => later = Head(s.tasks).lit
  BY <1>1, <1>4 DEF Shows
<1>6. leg' = [leg EXCEPT ![b] = r]
  BY DEF EndRestore, AfterRestore
<1>7. /\ led' \subseteq Buttons /\ IsOn(b)' = on /\ (b \in owners') = owned
      /\ \A c \in Buttons \ {b} : (IsOn(c)' <=> IsOn(c)) /\ (c \in led' <=> c \in led)
  BY <1>1 DEF Shows, HybridInv, IsOn
<1>8. LegInv(r, on, later, owned)
  <2> HIDE DEF on, shown, owned, later, s
  <2>1. QED  BY <1>2, <1>3, <1>5, RestoredKeeps
<1> HIDE DEF r
<1>9. LegInv(r, IsOn(b)', b \in led', b \in owners')
  BY <1>7, <1>8
<1>10. QED  BY <1>1, <1>6, <1>7, <1>9, OneLeg

LEMMA HybridShutdownStep ==
  ASSUME HybridInv, HybridShutdown
  PROVE  HybridInv'
<1> DEFINE ended(b) == [Dormant EXCEPT !.original = leg[b].original]
<1>1. leg' = [b \in Buttons |-> ended(b)] /\ ~hybridUp'
  BY DEF HybridShutdown
<1>2. led' \subseteq Buttons
  BY DEF HybridShutdown, HybridInv
<1>3. ASSUME NEW b \in Buttons
      PROVE  /\ ended(b) \in LegType /\ ~ended(b).running /\ ~ended(b).watching
             /\ ~ended(b).armed /\ ended(b).tasks = <<>>
  <2>1. leg[b].original \in Shown /\ <<>> \in Seq(Tasks)
    BY DEF HybridInv, LegType
  <2>2. QED  BY <2>1 DEF Dormant, LegType, Shown
<1> HIDE DEF ended
<1>4. leg' \in [Buttons -> LegType]
  BY <1>1, <1>3
<1>5. QED  BY <1>1, <1>2, <1>3, <1>4 DEF HybridInv, LegType

LEMMA HybridStill ==
  ASSUME HybridInv, UNCHANGED hybridVars
  PROVE  HybridInv'
BY DEF hybridVars, HybridInv, LegInv, Core, LegType, Watches, InLine, Taken, PutsBack, LastSays,
       OwnWrite, IsOn

LEMMA HybridStep ==
  ASSUME HybridInv, [HybridNext]_hybridVars
  PROVE  HybridInv'
<1>1. CASE EditLegs \/ Told
  BY <1>1, ResyncStep
<1>2. CASE HybridShutdown
  BY <1>2, HybridShutdownStep
<1>3. ASSUME NEW b \in Buttons,
             \/ LightChanges(b) \/ EntitiesChange(b) \/ SecondPasses(b) \/ Later(b)
             \/ \E read \in {"known", "told", "untold", "raised"} : BeginWrite(b, read)
             \/ \E landed, taken \in BOOLEAN : EndWrite(b, landed, taken)
             \/ \E landed \in BOOLEAN : EndRestore(b, landed)
      PROVE  HybridInv'
  BY <1>3, HeardStep, TimerStep, BeginStep, EndWriteStep, EndRestoreStep
<1>4. CASE UNCHANGED hybridVars
  BY <1>4, HybridStill
<1>5. QED  BY <1>1, <1>2, <1>3, <1>4 DEF HybridNext

LEMMA HybridAlways == HybridSpec => []HybridInv
BY HybridStart, HybridStep, PTL DEF HybridSpec

(* However fast the light changes and however rules come and go, a leg     *)
(* with nothing left to send has its button show its light, unless the     *)
(* last write failed or a wish was taken for sent under another write      *)
(* (hybrid._want_indication, _write_indication_now).                       *)
THEOREM ButtonShowsLight == HybridSpec => []ButtonFollows
<1>1. ASSUME HybridInv PROVE ButtonFollows
  <2>1. SUFFICES ASSUME NEW b \in Buttons, leg[b].watching, leg[b].tasks = <<>>, ~leg[b].armed,
                        ~leg[b].failed, ~leg[b].dropped
                 PROVE  b \in led <=> IsOn(b)
    BY DEF ButtonFollows, AtRest
  <2>2. LegInv(leg[b], IsOn(b), b \in led, b \in owners) /\ IsOn(b) \in BOOLEAN
    BY <1>1, <2>1, LegNow DEF HybridInv
  <2>3. leg[b].wanted = IsOn(b) /\ leg[b].written = leg[b].wanted
    BY <2>1, <2>2 DEF LegInv, Watches, LastSays
  <2>4. leg[b].written = (b \in led)
    BY <2>1, <2>2, <2>3, Typed DEF LegInv, Core, Taken
  <2>5. QED  BY <2>3, <2>4
<1>2. QED  BY <1>1, HybridAlways, PTL

(* A leg turned off, any number of times, leaves its button as it was      *)
(* found, unless it was retired under its own write or the button would    *)
(* not say or take its value (hybrid._retire, _restore_indicator).         *)
THEOREM ButtonLeftAsFound == HybridSpec => []ButtonPutBack
<1>1. ASSUME HybridInv PROVE ButtonPutBack
  <2>1. SUFFICES ASSUME NEW b \in Buttons, hybridUp, ~leg[b].running, leg[b].tasks = <<>>,
                        ~leg[b].spoilt
                 PROVE  b \in led <=> b \in owners
    BY DEF ButtonPutBack
  <2>2. LegInv(leg[b], IsOn(b), b \in led, b \in owners)
    BY <1>1, <2>1, LegNow
  <2>3. \A i \in DOMAIN leg[b].tasks : leg[b].tasks[i].do = "write"
    BY <2>1
  <2>4. QED  BY <2>1, <2>2, <2>3 DEF LegInv, Core, PutsBack
<1>2. QED  BY <1>1, HybridAlways, PTL

LEMMA HouseTyped ==
  ASSUME [HybridNext]_hybridVars, hybridUp \in BOOLEAN, events \in 0..MaxEvents,
         asked \subseteq Buttons, entities \subseteq Buttons, light \subseteq Buttons,
         owners \subseteq Buttons
  PROVE  /\ hybridUp' \in BOOLEAN /\ events' \in 0..MaxEvents
         /\ asked' \subseteq Buttons /\ entities' \subseteq Buttons /\ light' \subseteq Buttons
         /\ owners' \subseteq Buttons
<1>1. CASE EditLegs
  BY <1>1, HybridAssumption DEF EditLegs, Happens
<1>2. CASE Told \/ HybridShutdown \/ UNCHANGED hybridVars
  BY <1>2 DEF Told, HybridShutdown, hybridVars
<1>3. ASSUME NEW b \in Buttons, LightChanges(b) \/ EntitiesChange(b)
      PROVE  /\ UNCHANGED <<hybridUp, asked, owners>> /\ events' \in 0..MaxEvents
             /\ entities' \subseteq Buttons /\ light' \subseteq Buttons
  BY <1>3, HybridAssumption DEF LightChanges, EntitiesChange, Happens
<1>4. ASSUME NEW b \in Buttons,
             \/ SecondPasses(b) \/ Later(b)
             \/ \E read \in {"known", "told", "untold", "raised"} : BeginWrite(b, read)
             \/ \E landed, taken \in BOOLEAN : EndWrite(b, landed, taken)
             \/ \E landed \in BOOLEAN : EndRestore(b, landed)
      PROVE  UNCHANGED <<hybridUp, asked, entities, light, owners, events>>
  BY <1>4 DEF SecondPasses, Later, BeginWrite, EndWrite, EndRestore
<1>5. QED  BY <1>1, <1>2, <1>3, <1>4 DEF HybridNext

(* hybrid.HybridLegs: legs, lights and buttons have their types, the queue *)
(* of a leg nothing but writes and restores.                               *)
THEOREM LegsTyped == HybridSpec => []HybridTypeOK
<1> DEFINE House ==
      /\ hybridUp \in BOOLEAN /\ events \in 0..MaxEvents
      /\ asked \subseteq Buttons /\ entities \subseteq Buttons /\ light \subseteq Buttons
      /\ owners \subseteq Buttons
<1>1. HybridInit => House
  BY HybridAssumption DEF HybridInit
<1>2. House /\ [HybridNext]_hybridVars => House'
  BY HouseTyped
<1>3. HybridInv /\ House => HybridTypeOK
  BY DEF HybridInv, LegType, HybridTypeOK
<1> HIDE DEF House
<1>4. QED  BY <1>1, <1>2, <1>3, HybridAlways, PTL DEF HybridSpec

----------------------------------------------------------------------------
(***************************************************************************)
(* The reports: nothing they are there to say is left unsaid.              *)
(*                                                                         *)
(* For drift, the rules reported are those that drift, and all of them     *)
(* have been announced.  For a write that waits: the issues are always     *)
(* those of the history, the rules and the hour of now, since whoever      *)
(* changes one of these looks again; and while the driver holds a write,   *)
(* what the history says of its link ends in a run of "waits" that began   *)
(* no later than the write was queued, or is all "waits", when what came   *)
(* before has been dropped from the history.                               *)
(***************************************************************************)
Entries == [at : Nat, results : UNION {[S -> Outcomes] : S \in SUBSET Wishes}]

Waits(history, r, i) == history[i].results[r] = "pending_wakeup"

Trailing(history, r, i) == \A j \in Said(history, r) : j >= i => Waits(history, r, j)

Waiting(history, r, since) ==
  \/ \A j \in Said(history, r) : Waits(history, r, j)
  \/ \E i \in Said(history, r) : history[i].at <= since /\ Trailing(history, r, i)

Ordered(history, now) ==
  /\ history \in Seq(Entries)
  /\ \A i \in DOMAIN history : history[i].at <= now
  /\ \A i, j \in DOMAIN history : i < j => history[i].at <= history[j].at

DriftKnown ==
  /\ Drifted(switchedOn, lastRead, silent, applied) \subseteq reported
  /\ reported \subseteq announced

IssuesCurrent == issues = PendingWakeups(jobs, ruled, hour)

QueuedTold ==
  \A r \in Wishes : queuedAt[r] # Never =>
    /\ queuedAt[r] \in Nat /\ queuedAt[r] <= hour /\ WishDevice[r] \in dozing
    /\ Waiting(jobs, r, queuedAt[r])

ReportsInv ==
  /\ hour \in Nat /\ Ordered(jobs, hour) /\ ruled \subseteq Wishes
  /\ DriftKnown /\ IssuesCurrent /\ QueuedTold

LEMMA Smallest ==
  ASSUME NEW T \in SUBSET Nat, T # {}
  PROVE  \E n \in T : \A m \in T : n <= m
<1>1. PICK n \in T : \A m \in T : <<m, n>> \notin OpToRel(<, Nat)
  BY WFMin, NatLessThanWellFounded
<1>2. OpToRel(<, Nat) = {ss \in Nat \X Nat : ss[1] < ss[2]}
  BY DEF OpToRel
<1>3. \A m \in T : ~(m < n)
  BY <1>1, <1>2
<1>4. QED  BY <1>3

LEMMA Largest ==
  ASSUME NEW n \in Nat, NEW T \in SUBSET (1..n), T # {}
  PROVE  \E i \in T : \A j \in T : j <= i
<1> DEFINE U == {n - i : i \in T}
<1>1. U \in SUBSET Nat /\ U # {}
  <2>1. \A i \in T : n - i \in Nat
    OBVIOUS
  <2>2. QED  BY <2>1
<1>2. PICK k \in U : \A m \in U : k <= m
  BY <1>1, Smallest
<1>3. PICK i \in T : k = n - i
  OBVIOUS
<1>4. \A j \in T : n - i <= n - j
  BY <1>2, <1>3
<1>5. QED  BY <1>4

LEMMA SaidIn ==
  ASSUME NEW history \in Seq(Entries), NEW r
  PROVE  /\ Len(history) \in Nat /\ DOMAIN history = 1..Len(history)
         /\ Said(history, r) \in SUBSET (1..Len(history)) /\ Said(history, r) \in SUBSET Nat
         /\ \A i \in DOMAIN history : history[i] \in Entries /\ history[i].at \in Nat
<1>1. Len(history) \in Nat /\ DOMAIN history = 1..Len(history)
  OBVIOUS
<1>2. \A i \in DOMAIN history : history[i] \in Entries
  OBVIOUS
<1>3. \A e \in Entries : e.at \in Nat
  BY DEF Entries
<1>4. QED  BY <1>1, <1>2, <1>3 DEF Said

(* A write that waits and whose job is in the history is pending, and      *)
(* dated no later than that job.                                           *)
LEMMA DatedBy ==
  ASSUME NEW history, NEW now, Ordered(history, now), NEW r, NEW since \in Nat,
         Waiting(history, r, since), NEW i \in Said(history, r), history[i].at = since
  PROVE  /\ IsPending(history, r)
         /\ PendingSince(history, r) \in Nat /\ PendingSince(history, r) <= since
<1> DEFINE S == Said(history, r)
           G == {j \in S : Trailing(history, r, j)}
           Starts(m) == /\ \A j \in S : j >= m => Waits(history, r, j)
                        /\ \A k \in S : k < m => \E j \in S : k <= j /\ j < m /\ ~Waits(history, r, j)
<1>1. /\ history \in Seq(Entries) /\ S \in SUBSET (1..Len(history)) /\ S \in SUBSET Nat
      /\ Len(history) \in Nat /\ DOMAIN history = 1..Len(history) /\ S # {}
      /\ \A j \in S : history[j].at \in Nat
  BY SaidIn DEF Ordered
<1>2. PICK first \in S : history[first].at <= since /\ Trailing(history, r, first)
  BY DEF Waiting, Trailing
<1>3. PICK last \in S : \A j \in S : j <= last
  BY <1>1, Largest
<1>4. IsPending(history, r)
  <2>1. Waits(history, r, last)
    BY <1>1, <1>2, <1>3 DEF Trailing
  <2>2. QED  BY <1>3, <2>1 DEF IsPending, Waits
<1>5. PICK m \in G : \A j \in G : m <= j
  <2>1. G \in SUBSET Nat /\ G # {}
    BY <1>1, <1>2
  <2>2. QED  BY <2>1, Smallest
<1>6. Starts(m)
  <2>1. \A j \in S : j >= m => Waits(history, r, j)
    BY <1>5 DEF Trailing
  <2>2. ASSUME NEW k \in S, k < m
        PROVE  \E j \in S : k <= j /\ j < m /\ ~Waits(history, r, j)
    <3>1. k \notin G
      BY <1>1, <1>5, <2>2
    <3>2. PICK j \in S : j >= k /\ ~Waits(history, r, j)
      BY <3>1 DEF Trailing
    <3>3. ~(j >= m)
      BY <2>1, <3>2
    <3>4. QED  BY <1>1, <3>2, <3>3
  <2>3. QED  BY <2>1, <2>2
<1>7. ASSUME NEW n \in S, Starts(n)
      PROVE  history[n].at <= since
  <2>1. n <= first
    <3>1. SUFFICES ASSUME first < n PROVE FALSE
      BY <1>1
    <3>2. PICK j \in S : first <= j /\ j < n /\ ~Waits(history, r, j)
      BY <1>7, <3>1
    <3>3. QED  BY <1>1, <1>2, <3>2 DEF Trailing
  <2>2. history[n].at <= history[first].at
    BY <1>1, <2>1 DEF Ordered
  <2>3. history[n].at \in Nat /\ history[first].at \in Nat
    BY <1>1
  <2>4. QED  BY <1>2, <2>2, <2>3
<1> HIDE DEF Starts
<1>8. PendingSince(history, r) = history[CHOOSE n \in S : Starts(n)].at
  BY DEF PendingSince, Starts, Waits
<1>9. \E n \in S : Starts(n)
  BY <1>5, <1>6
<1> HIDE DEF S
<1>10. (CHOOSE n \in S : Starts(n)) \in S /\ Starts(CHOOSE n \in S : Starts(n))
  BY <1>9
<1>11. QED  BY <1>1, <1>4, <1>7, <1>8, <1>10

(* The history with one more job: it may lose its first.                   *)
LEMMA WithJobIs ==
  ASSUME NEW history \in Seq(Entries), NEW job \in Entries
  PROVE  LET new == WithJob(history, job)
         IN /\ new \in Seq(Entries)
            /\ \E k \in {0, 1} :
                 /\ k <= Len(history) /\ Len(new) = Len(history) - k + 1
                 /\ \A i \in 1..Len(history) - k : new[i] = history[i + k]
                 /\ new[Len(history) - k + 1] = job
<1>1. Len(history) \in Nat
  OBVIOUS
<1>2. CASE Len(history) < HistoryLength
  <2>1. WithJob(history, job) = Append(history, job)
    BY <1>2 DEF WithJob
  <2>2. QED  BY <2>1, 0 \in {0, 1}
<1>3. CASE ~(Len(history) < HistoryLength)
  <2> DEFINE rest == Tail(history)
  <2>1. WithJob(history, job) = Append(rest, job)
    BY <1>3 DEF WithJob
  <2>2. Len(history) # 0
    BY <1>1, <1>3, ReportsAssumption
  <2>3. rest \in Seq(Entries) /\ Len(rest) = Len(history) - 1
        /\ \A i \in 1..Len(history) - 1 : rest[i] = history[i + 1]
    BY <1>1, <2>2
  <2> HIDE DEF rest
  <2>4. QED  BY <1>1, <2>1, <2>2, <2>3, 1 \in {0, 1}
<1>4. QED  BY <1>2, <1>3

LEMMA HistoryKept ==
  ASSUME NEW history, NEW now \in Nat, Ordered(history, now), NEW job \in Entries, job.at = now
  PROVE  /\ Ordered(WithJob(history, job), now)
         /\ \A r : \A since \in Nat :
              Waiting(history, r, since) /\ (r \in DOMAIN job.results => job.results[r] = "pending_wakeup")
                => Waiting(WithJob(history, job), r, since)
         /\ \A r : r \in DOMAIN job.results /\ job.results[r] = "pending_wakeup"
                => Waiting(WithJob(history, job), r, now)
<1> DEFINE new == WithJob(history, job)
<1>1. /\ history \in Seq(Entries) /\ Len(history) \in Nat /\ DOMAIN history = 1..Len(history)
      /\ \A i \in DOMAIN history : history[i].at \in Nat
  BY SaidIn DEF Ordered
<1>2. new \in Seq(Entries)
  BY <1>1, WithJobIs
<1>3. PICK k \in {0, 1} :
        /\ k <= Len(history) /\ Len(new) = Len(history) - k + 1
        /\ \A i \in 1..Len(history) - k : new[i] = history[i + k]
        /\ new[Len(history) - k + 1] = job
  BY <1>1, WithJobIs
<1> DEFINE size == Len(history) - k + 1
<1>4. /\ size \in Nat /\ DOMAIN new = 1..size /\ size \in DOMAIN new /\ new[size] = job
      /\ \A i \in DOMAIN new : i # size => i + k \in DOMAIN history /\ new[i] = history[i + k]
      /\ \A i \in DOMAIN new : i <= size
      /\ \A i \in DOMAIN history : i > k => i - k \in DOMAIN new /\ i - k < size /\ new[i - k] = history[i]
      /\ \A i \in DOMAIN history : i > k \/ i = 1
      /\ \A i \in DOMAIN history : i >= 1
  <2>1. size \in Nat /\ k \in Nat
    BY <1>1, <1>3
  <2>2. DOMAIN new = 1..size
    BY <1>2, <1>3
  <2>3. ASSUME NEW i \in 1..size, i # size
        PROVE  i + k \in 1..Len(history) /\ new[i] = history[i + k]
    BY <1>1, <1>3, <2>1, <2>3
  <2>4. ASSUME NEW i \in 1..Len(history), i > k
        PROVE  i - k \in 1..size /\ i - k < size /\ new[i - k] = history[i]
    <3>1. i - k \in 1..Len(history) - k
      BY <1>1, <1>3, <2>4
    <3>2. new[i - k] = history[(i - k) + k]
      BY <1>3, <3>1
    <3>3. (i - k) + k = i
      BY <2>1
    <3>4. QED  BY <1>1, <2>1, <3>1, <3>2, <3>3
  <2>5. \A i \in 1..Len(history) : i > k \/ i = 1
    BY <1>1, <1>3
  <2>6. size \in 1..size /\ new[size] = job
    BY <1>1, <1>3, <2>1
  <2>7. \A i \in 1..size : i <= size
    BY <2>1
  <2> HIDE DEF size, new
  <2>8. QED  BY <1>1, <2>1, <2>2, <2>3, <2>4, <2>5, <2>6, <2>7
<1> HIDE DEF size, new
<1>5. Ordered(new, now)
  <2>1. \A i \in DOMAIN new : new[i].at <= now
    BY <1>4 DEF Ordered
  <2>2. ASSUME NEW i \in DOMAIN new, NEW j \in DOMAIN new, i < j
        PROVE  new[i].at <= new[j].at
    <3>1. i # size
      BY <1>4, <2>2
    <3>2. i + k \in DOMAIN history /\ new[i] = history[i + k]
      BY <1>4, <3>1
    <3>3. CASE j = size
      BY <1>4, <3>2, <3>3 DEF Ordered
    <3>4. CASE j # size
      <4>1. j + k \in DOMAIN history /\ new[j] = history[j + k] /\ i + k < j + k
        BY <1>3, <1>4, <2>2, <3>4
      <4>2. QED  BY <3>2, <4>1 DEF Ordered
    <3>5. QED  BY <3>3, <3>4
  <2>3. QED  BY <1>2, <2>1, <2>2 DEF Ordered
<1>6. ASSUME NEW r, NEW since \in Nat, Waiting(history, r, since),
             r \in DOMAIN job.results => job.results[r] = "pending_wakeup"
      PROVE  Waiting(new, r, since)
  <2>1. ASSUME NEW j \in Said(new, r)
        PROVE  \/ j = size /\ Waits(new, r, j)
               \/ j # size /\ j + k \in Said(history, r) /\ (Waits(history, r, j + k) => Waits(new, r, j))
    BY <1>4, <1>6 DEF Said, Waits
  <2>2. CASE \A j \in Said(history, r) : Waits(history, r, j)
    BY <2>1, <2>2 DEF Waiting
  <2>3. CASE \E i \in Said(history, r) : history[i].at <= since /\ Trailing(history, r, i)
    <3>1. PICK i \in Said(history, r) : history[i].at <= since /\ Trailing(history, r, i)
      BY <2>3
    <3>2. i \in DOMAIN history /\ i \in Nat
      BY <1>1 DEF Said
    <3>3. \A j \in Said(new, r) : j \in Nat /\ j >= 1
      BY <1>4 DEF Said
    <3>4. CASE i > k
      <4>1. i - k \in Said(new, r) /\ new[i - k].at <= since
        BY <1>4, <3>1, <3>2, <3>4 DEF Said
      <4>2. ASSUME NEW j \in Said(new, r), j >= i - k
            PROVE  Waits(new, r, j)
        <5>1. CASE j = size
          BY <2>1, <5>1
        <5>2. CASE j # size
          <6>1. j + k >= i
            BY <1>3, <3>2, <3>3, <4>2
          <6>2. QED  BY <2>1, <3>1, <5>2, <6>1 DEF Trailing
        <5>3. QED  BY <5>1, <5>2
      <4>3. QED  BY <4>1, <4>2 DEF Waiting, Trailing
    <3>5. CASE ~(i > k)
      <4>1. i = 1
        BY <1>4, <3>2, <3>5
      <4>2. ASSUME NEW j \in Said(new, r) PROVE Waits(new, r, j)
        <5>1. CASE j = size
          BY <2>1, <5>1
        <5>2. CASE j # size
          <6>1. j + k \in Said(history, r) /\ j + k >= i
            BY <1>3, <2>1, <3>3, <4>1, <5>2
          <6>2. QED  BY <2>1, <3>1, <5>2, <6>1 DEF Trailing
        <5>3. QED  BY <5>1, <5>2
      <4>3. QED  BY <4>2 DEF Waiting
    <3>6. QED  BY <3>4, <3>5
  <2>4. QED  BY <1>6, <2>2, <2>3 DEF Waiting
<1>7. ASSUME NEW r, r \in DOMAIN job.results, job.results[r] = "pending_wakeup"
      PROVE  Waiting(new, r, now)
  <2>1. size \in Said(new, r) /\ new[size].at <= now
    BY <1>4, <1>7 DEF Said
  <2>2. Trailing(new, r, size)
    <3>1. ASSUME NEW j \in Said(new, r), j >= size PROVE j = size
      BY <1>4, <3>1 DEF Said
    <3>2. Waits(new, r, size)
      BY <1>4, <1>7 DEF Waits
    <3>3. QED  BY <3>1, <3>2 DEF Trailing
  <2>3. QED  BY <2>1, <2>2 DEF Waiting
<1>8. QED  BY <1>5, <1>6, <1>7 DEF new

LEMMA ReportsStart == ReportsInit => ReportsInv
<1> SUFFICES ASSUME ReportsInit PROVE ReportsInv
  OBVIOUS
<1>1. \A r : Said(jobs, r) = {}
  BY DEF ReportsInit, Said
<1>2. IssuesCurrent
  BY <1>1 DEF ReportsInit, IssuesCurrent, PendingWakeups, IsPending
<1>3. DriftKnown /\ QueuedTold
  BY DEF ReportsInit, DriftKnown, QueuedTold
<1>4. Ordered(jobs, hour)
  BY DEF ReportsInit, Ordered
<1>5. QED  BY <1>2, <1>3, <1>4 DEF ReportsInv, ReportsInit

(* Every listener is called. *)
LEMMA ListenersTold ==
  ASSUME DriftKnown, UpdateListeners
  PROVE  DriftKnown' /\ IssuesCurrent'
<1>1. Drifted(switchedOn', lastRead', silent', applied') \subseteq reported'
      /\ reported' \subseteq announced'
  BY DEF DriftKnown, UpdateListeners, CheckDrift
<1>2. DriftKnown'
  BY <1>1 DEF DriftKnown, Drifted
<1>3. IssuesCurrent'
  BY DEF UpdateListeners, IssuesCurrent, PendingWakeups, IsPending, PendingSince, Said
<1>4. QED  BY <1>2, <1>3

(* As long as neither the history nor the hour goes back on what a write   *)
(* was queued at, and its device sleeps on.                                *)
LEMMA StillQueued ==
  ASSUME QueuedTold, hour \in Nat, hour' \in Nat, hour <= hour', jobs' = jobs,
         \A r \in Wishes : queuedAt'[r] # Never =>
           queuedAt'[r] = queuedAt[r] /\ (WishDevice[r] \in dozing => WishDevice[r] \in dozing')
  PROVE  QueuedTold'
<1>1. \A r \in Wishes : queuedAt'[r] # Never =>
        /\ queuedAt'[r] \in Nat /\ queuedAt'[r] <= hour' /\ WishDevice[r] \in dozing'
        /\ Waiting(jobs', r, queuedAt'[r])
  BY DEF QueuedTold
<1>2. QED  BY <1>1 DEF QueuedTold, Waiting, Trailing, Waits, Said

LEMMA JobFinishedKeeps ==
  ASSUME ReportsInv, NEW d \in Sleepers, JobFinished(d)
  PROVE  ReportsInv'
<1> DEFINE items == PlannedFor(d)
           pending == IF d \in dozing THEN items ELSE {}
<1>1. PICK said \in [items -> Outcomes] :
        /\ \A r \in items : r \in pending <=> said[r] = "pending_wakeup"
        /\ jobs' = WithJob(jobs, [at |-> hour, results |-> said])
  BY DEF JobFinished
<1> DEFINE job == [at |-> hour, results |-> said]
<1>2. /\ hour' = hour /\ dozing' = dozing /\ ruled' = ruled /\ UpdateListeners
      /\ queuedAt' = [r \in Wishes |-> IF r \in pending /\ queuedAt[r] = Never THEN hour
                                       ELSE queuedAt[r]]
  BY DEF JobFinished
<1>3. items \subseteq Wishes /\ \A r \in items : WishDevice[r] = d
  BY DEF PlannedFor, OnDevice
<1>4. /\ hour \in Nat /\ Ordered(jobs, hour) /\ ruled \subseteq Wishes /\ QueuedTold /\ DriftKnown
  BY DEF ReportsInv
<1>5. job \in Entries /\ job.at = hour /\ DOMAIN job.results = items
      /\ \A r \in items : job.results[r] = "pending_wakeup" <=> r \in pending
  BY <1>1, <1>3, <1>4 DEF Entries
<1> HIDE DEF job, items
<1>6. /\ Ordered(jobs', hour)
      /\ \A r : \A since \in Nat :
           Waiting(jobs, r, since) /\ (r \in items => r \in pending) => Waiting(jobs', r, since)
      /\ \A r : r \in items /\ r \in pending => Waiting(jobs', r, hour)
  <2>1. jobs' = WithJob(jobs, job)
    BY <1>1 DEF job
  <2>2. /\ Ordered(WithJob(jobs, job), hour)
        /\ \A r : \A since \in Nat :
             Waiting(jobs, r, since) /\ (r \in DOMAIN job.results => job.results[r] = "pending_wakeup")
               => Waiting(WithJob(jobs, job), r, since)
        /\ \A r : r \in DOMAIN job.results /\ job.results[r] = "pending_wakeup"
               => Waiting(WithJob(jobs, job), r, hour)
    BY <1>4, <1>5, HistoryKept
  <2>3. QED  BY <1>5, <2>1, <2>2
<1>7. ASSUME NEW r \in Wishes, queuedAt'[r] # Never
      PROVE  /\ queuedAt'[r] \in Nat /\ queuedAt'[r] <= hour /\ WishDevice[r] \in dozing
             /\ Waiting(jobs', r, queuedAt'[r])
  <2>1. CASE r \in pending /\ queuedAt[r] = Never
    <3>1. queuedAt'[r] = hour /\ r \in items /\ d \in dozing
      BY <1>2, <2>1
    <3>2. QED  BY <1>3, <1>4, <1>6, <2>1, <3>1
  <2>2. CASE ~(r \in pending /\ queuedAt[r] = Never)
    <3>1. queuedAt'[r] = queuedAt[r]
      BY <1>2, <2>2
    <3>2. /\ queuedAt[r] \in Nat /\ queuedAt[r] <= hour /\ WishDevice[r] \in dozing
          /\ Waiting(jobs, r, queuedAt[r])
      BY <1>4, <1>7, <3>1 DEF QueuedTold
    <3>3. r \in items => r \in pending
      BY <1>3, <3>2
    <3>4. QED  BY <1>6, <3>1, <3>2, <3>3
  <2>3. QED  BY <2>1, <2>2
<1>8. QueuedTold'
  BY <1>2, <1>7 DEF QueuedTold, Waiting, Trailing, Waits, Said
<1>9. Ordered(jobs, hour)'
  BY <1>2, <1>6 DEF Ordered
<1>10. DriftKnown' /\ IssuesCurrent'
  BY <1>2, <1>4, ListenersTold
<1>11. QED  BY <1>2, <1>4, <1>8, <1>9, <1>10 DEF ReportsInv

(* A read, a rule switched or deleted. *)
LEMMA TurnKeeps ==
  ASSUME ReportsInv,
         \/ \E d \in Sleepers : ReadDevice(d)
         \/ \E r \in Wishes : EnableRule(r) \/ DeleteRule(r)
  PROVE  ReportsInv'
<1>1. /\ UNCHANGED <<dozing, jobs, queuedAt, hour>> /\ UpdateListeners
      /\ ruled' \subseteq ruled
  BY DEF ReadDevice, EnableRule, DeleteRule
<1>2. /\ hour \in Nat /\ Ordered(jobs, hour) /\ ruled \subseteq Wishes /\ QueuedTold /\ DriftKnown
  BY DEF ReportsInv
<1>3. DriftKnown' /\ IssuesCurrent'
  BY <1>1, <1>2, ListenersTold
<1>4. QueuedTold'
  BY <1>1, <1>2, StillQueued
<1>5. Ordered(jobs, hour)'
  BY <1>1, <1>2 DEF Ordered
<1>6. QED  BY <1>1, <1>2, <1>3, <1>4, <1>5 DEF ReportsInv

LEMMA HourKeeps ==
  ASSUME ReportsInv, HourPasses
  PROVE  ReportsInv'
<1>1. /\ hour' = hour + 1 /\ issues' = PendingWakeups(jobs, ruled, hour')
      /\ UNCHANGED <<dozing, jobs, queuedAt, ruled, switchedOn, lastRead, silent, applied,
                     reported, announced>>
  BY DEF HourPasses
<1>2. /\ hour \in Nat /\ Ordered(jobs, hour) /\ ruled \subseteq Wishes /\ QueuedTold /\ DriftKnown
  BY DEF ReportsInv
<1>3. hour' \in Nat /\ hour <= hour'
  BY <1>1, <1>2
<1>4. QueuedTold'
  BY <1>1, <1>2, <1>3, StillQueued
<1>5. Ordered(jobs, hour)'
  <2>1. \A i \in DOMAIN jobs : jobs[i].at <= hour /\ jobs[i].at \in Nat
    BY <1>2, SaidIn DEF Ordered
  <2>2. \A i \in DOMAIN jobs : jobs[i].at <= hour'
    BY <1>2, <1>3, <2>1
  <2>3. QED  BY <1>1, <1>2, <2>2 DEF Ordered
<1>6. DriftKnown'
  BY <1>1, <1>2 DEF DriftKnown, Drifted
<1>7. IssuesCurrent'
  BY <1>1 DEF IssuesCurrent, PendingWakeups, IsPending, PendingSince, Said
<1>8. QED  BY <1>1, <1>2, <1>3, <1>4, <1>5, <1>6, <1>7 DEF ReportsInv

(* A device falls asleep, wakes, or loses a link: nobody hears of it.      *)
LEMMA UnheardOfKeeps ==
  ASSUME ReportsInv,
         \/ \E d \in Sleepers : SleepOrWakes(d)
         \/ \E r \in Wishes : LinkLost(r)
         \/ UNCHANGED reportsVars
  PROVE  ReportsInv'
<1>1. /\ UNCHANGED <<lastRead, silent, ruled, switchedOn, applied, jobs, reported, issues,
                     announced, hour>>
      /\ \A r \in Wishes : queuedAt'[r] # Never =>
           queuedAt'[r] = queuedAt[r] /\ (WishDevice[r] \in dozing => WishDevice[r] \in dozing')
  BY DEF SleepOrWakes, LinkLost, reportsVars
<1>2. /\ hour \in Nat /\ Ordered(jobs, hour) /\ ruled \subseteq Wishes /\ QueuedTold /\ DriftKnown
      /\ IssuesCurrent
  BY DEF ReportsInv
<1>3. QueuedTold'
  BY <1>1, <1>2, StillQueued
<1>4. DriftKnown' /\ IssuesCurrent' /\ Ordered(jobs, hour)'
  BY <1>1, <1>2
  DEF DriftKnown, Drifted, IssuesCurrent, PendingWakeups, IsPending, PendingSince, Said, Ordered
<1>5. QED  BY <1>1, <1>2, <1>3, <1>4 DEF ReportsInv

LEMMA ReportsAlways == ReportsSpec => []ReportsInv
<1>1. ASSUME ReportsInv, [ReportsNext]_reportsVars PROVE ReportsInv'
  BY <1>1, JobFinishedKeeps, TurnKeeps, HourKeeps, UnheardOfKeeps DEF ReportsNext
<1>2. QED  BY <1>1, ReportsStart, PTL DEF ReportsSpec

(* Every rule that drifts has been told of since it last did not, and the  *)
(* device of every write that has waited too long is named, whatever was   *)
(* applied again meanwhile, as long as the history still holds the job     *)
(* that queued it (events.py, repairs.py _pending_since).                  *)
THEOREM AllIsSaid == ReportsSpec => []NothingUnsaid
<1>1. ASSUME ReportsInv PROVE DriftTold
  BY <1>1 DEF ReportsInv, DriftKnown, DriftTold
<1>2. ASSUME ReportsInv PROVE OverdueNamed
  <2>1. SUFFICES ASSUME NEW r \in ruled, queuedAt[r] # Never, hour - queuedAt[r] > Overdue,
                        NEW i \in DOMAIN jobs, jobs[i].at = queuedAt[r], r \in DOMAIN jobs[i].results
                 PROVE  WishDevice[r] \in issues
    BY DEF OverdueNamed
  <2>2. /\ queuedAt[r] \in Nat /\ Waiting(jobs, r, queuedAt[r]) /\ Ordered(jobs, hour) /\ hour \in Nat
    BY <1>2, <2>1 DEF ReportsInv, QueuedTold
  <2>3. i \in Said(jobs, r)
    BY <2>1 DEF Said
  <2>4. /\ IsPending(jobs, r) /\ PendingSince(jobs, r) \in Nat
        /\ PendingSince(jobs, r) <= queuedAt[r]
    BY <2>1, <2>2, <2>3, DatedBy
  <2>5. hour - PendingSince(jobs, r) > Overdue
    BY <2>1, <2>2, <2>4, ReportsAssumption
  <2>6. QED  BY <1>2, <2>4, <2>5 DEF ReportsInv, IssuesCurrent, PendingWakeups
<1>3. QED  BY <1>1, <1>2, ReportsAlways, PTL DEF NothingUnsaid

(* What the links, rules and devices are, and the counts; the history is   *)
(* no longer than its limit.                                               *)
LinksTyped ==
  /\ present \subseteq Wishes /\ lastRead \subseteq Wishes /\ applied \subseteq Wishes
  /\ ruled \subseteq Wishes /\ switchedOn \subseteq ruled
  /\ silent \subseteq Sleepers /\ dozing \subseteq Sleepers
  /\ hour \in 0..MaxHours /\ turns \in 0..MaxTurns /\ finished \in 0..MaxHistory

QueueTyped ==
  /\ queued \in [Wishes -> {Never, "add", "remove"}]
  /\ queuedAt \in [Wishes -> 0..MaxHours \cup {Never}]
  /\ Len(jobs) <= HistoryLength

ToldTyped == issues \subseteq Sleepers /\ reported \subseteq Wishes /\ announced \subseteq Wishes

LEMMA LinksStep == LinksTyped /\ [ReportsNext]_reportsVars => LinksTyped'
<1> SUFFICES ASSUME LinksTyped, [ReportsNext]_reportsVars PROVE LinksTyped'
  OBVIOUS
<1>1. ASSUME NEW d \in Sleepers, JobFinished(d)  PROVE LinksTyped'
  <2> DEFINE items == PlannedFor(d)
  <2>1. items \subseteq ruled
    BY DEF PlannedFor
  <2>2. PICK said \in [items -> Outcomes] :
          LET done == {r \in items : said[r] = "applied"} IN
          /\ present' = (present \ (done \ switchedOn)) \cup (done \cap switchedOn)
          /\ lastRead' = IF d \in dozing THEN lastRead
                         ELSE (lastRead \ OnDevice(d)) \cup (present' \cap OnDevice(d))
          /\ applied' = applied \cup {r \in items : said[r] \in {"applied", "unverified"}}
    BY <1>1 DEF JobFinished
  <2> HIDE DEF items
  <2>3. present' \subseteq Wishes /\ lastRead' \subseteq Wishes /\ applied' \subseteq Wishes
    BY <2>1, <2>2 DEF LinksTyped
  <2>4. finished' \in 0..MaxHistory
    BY <1>1, ReportsAssumption DEF JobFinished, LinksTyped
  <2>5. UNCHANGED <<silent, dozing, ruled, switchedOn, hour, turns>>
    BY <1>1 DEF JobFinished
  <2>6. QED  BY <2>3, <2>4, <2>5 DEF LinksTyped
<1>2. ASSUME NEW d \in Sleepers, ReadDevice(d)  PROVE LinksTyped'
  BY <1>2, ReportsAssumption DEF ReadDevice, Turns, LinksTyped
<1>3. ASSUME NEW d \in Sleepers, SleepOrWakes(d)  PROVE LinksTyped'
  <2>1. present' \subseteq Wishes
    BY <1>3 DEF SleepOrWakes, OnDevice, LinksTyped
  <2>2. dozing' \subseteq Sleepers /\ turns' \in 0..MaxTurns
    BY <1>3, ReportsAssumption DEF SleepOrWakes, Turns, LinksTyped
  <2>3. QED  BY <1>3, <2>1, <2>2 DEF SleepOrWakes, LinksTyped
<1>4. ASSUME NEW r \in Wishes, EnableRule(r) \/ DeleteRule(r) \/ LinkLost(r)  PROVE LinksTyped'
  BY <1>4, ReportsAssumption DEF EnableRule, DeleteRule, LinkLost, Turns, LinksTyped
<1>5. CASE HourPasses \/ UNCHANGED reportsVars
  BY <1>5, ReportsAssumption DEF HourPasses, reportsVars, LinksTyped
<1>6. QED  BY <1>1, <1>2, <1>3, <1>4, <1>5 DEF ReportsNext

LEMMA QueueStep ==
  ReportsInv /\ LinksTyped /\ QueueTyped /\ [ReportsNext]_reportsVars => QueueTyped'
<1> SUFFICES ASSUME ReportsInv, LinksTyped, QueueTyped, [ReportsNext]_reportsVars
             PROVE  QueueTyped'
  OBVIOUS
<1>1. ASSUME NEW d \in Sleepers, JobFinished(d)  PROVE QueueTyped'
  <2> DEFINE items == PlannedFor(d)
             pending == IF d \in dozing THEN items ELSE {}
  <2>1. PICK said \in [items -> Outcomes] :
          jobs' = WithJob(jobs, [at |-> hour, results |-> said])
    BY <1>1 DEF JobFinished
  <2>2. /\ queued' = [r \in Wishes |-> IF r \notin pending THEN queued[r]
                                       ELSE IF r \in switchedOn THEN "add" ELSE "remove"]
        /\ queuedAt' = [r \in Wishes |-> IF r \in pending /\ queuedAt[r] = Never THEN hour
                                         ELSE queuedAt[r]]
    BY <1>1 DEF JobFinished
  <2>3. items \subseteq Wishes
    BY DEF PlannedFor, OnDevice
  <2> HIDE DEF items, pending
  <2>4. /\ queued' \in [Wishes -> {Never, "add", "remove"}]
        /\ queuedAt' \in [Wishes -> 0..MaxHours \cup {Never}]
    BY <2>2 DEF QueueTyped, LinksTyped
  <2>5. jobs \in Seq(Entries) /\ [at |-> hour, results |-> said] \in Entries
    BY <2>3 DEF ReportsInv, Ordered, Entries
  <2>6. Len(jobs') <= HistoryLength
    <3> DEFINE job == [at |-> hour, results |-> said]
    <3>1. job \in Entries
      BY <2>5
    <3> HIDE DEF job
    <3>2. CASE Len(jobs) < HistoryLength
      <4>1. WithJob(jobs, job) = Append(jobs, job)
        BY <3>2 DEF WithJob
      <4>2. QED  BY <2>1, <2>5, <3>1, <3>2, <4>1, ReportsAssumption DEF job
    <3>3. CASE ~(Len(jobs) < HistoryLength)
      <4>1. WithJob(jobs, job) = Append(Tail(jobs), job)
        BY <3>3 DEF WithJob
      <4>2. Len(jobs) \in Nat /\ Len(jobs) # 0
        BY <2>5, <3>3, ReportsAssumption
      <4>3. Tail(jobs) \in Seq(Entries) /\ Len(Tail(jobs)) = Len(jobs) - 1
        BY <2>5, <4>2
      <4>4. QED  BY <2>1, <3>1, <4>1, <4>2, <4>3 DEF QueueTyped, job
    <3>4. QED  BY <3>2, <3>3
  <2>7. QED  BY <2>4, <2>6 DEF QueueTyped
<1>2. ASSUME NEW d \in Sleepers, SleepOrWakes(d)  PROVE QueueTyped'
  BY <1>2 DEF SleepOrWakes, QueueTyped
<1>3. CASE \/ HourPasses \/ UNCHANGED reportsVars
           \/ \E d \in Sleepers : ReadDevice(d)
           \/ \E r \in Wishes : EnableRule(r) \/ DeleteRule(r) \/ LinkLost(r)
  <2>1. UNCHANGED <<queued, queuedAt, jobs>>
    BY <1>3 DEF HourPasses, reportsVars, ReadDevice, EnableRule, DeleteRule, LinkLost
  <2>2. QED  BY <2>1 DEF QueueTyped
<1>4. QED  BY <1>1, <1>2, <1>3 DEF ReportsNext

LEMMA ToldStep == LinksTyped' /\ ToldTyped /\ [ReportsNext]_reportsVars => ToldTyped'
<1> SUFFICES ASSUME LinksTyped', ToldTyped, [ReportsNext]_reportsVars PROVE ToldTyped'
  OBVIOUS
<1>1. \A history, rules, now : rules \subseteq Wishes => PendingWakeups(history, rules, now) \subseteq Sleepers
  BY ReportsAssumption DEF PendingWakeups
<1>2. CASE UpdateListeners
  <2>1. Drifted(switchedOn', lastRead', silent', applied') \subseteq Wishes
    BY DEF Drifted, LinksTyped
  <2>2. QED  BY <1>1, <1>2, <2>1 DEF UpdateListeners, CheckDrift, ToldTyped, LinksTyped
<1>3. CASE HourPasses
  BY <1>1, <1>3 DEF HourPasses, ToldTyped, LinksTyped
<1>4. CASE \/ UNCHANGED reportsVars \/ \E d \in Sleepers : SleepOrWakes(d)
           \/ \E r \in Wishes : LinkLost(r)
  BY <1>4 DEF reportsVars, SleepOrWakes, LinkLost, ToldTyped
<1>5. QED
  BY <1>2, <1>3, <1>4 DEF ReportsNext, JobFinished, ReadDevice, EnableRule, DeleteRule

(* Events and issues: what is announced are rules, what is named devices,  *)
(* and no history is longer than its limit (with_job).                     *)
THEOREM ReportsTyped == ReportsSpec => []ReportsTypeOK
<1>1. ReportsInit => LinksTyped /\ QueueTyped /\ ToldTyped
  BY ReportsAssumption DEF ReportsInit, LinksTyped, QueueTyped, ToldTyped, Drifted
<1>2. LinksTyped /\ QueueTyped /\ ToldTyped => ReportsTypeOK
  BY DEF LinksTyped, QueueTyped, ToldTyped, ReportsTypeOK
<1>3. QED
  BY <1>1, <1>2, LinksStep, QueueStep, ToldStep, ReportsAlways, PTL DEF ReportsSpec
=============================================================================
