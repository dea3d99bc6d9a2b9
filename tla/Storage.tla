------------------------------- MODULE Storage -------------------------------
(***************************************************************************)
(* Where the profiles live: storage.DeviceLinksStore, the coordinator's    *)
(* async_update_state that feeds it, yaml_mirror.YamlMirror, and the config *)
(* entry whose set-ups and unloads begin and end them (__init__.py).       *)
(*                                                                         *)
(* What is stored is a text for each profile, the rules in it, and which   *)
(* profile is active.  Every set-up makes a store of its own over the one  *)
(* file; a store that an unload leaves behind still has its delayed save.  *)
(* The commands that edit profiles (websocket.py, services.py, select.py)  *)
(* read the state and replace it in one step of the event loop.  Saves     *)
(* fall due in the order they were scheduled in, for the delay is one      *)
(* constant; a write of the mirror is over before the next one is due      *)
(* (FLUSH_DELAY_SECONDS).                                                  *)
(***************************************************************************)
EXTENDS Integers

CONSTANTS
  Profiles,
  Texts,        \* what the rules of a profile may say
  Backups,      \* the states that may be in the file at first, or be put back in it
  NoProfile,    \* no profile: the text of one there is none of, the active one of none
  Nothing,      \* no data
  TooNew,       \* a file of a schema this version does not read
  MaxStarts,    \* bound: set-ups of the entry
  MaxEdits      \* bound: edits, crashes and files put in place

ASSUME StorageAssumption ==
  /\ NoProfile \notin Texts \cup Profiles
  /\ Backups \subseteq [profiles : [Profiles -> Texts \cup {NoProfile}],
                         active : Profiles \cup {NoProfile}]
  /\ {Nothing, TooNew} \cap [profiles : [Profiles -> Texts \cup {NoProfile}],
                            active : Profiles \cup {NoProfile}] = {}
  /\ MaxStarts \in Nat \ {0} /\ MaxEdits \in Nat

VARIABLES
  running,      \* Home Assistant runs
  entry,        \* the config entry
  store,        \* which store the coordinator has: the set-ups so far
  state,        \* DeviceLinksCoordinator._state
  unsaved,      \* the data each store has yet to write
  saving,       \* the data each store is writing
  file,         \* .storage/device_links.profiles
  directory,    \* the mirror is on: _directory
  armed,        \* _flush_handle
  flushing,     \* the files the executor is writing
  written,      \* _written
  broken,       \* _broken
  mirrored,     \* the files of the mirror
  wish,         \* history: the profiles as they were last edited
  crashed,      \* history: Home Assistant has died
  hurried,      \* history: an entry was unloaded before its store had saved
  edits

storageVars == <<running, entry, store, state, unsaved, saving, file, directory, armed,
                 flushing, written, broken, mirrored, wish, crashed, hurried, edits>>
mirror == <<directory, armed, flushing, written, broken, mirrored>>
stores == <<unsaved, saving, file>>

Contents == [Profiles -> Texts \cup {NoProfile}]
States == [profiles : Contents, active : Profiles \cup {NoProfile}]
NoFiles == [p \in Profiles |-> NoProfile]
EmptyState == [profiles |-> NoFiles, active |-> NoProfile]
Stores == 1..MaxStarts
Kept(data) == \A s \in Stores : data[s] = Nothing

StorageInit ==
  /\ running = TRUE
  /\ entry = "unloaded"
  /\ store = 0
  /\ state = EmptyState
  /\ unsaved = [s \in Stores |-> Nothing]
  /\ saving = [s \in Stores |-> Nothing]
  /\ \/ file = Nothing /\ wish = EmptyState
     \/ file \in Backups /\ wish = file
  /\ directory = FALSE /\ armed = FALSE
  /\ flushing = Nothing
  /\ written = NoFiles
  /\ broken = FALSE
  /\ mirrored \in {NoFiles, wish.profiles}
  /\ crashed = FALSE /\ hurried = FALSE
  /\ edits = 0

----------------------------------------------------------------------------
(* YamlMirror._async_changed, on every update of the coordinator.          *)
Noticed(wanted) ==
  armed' = (armed \/ (directory /\ ~broken /\ wanted.profiles # written))

(* Mutant of ScheduleSave: a save that is already due keeps its data.      *)
ScheduleFirst(data) ==
  unsaved' = [unsaved EXCEPT ![store] = IF @ = Nothing THEN data ELSE @]

(* async_schedule_save: the data is of this moment, and the last one wins. *)
ScheduleSave(data) ==
  unsaved' = [unsaved EXCEPT ![store] = data]

(* async_update_state: the whole state is another one at once.             *)
UpdateState(new) ==
  /\ entry = "loaded"
  /\ edits < MaxEdits /\ edits' = edits + 1
  /\ state' = new /\ wish' = new
  /\ ScheduleSave(new)
  /\ Noticed(new)
  /\ UNCHANGED <<running, entry, store, saving, file, directory, flushing, written, broken,
                 mirrored, crashed, hurried>>

(* _profile: the commands that name a stored profile refuse any other.     *)
StoredProfiles == {p \in Profiles : state.profiles[p] # NoProfile}

(* _active: the profile that is active, if it is one that is stored.       *)
ActiveProfiles == {p \in StoredProfiles : state.active = p}

(* _stored_with: in its place, or after the others.                        *)
StoredWith(p, text) == [state EXCEPT !.profiles[p] = text]

(* profiles/create.                                                        *)
CreateProfile(p, text) == p \notin StoredProfiles /\ UpdateState(StoredWith(p, text))

(* profiles/update.                                                        *)
UpdateProfile(p, text) == p \in StoredProfiles /\ UpdateState(StoredWith(p, text))

(* profiles/import and its service: in place of the one of its id, if any. *)
ImportProfile(p, text) == UpdateState(StoredWith(p, text))

(* profiles/duplicate: the same rules, ids and all, under a new id.        *)
DuplicateProfile(p, copy) ==
  /\ p \in StoredProfiles /\ copy \notin StoredProfiles
  /\ UpdateState(StoredWith(copy, state.profiles[p]))

(* profiles/delete: the active one leaves none active.                     *)
DeleteProfile(p) ==
  /\ p \in StoredProfiles
  /\ UpdateState([profiles |-> [state.profiles EXCEPT ![p] = NoProfile],
                  active |-> IF state.active = p THEN NoProfile ELSE state.active])

(* profiles/activate, its service and the select entity.                   *)
ActivateProfile(p) == p \in StoredProfiles /\ UpdateState([state EXCEPT !.active = p])

(* rules/upsert and rules/delete, of the profile named or the active one.  *)
EditRule(p, text) ==
  /\ p \in StoredProfiles /\ text # state.profiles[p]
  /\ UpdateState(StoredWith(p, text))

(* async_set_rule_enabled, of the active one only.                         *)
SetRuleEnabled(text) ==
  \E p \in ActiveProfiles : text # state.profiles[p] /\ UpdateState(StoredWith(p, text))

(* Any other update: a device was read.                                    *)
DeviceUpdate ==
  /\ entry = "loaded"
  /\ Noticed(state)
  /\ UNCHANGED <<running, entry, store, state, stores, directory, flushing, written, broken,
                 mirrored, wish, crashed, hurried, edits>>

(* The delay of a store is over.  The stores that unloads left behind are  *)
(* the older ones.                                                         *)
SaveDue(s) ==
  /\ running
  /\ unsaved[s] # Nothing /\ saving[s] = Nothing
  /\ \A older \in 1..(s - 1) : unsaved[older] = Nothing
  /\ saving' = [saving EXCEPT ![s] = unsaved[s]]
  /\ unsaved' = [unsaved EXCEPT ![s] = Nothing]
  /\ UNCHANGED <<running, entry, store, state, file, mirror, wish, crashed, hurried, edits>>

Saved(s) ==
  /\ saving[s] # Nothing
  /\ file' = saving[s]
  /\ saving' = [saving EXCEPT ![s] = Nothing]
  /\ UNCHANGED <<running, entry, store, state, unsaved, mirror, wish, crashed, hurried, edits>>

(* _async_flush, until the executor has the files ...                      *)
FlushDue ==
  /\ armed /\ flushing = Nothing
  /\ armed' = FALSE
  /\ flushing' = [by |-> store, files |-> state.profiles]
  /\ UNCHANGED <<running, entry, store, state, stores, directory, written, broken, mirrored,
                 wish, crashed, hurried, edits>>

(* Mutant of Flushed: the mirror takes it that it holds what is wanted by  *)
(* then.                                                                   *)
FlushedAll ==
  /\ flushing # Nothing
  /\ flushing' = Nothing
  /\ mirrored' = flushing.files
  /\ written' = IF directory /\ flushing.by = store THEN state.profiles ELSE written
  /\ UNCHANGED <<running, entry, store, state, stores, directory, armed, broken, wish, crashed,
                 hurried, edits>>

(* ... and its end: all files are written, or an OSError comes after some  *)
(* of them.  A flush that an unload left behind changes no other mirror.   *)
Flushed ==
  /\ flushing # Nothing
  /\ flushing' = Nothing
  /\ LET mine == directory /\ flushing.by = store
     IN \/ /\ mirrored' = flushing.files
           /\ written' = IF mine THEN flushing.files ELSE written
           /\ UNCHANGED broken
        \/ /\ \E part \in SUBSET Profiles : mirrored' =
                [p \in Profiles |-> IF p \in part THEN flushing.files[p] ELSE mirrored[p]]
           /\ broken' = (broken \/ mine)
           /\ UNCHANGED written
  /\ UNCHANGED <<running, entry, store, state, stores, directory, armed, wish, crashed,
                 hurried, edits>>

----------------------------------------------------------------------------
(* async_load: the schema is not one this version reads.                   *)
Unreadable == file = TooNew

(* async_setup_entry: a store of its own, its file loaded, and the mirror  *)
(* set up; or the entry in error, with the file as it is.                  *)
Setup ==
  /\ running /\ entry = "unloaded"
  /\ store < MaxStarts /\ store' = store + 1
  /\ \/ /\ Unreadable
        /\ entry' = "refused"
        /\ UNCHANGED <<state, directory, armed, written, broken>>
     \/ /\ ~Unreadable
        /\ entry' = "loaded"
        /\ state' = IF file \in States THEN file ELSE EmptyState
        /\ directory' \in BOOLEAN
        /\ written' = NoFiles
        /\ broken' = FALSE
        /\ armed' = (directory' /\ state'.profiles # NoFiles)
  /\ UNCHANGED <<running, stores, flushing, mirrored, wish, crashed, hurried, edits>>

(* What ends with the entry: the timer of the mirror, and nothing of the   *)
(* store.                                                                  *)
EntryGone ==
  /\ entry' = "unloaded"
  /\ directory' = FALSE /\ armed' = FALSE
  /\ UNCHANGED <<store, state, written, broken, wish>>

(* async_unload_entry, also as the first half of a reload.                 *)
Unload ==
  /\ running /\ entry # "unloaded"
  /\ EntryGone
  /\ hurried' = (hurried \/ ~Kept(unsaved) \/ ~Kept(saving))
  /\ UNCHANGED <<running, stores, flushing, mirrored, crashed, edits>>

Forgotten ==
  /\ running' = FALSE
  /\ unsaved' = [s \in Stores |-> Nothing]
  /\ saving' = [s \in Stores |-> Nothing]
  /\ flushing' = Nothing
  /\ EntryGone

(* Home Assistant stops: every store writes what it has, all at once.      *)
Stop ==
  /\ running
  /\ LET last == [s \in Stores |-> IF unsaved[s] # Nothing THEN unsaved[s] ELSE saving[s]]
     IN IF Kept(last) THEN UNCHANGED file
        ELSE \E s \in Stores : last[s] # Nothing /\ file' = last[s]
  /\ mirrored' = IF flushing = Nothing THEN mirrored ELSE flushing.files
  /\ Forgotten
  /\ UNCHANGED <<crashed, hurried, edits>>

(* Home Assistant dies: a file is replaced as a whole or not at all.       *)
Crash ==
  /\ running
  /\ edits < MaxEdits /\ edits' = edits + 1
  /\ \/ UNCHANGED file
     \/ \E s \in Stores : saving[s] # Nothing /\ file' = saving[s]
  /\ crashed' = TRUE
  /\ Forgotten
  /\ UNCHANGED <<mirrored, hurried>>

Start ==
  /\ ~running
  /\ running' = TRUE
  /\ UNCHANGED <<entry, store, state, stores, mirror, wish, crashed, hurried, edits>>

(* While it is down: the file of a newer version, or a backup.             *)
PutFile ==
  /\ ~running
  /\ edits < MaxEdits /\ edits' = edits + 1
  /\ \/ file' = TooNew /\ UNCHANGED wish
     \/ \E backup \in Backups : file' = backup /\ wish' = backup
  /\ UNCHANGED <<running, entry, store, state, unsaved, saving, mirror, crashed, hurried>>

StorageNext ==
  \/ \E p \in Profiles :
       \/ \E text \in Texts : \/ CreateProfile(p, text) \/ UpdateProfile(p, text)
                             \/ ImportProfile(p, text) \/ EditRule(p, text)
       \/ \E copy \in Profiles : DuplicateProfile(p, copy)
       \/ DeleteProfile(p) \/ ActivateProfile(p)
  \/ \E text \in Texts : SetRuleEnabled(text)
  \/ DeviceUpdate
  \/ \E s \in Stores : SaveDue(s) \/ Saved(s)
  \/ FlushDue \/ Flushed
  \/ Setup \/ Unload
  \/ Stop \/ Crash \/ Start \/ PutFile

StorageSpec == StorageInit /\ [][StorageNext]_storageVars

----------------------------------------------------------------------------
StorageTypeOK ==
  /\ running \in BOOLEAN
  /\ entry \in {"unloaded", "loaded", "refused"}
  /\ store \in 0..MaxStarts
  /\ state \in States
  /\ unsaved \in [Stores -> States \cup {Nothing}]
  /\ saving \in [Stores -> States \cup {Nothing}]
  /\ file \in States \cup {Nothing, TooNew}
  /\ directory \in BOOLEAN /\ armed \in BOOLEAN
  /\ flushing \in [by : Stores, files : Contents] \cup {Nothing}
  /\ written \in Contents
  /\ broken \in BOOLEAN
  /\ mirrored \in Contents
  /\ wish \in States
  /\ crashed \in BOOLEAN /\ hurried \in BOOLEAN
  /\ edits \in 0..MaxEdits

(* An edit is lost to nothing but a crash, as long as no entry is unloaded *)
(* in the seconds before its store has saved.                              *)
EditsKept == entry = "loaded" /\ ~crashed /\ ~hurried => state = wish

(* storage.py:252: "the delay costs durability only in a hard crash".      *)
OnlyCrashesLose == entry = "loaded" /\ ~crashed => state = wish

(* What the mirror believes it has written is what its files say, whatever *)
(* was edited while it was writing: otherwise no update would ever correct *)
(* them.                                                                   *)
MirrorKnows ==
  directory /\ ~broken /\ flushing = Nothing /\ written = state.profiles /\ state.profiles # NoFiles
    => mirrored = state.profiles

=============================================================================
