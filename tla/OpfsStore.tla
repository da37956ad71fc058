----------------------------- MODULE OpfsStore -----------------------------
(***************************************************************************)
(* OpfsSnapshotStore of src/src/sandbox/snapshot-store.ts: one file for     *)
(* each snapshot id.  save() creates the file, writes a copy of it on the   *)
(* side and puts that in its place by close(); any step may fail, and the   *)
(* page may be reloaded between two of them.  The file system is modelled   *)
(* as the File System standard has it: a file that is being written cannot  *)
(* be removed.                                                              *)
(***************************************************************************)
EXTENDS FiniteSets

CONSTANTS
    Saves,          \* the calls of save(); each has a snapshot of its own
    SnapshotIds

ASSUME SavesAssumption == Saves \cap {"none", "empty"} = {}

VARIABLES
    files,          \* files[id]: "none", "empty", or the save whose snapshot it holds
    save,           \* save[s]: the id it writes to and how far it is
    listing,        \* the call of list() under way, or the last one
    due             \* the saves that returned, were not overwritten by another,
                    \* and whose removal nobody asked for

storeVars == <<files, save, listing, due>>

NotListed == [active |-> FALSE, unread |-> {}, found |-> {}, owed |-> {}]

StoreInit ==
    /\ files = [id \in SnapshotIds |-> "none"]
    /\ save = [s \in Saves |-> [id |-> "none", at |-> "uncalled"]]
    /\ listing = NotListed
    /\ due = {}

\* What load() and list() can parse; load() takes anything else for none.
Whole(id) == files[id] \in Saves
At(s, place) == save[s].at = place
Moves(s, place) == save' = [save EXCEPT ![s].at = place]
Writing(id) == \E s \in Saves : At(s, "writing") /\ save[s].id = id
-----------------------------------------------------------------------------
(* save().                                                                  *)

Save(s, id) ==
    /\ At(s, "uncalled")
    /\ save' = [save EXCEPT ![s] = [id |-> id, at |-> "called"]]
    /\ UNCHANGED <<files, listing, due>>

\* getFileHandle(): the file is there from now on, empty if it is new.
Create(s) ==
    /\ At(s, "called")
    /\ Moves(s, "created")
    /\ files' = [files EXCEPT ![save[s].id] = IF @ = "none" THEN "empty" ELSE @]
    /\ UNCHANGED <<listing, due>>

\* createWritable() finds the file gone, or opens a copy of it; what write()
\* puts there is not seen before close().
Open(s) ==
    /\ At(s, "created")
    /\ Moves(s, IF files[save[s].id] = "none" THEN "failed" ELSE "writing")
    /\ UNCHANGED <<files, listing, due>>

\* Mutant: save() does not await close().
CloseUnawaited(s) ==
    /\ At(s, "writing")
    /\ Moves(s, "saved")
    /\ due' = {t \in due : save[t].id # save[s].id} \cup {s}
    /\ UNCHANGED <<files, listing>>

Close(s) ==
    /\ At(s, "writing")
    /\ Moves(s, "saved")
    /\ files' = [files EXCEPT ![save[s].id] = s]
    /\ due' = {t \in due : save[t].id # save[s].id} \cup {s}
    /\ listing' = [listing EXCEPT !.owed = @ \ {t \in Saves : save[t].id = save[s].id}]

\* No space, no permission, or a snapshot that JSON cannot hold.
SaveFails(s) ==
    /\ save[s].at \in {"called", "created", "writing"}
    /\ Moves(s, "failed")
    /\ UNCHANGED <<files, listing, due>>
-----------------------------------------------------------------------------
(* The other operations, and the reload of the page.                        *)

\* remove() says nothing of a file it could not remove, for whatever reason.
RemoveFile(id) ==
    /\ files' \in {files} \cup (IF Writing(id) THEN {} ELSE {[files EXCEPT ![id] = "none"]})
    /\ due' = {s \in due : save[s].id # id}
    /\ listing' = [listing EXCEPT !.owed = @ \ {s \in Saves : save[s].id = id}]
    /\ UNCHANGED save

List ==
    /\ ~listing.active
    /\ listing' = [active |-> TRUE, unread |-> SnapshotIds, found |-> {}, owed |-> due]
    /\ UNCHANGED <<files, save, due>>

\* Mutant: a file that cannot be read ends the list.
ReadOrStop(id) ==
    /\ listing.active /\ id \in listing.unread
    /\ listing' = IF files[id] = "empty" THEN [listing EXCEPT !.unread = {}]
                  ELSE [listing EXCEPT !.unread = @ \ {id},
                            !.found = IF Whole(id) THEN @ \cup {files[id]} ELSE @]
    /\ UNCHANGED <<files, save, due>>

\* One file of the directory, in any order; one that cannot be parsed is skipped.
Read(id) ==
    /\ listing.active /\ id \in listing.unread
    /\ listing' = [listing EXCEPT !.unread = @ \ {id},
                       !.found = IF Whole(id) THEN @ \cup {files[id]} ELSE @]
    /\ UNCHANGED <<files, save, due>>

Listed ==
    /\ listing.active /\ listing.unread = {}
    /\ listing' = [listing EXCEPT !.active = FALSE]
    /\ UNCHANGED <<files, save, due>>

\* What was under way is lost; what is in the files stays.
Reload ==
    /\ save' = [s \in Saves |-> IF save[s].at \in {"called", "created", "writing"}
                                THEN [save[s] EXCEPT !.at = "lost"] ELSE save[s]]
    /\ listing' = NotListed
    /\ UNCHANGED <<files, due>>

StoreNext ==
    \/ \E s \in Saves, id \in SnapshotIds : Save(s, id)
    \/ \E s \in Saves : Create(s) \/ Open(s) \/ Close(s) \/ SaveFails(s)
    \/ \E id \in SnapshotIds : RemoveFile(id) \/ Read(id)
    \/ List \/ Listed \/ Reload
-----------------------------------------------------------------------------
\* A snapshot is there once its save() returned, until another is saved under its
\* id or it is removed: through reloads, and through saves of the same id that
\* fail or are lost half-way.  (save(): close() is awaited.)
SavedIsThere == \A s \in due : files[save[s].id] = s

\* list() finds every snapshot that was there when it began and is still there,
\* whatever half-written files lie beside it.
\* (list(): the try inside its loop.)
ListFindsThemAll ==
    ~listing.active => listing.owed \subseteq listing.found
=============================================================================
