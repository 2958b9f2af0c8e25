----------------------------- MODULE BlobStore -----------------------------
(***************************************************************************)
(* The content-addressed store (wardrobe-platform/src/blob.rs) and the     *)
(* three ways into it: put, for imports, try-on outputs and photographs;   *)
(* the prepared operation, for the messages of a Gmail batch; and the      *)
(* promotion of a receipt image (receipt_repository.rs), which does not    *)
(* take the store's lock.                                                  *)
(*                                                                         *)
(* Different contents have nothing in common, so there is one, which every *)
(* writer stores, a batch even several times.  A file is written under a   *)
(* name of its own in the staging directory and linked to the name of its  *)
(* content; the number of its links tells a file that is still being       *)
(* published, or whose publication may be undone, from one that is safe.   *)
(* A writer records the content in the database when it has stored it.     *)
(***************************************************************************)
EXTENDS Naturals

CONSTANTS
    Putters,   \* threads that call put, put_reader or promote_prepared
    Entries,   \* the messages of a batch, all with the same content
    MaxFiles,  \* bound: files and batches written
    MaxCrashes \* bound: crashes

\* What the constants are: a batch has messages, and their files are nobody else's.
BlobStoreConstants ==
    /\ Entries # {} /\ Entries \cap (Putters \cup {"nobody", "image"}) = {}
    /\ MaxFiles \in Nat

VARIABLES
    stored,      \* the file under the name of the content
    parts,       \* files in the staging directory
    directories, \* the directories of batches: files left, and the manifest
    recorded,    \* whether blobs has a row of the content
    lock,        \* who holds the publication lock
    putters,     \* where each putter stands, and its file
    image,       \* the same of the download of a receipt image
    batch,       \* the Gmail batch: its step, its directory, what it has checked
    up,          \* whether the database is open
    written, crashes

disk == <<stored, parts, directories>>
threads == <<putters, image, batch>>
vars == <<disk, recorded, lock, threads, up, written, crashes>>

Nobody == "nobody"
NoFile == [by |-> Nobody, number |-> 0]
Idle == [at |-> "idle", file |-> NoFile]
NoManifest == [e \in {} |-> FALSE]
NoBatch == [at |-> "idle", directory |-> 0, preexisted |-> NoManifest, linked |-> {}]
NoDirectory == [files |-> {}, manifest |-> NoManifest, exists |-> FALSE]

Init ==
    /\ stored = NoFile /\ parts = {} /\ recorded = FALSE /\ lock = Nobody
    /\ directories = [d \in 1..MaxFiles |-> NoDirectory]
    /\ putters = [w \in Putters |-> Idle] /\ image = Idle /\ batch = NoBatch
    /\ up = TRUE /\ written = 0 /\ crashes = 0

\* Another file is written.
Write ==
    /\ written < MaxFiles
    /\ written' = written + 1

NewFile(who) == [by |-> who, number |-> written + 1]

\* Metadata::nlink of the stored file.
nlink == IF stored \in parts \cup UNION {directories[d].files : d \in 1..MaxFiles} THEN 2 ELSE 1

verify_final == stored # NoFile /\ nlink = 1

PutterTo(w, at, file) == putters' = [putters EXCEPT ![w] = [at |-> at, file |-> file]]

-----------------------------------------------------------------------------
\* put, put_reader and promote_prepared, under the publication lock

put(w) ==
    /\ up /\ putters[w] = Idle /\ lock = Nobody
    /\ lock' = w
    /\ Write
    /\ parts' = parts \cup {NewFile(w)}
    /\ PutterTo(w, "staged", NewFile(w))
    /\ UNCHANGED <<stored, directories, recorded, image, batch, up, crashes>>

hard_link(w) ==
    /\ putters[w].at = "staged"
    /\ stored' = IF stored = NoFile THEN putters[w].file ELSE stored
    /\ PutterTo(w, "linked", putters[w].file)
    /\ UNCHANGED <<parts, directories, recorded, lock, image, batch, up, written, crashes>>

remove_staging(w) ==
    /\ putters[w].at = "linked"
    /\ parts' = parts \ {putters[w].file}
    /\ PutterTo(w, "removed", NoFile)
    /\ UNCHANGED <<stored, directories, recorded, lock, image, batch, up, written, crashes>>

\* The call ends; without a proper file it ends with an error.
put_returns(w) ==
    /\ putters[w].at = "removed"
    /\ PutterTo(w, IF verify_final THEN "storing" ELSE "idle", NoFile)
    /\ lock' = Nobody
    /\ UNCHANGED <<disk, recorded, image, batch, up, written, crashes>>

\* insert_blob_record, in the transaction of the caller, or its failure.
insert_blob_record(w) ==
    /\ putters[w].at = "storing"
    /\ recorded' \in {recorded, TRUE}
    /\ PutterTo(w, "idle", NoFile)
    /\ UNCHANGED <<disk, lock, image, batch, up, written, crashes>>

-----------------------------------------------------------------------------
\* The receipt image: no lock

stage_image ==
    /\ up /\ image = Idle
    /\ Write
    /\ parts' = parts \cup {NewFile("image")}
    /\ image' = [at |-> "staged", file |-> NewFile("image")]
    /\ UNCHANGED <<stored, directories, recorded, lock, putters, batch, up, crashes>>

promote_link ==
    /\ image.at = "staged"
    /\ stored' = IF stored = NoFile THEN image.file ELSE stored
    /\ image' = [image EXCEPT !.at = "linked"]
    /\ UNCHANGED <<parts, directories, recorded, lock, putters, batch, up, written, crashes>>

promote_remove ==
    /\ image.at = "linked"
    /\ parts' = parts \ {image.file}
    /\ image' = [at |-> "removed", file |-> NoFile]
    /\ UNCHANGED <<stored, directories, recorded, lock, putters, batch, up, written, crashes>>

promote_verify ==
    /\ image.at = "removed"
    /\ image' = IF verify_final THEN [image EXCEPT !.at = "storing"] ELSE Idle
    /\ UNCHANGED <<disk, recorded, lock, putters, batch, up, written, crashes>>

commit_image ==
    /\ image.at = "storing"
    /\ recorded' \in {recorded, TRUE}
    /\ image' = Idle
    /\ UNCHANGED <<disk, lock, putters, batch, up, written, crashes>>

\* The attempt of a crashed download is settled later, which removes its files.
settle_image ==
    /\ up
    /\ \E f \in parts : f.by = "image" /\ f # image.file /\ parts' = parts \ {f}
    /\ UNCHANGED <<stored, directories, recorded, lock, threads, up, written, crashes>>

-----------------------------------------------------------------------------
\* The prepared operation of a Gmail batch

BatchStep(at) == batch' = [batch EXCEPT !.at = at]

\* begin_prepared_operation and stage: a directory with a file for every entry.
stage ==
    /\ up /\ batch = NoBatch
    /\ Write
    /\ directories' = [directories EXCEPT ![written + 1] =
         [files |-> {[by |-> e, number |-> written + 1] : e \in Entries},
          manifest |-> NoManifest, exists |-> TRUE]]
    /\ batch' = [NoBatch EXCEPT !.at = "staged", !.directory = written + 1]
    /\ UNCHANGED <<stored, parts, recorded, lock, putters, image, up, crashes>>

Directory == directories[batch.directory]
FileOf(e) == [by |-> e, number |-> batch.directory]

\* publish takes the lock.
publish ==
    /\ batch.at = "staged" /\ lock = Nobody
    /\ lock' = "gmail"
    /\ BatchStep("checking")
    /\ UNCHANGED <<disk, recorded, putters, image, up, written, crashes>>

\* An entry whose content is stored, and sound, already is marked as such.
publish_check(e) ==
    /\ batch.at = "checking" /\ e \notin DOMAIN batch.preexisted
    /\ stored = NoFile \/ verify_final
    /\ batch' = [batch EXCEPT !.preexisted =
                   [x \in DOMAIN @ \cup {e} |-> IF x = e THEN stored # NoFile ELSE @[x]]]
    /\ UNCHANGED <<disk, recorded, lock, putters, image, up, written, crashes>>

write_prepared_operation_manifest ==
    /\ batch.at = "checking" /\ DOMAIN batch.preexisted = Entries
    /\ directories' = [directories EXCEPT ![batch.directory].manifest = batch.preexisted]
    /\ BatchStep("linking")
    /\ UNCHANGED <<stored, parts, recorded, lock, putters, image, up, written, crashes>>

\* A content that appeared in the meantime is as good as one's own.
publish_link(e) ==
    /\ batch.at = "linking" /\ e \notin batch.linked
    /\ stored' = IF Directory.manifest[e] \/ stored # NoFile THEN stored ELSE FileOf(e)
    /\ batch' = [batch EXCEPT !.linked = @ \cup {e}]
    /\ UNCHANGED <<parts, directories, recorded, lock, putters, image, up, written, crashes>>

\* The transaction of the batch commits.
commit ==
    /\ batch.at = "linking" /\ batch.linked = Entries
    /\ recorded' = TRUE
    /\ BatchStep("committed")
    /\ UNCHANGED <<disk, lock, putters, image, up, written, crashes>>

(* Mutant: everything that the manifest names is removed.                  *)
undone_ByName(manifest, number) == DOMAIN manifest # {}

(* An entry undoes what it has linked itself: same_file.                   *)
undone(manifest, number) ==
    \E e \in DOMAIN manifest : ~manifest[e] /\ stored = [by |-> e, number |-> number]

\* The batch fails at any point before: Drop for PreparedBlobOperation, first the
\* stored file, then the directory.
drop ==
    /\ batch.at \in {"staged", "checking", "linking"}
    /\ stored' = IF undone(Directory.manifest, batch.directory) THEN NoFile ELSE stored
    /\ BatchStep("cleaning")
    /\ UNCHANGED <<parts, directories, recorded, lock, putters, image, up, written, crashes>>

\* cleanup_prepared_operation_directory: its files go in any order, then it goes.
Cleaned(d) ==
    LET left == directories[d] IN
    \/ \E f \in left.files : directories' = [directories EXCEPT ![d].files = @ \ {f}]
    \/ left.manifest # NoManifest /\ directories' = [directories EXCEPT ![d].manifest = NoManifest]
    \/ left.files = {} /\ left.manifest = NoManifest
       /\ directories' = [directories EXCEPT ![d] = NoDirectory]

cleanup ==
    /\ batch.at \in {"committed", "cleaning"} /\ Directory.exists
    /\ Cleaned(batch.directory)
    /\ UNCHANGED <<stored, parts, recorded, lock, threads, up, written, crashes>>

\* Errors of the cleanup are ignored, so it may end at any point.
release ==
    /\ batch.at \in {"committed", "cleaning"}
    /\ batch' = NoBatch
    /\ lock' = IF lock = "gmail" THEN Nobody ELSE lock
    /\ UNCHANGED <<disk, recorded, putters, image, up, written, crashes>>

-----------------------------------------------------------------------------
Crash ==
    /\ crashes < MaxCrashes
    /\ crashes' = crashes + 1
    /\ up' = FALSE /\ lock' = Nobody
    /\ putters' = [w \in Putters |-> Idle] /\ image' = Idle /\ batch' = NoBatch
    /\ UNCHANGED <<disk, recorded, written>>

\* recover_prepared_operation: a batch without its row is undone, and its directory goes.
recover_prepared_operation(d) ==
    /\ ~up /\ directories[d].exists
    /\ IF ~recorded /\ undone(directories[d].manifest, d)
       THEN stored' = NoFile /\ UNCHANGED directories
       ELSE (recorded => stored # NoFile) /\ Cleaned(d) /\ UNCHANGED stored
    /\ UNCHANGED <<parts, recorded, lock, threads, up, written, crashes>>

Open ==
    /\ ~up
    /\ \A d \in 1..MaxFiles : ~directories[d].exists
    /\ up' = TRUE
    /\ UNCHANGED <<disk, recorded, lock, threads, written, crashes>>

Next ==
    \/ \E w \in Putters :
         \/ put(w) \/ hard_link(w) \/ remove_staging(w) \/ put_returns(w)
         \/ insert_blob_record(w)
    \/ stage_image \/ promote_link \/ promote_remove \/ promote_verify \/ commit_image
    \/ settle_image
    \/ stage \/ publish \/ write_prepared_operation_manifest \/ commit \/ drop \/ cleanup
    \/ release
    \/ \E e \in Entries : publish_check(e) \/ publish_link(e)
    \/ Crash \/ Open
    \/ \E d \in 1..MaxFiles : recover_prepared_operation(d)

Spec == Init /\ [][Next]_vars

-----------------------------------------------------------------------------
(* A content is stored as it is recorded: whatever crashes, fails or is    *)
(* undone, and whoever else stores the same bytes at the same time, a      *)
(* recorded content has its file, and a batch that was not recorded leaves *)
(* none once its directory is gone (PreparedBlobOperation, promote_staged, *)
(* recover_prepared_operation).                                            *)
StoredAsRecorded ==
    /\ recorded => stored # NoFile
    /\ stored.by \in Entries /\ ~directories[stored.number].exists => recorded

(* A stored content can be used and stored again once the application has  *)
(* started: promote_staged replaced its temporary name atomically.         *)
StartedStoreIsSound ==
    [][~up /\ up' /\ stored # NoFile => verify_final]_vars
=============================================================================
