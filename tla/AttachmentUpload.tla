-------------------------- MODULE AttachmentUpload --------------------------
(***************************************************************************)
(* The life of one uploaded file on PostgreSQL: its row of attachments,    *)
(* its bytes in object storage and the journal of storage keys to reclaim  *)
(* (src/db/attachments.rs, src/attachments/, src/jobs/uploads.rs).         *)
(*                                                                         *)
(* Row and bytes are never changed together: every operation is a chain    *)
(* of transactions and storage calls that a crash may cut anywhere.  What  *)
(* orders the chains is the upload's session advisory lock, which lives    *)
(* as long as the connection that took it.  The purge of an owner (the     *)
(* file's document or workspace) takes no lock, and removes the object     *)
(* before the row.                                                         *)
(*                                                                         *)
(* The content of a file is the ETag of each of its parts.  Attachment     *)
(* ids and storage keys are fresh, so files do not meet each other.        *)
(***************************************************************************)
EXTENDS Integers, FiniteSets

CONSTANTS
    Completers,     \* requests that complete the upload
    Sweepers,       \* stale upload collectors, one per server
    Reclaimers,     \* journal drains, one per server and deletion
    Purgers,        \* purges of the owner, one per server
    Nobody,         \* the holder of a free lock
    Parts,          \* the part numbers 1 .. part_count
    Etags,          \* what the client may send as a part
    ShortEtags,     \* parts below their exact length
    NoEtag,         \* a part that was not sent
    None,           \* no row, no upload, no content
    Storages,       \* the configurations "local", "s3" and "presigned"
    MaxFaults,      \* bound on crashes and failed storage calls
    MaxLosses       \* bound on lost connections of a running process

\* Who takes the upload's lock, and who works on the key.
Lockers == Completers \cup Sweepers \cup Reclaimers
Actors == Lockers \cup Purgers

ASSUME UploadAssumption ==
    /\ Storages \subseteq {"local", "s3", "presigned"}
    /\ MaxFaults \in Nat /\ MaxLosses \in Nat
    /\ Nobody \notin Actors
    /\ ShortEtags \subseteq Etags /\ NoEtag \notin Etags
    /\ Completers \cap Sweepers = {} /\ Completers \cap Reclaimers = {}
    /\ Sweepers \cap Reclaimers = {} /\ Lockers \cap Purgers = {}

VARIABLES
    storage,    \* the server's configuration
    row,        \* the attachment: status, _completion, upload_ref, receipt
    creator,    \* the request of create_upload
    owner,      \* the file's document (task) and workspace
    parts,      \* the open multipart upload of the key
    payload,    \* the object at the key
    journaled,  \* the key is in attachment_object_cleanups
    holder,     \* who has the upload's session lock
    pc,         \* where each actor is
    want,       \* the parts each completer was called with
    identified, \* record_identity of each completer
    answer,     \* the last answer of each completer
    putGranted, \* S3: a part may arrive without another look at the row
    faults, losses

vars == <<storage, row, creator, owner, parts, payload, journaled, holder, pc,
          want, identified, answer, putGranted, faults, losses>>

\* What only create_upload and the owner's operations change.
around == <<storage, creator, owner>>

Content == [Parts -> Etags]
Row == [status : {"uploading", "assembling", "stored"},
        prepared : Content \cup {None}, ref : BOOLEAN,
        receipt : Content \cup {None}]
Place == {"idle", "prepared", "rechecked", "copying", "assembled",
          "finalizing", "purging", "deleting", "purged"}

\* NULL is no row and no list of parts.
ASSUME NoneAssumption ==
    None \notin Row /\ None \notin [Parts -> Etags \cup {NoEtag}]

\* The types of every variable.
TypeOK ==
    /\ storage \in Storages
    /\ row \in Row \cup {None}
    /\ creator \in {"none", "reserved", "opened", "returned", "failed", "lost"}
    /\ owner \in {"live", "trashed", "expired", "deleted"}
    /\ parts \in [Parts -> Etags \cup {NoEtag}] \cup {None}
    /\ payload \in Content \cup {None}
    /\ journaled \in BOOLEAN
    /\ holder \in Actors \cup {Nobody}
    /\ pc \in [Actors -> Place]
    /\ want \in [Completers -> Content \cup {None}]
    /\ identified \in [Completers -> BOOLEAN]
    /\ answer \in [Completers -> {"none", "done", "denied"}]
    /\ putGranted \in BOOLEAN
    /\ faults \in Nat
    /\ losses \in Nat

Init ==
    /\ storage \in Storages
    /\ row = None
    /\ creator = "none"
    /\ owner = "live"
    /\ parts = None
    /\ payload = None
    /\ journaled = FALSE
    /\ holder = Nobody
    /\ pc = [a \in Actors |-> "idle"]
    /\ want = [c \in Completers |-> None]
    /\ identified = [c \in Completers |-> FALSE]
    /\ answer = [c \in Completers |-> "none"]
    /\ putGranted = FALSE
    /\ faults = 0
    /\ losses = 0

-----------------------------------------------------------------------------
\* LocalStorage, or S3Storage
Local == storage = "local"

\* TransferMode::Presigned: the client sends its parts to S3 directly
Presigned == storage = "presigned"

(* The row.                                                                *)

InStatus(S) == row # None /\ row.status \in S
Incomplete == InStatus({"uploading", "assembling"})

\* Parts are taken and sessions resumed only here: a prepared completion
\* closes the upload.
AcceptsParts == InStatus({"uploading"}) /\ row.prepared = None

\* Variant: the delete is not journaled.
DeleteRowOnly == row' = None /\ UNCHANGED journaled

\* The trigger attachment_object_cleanups_after_attachment_delete.
DeleteRow == row' = None /\ journaled' = TRUE

\* revert_assembling_on_conn
Reverted ==
    IF InStatus({"assembling"}) THEN [row EXCEPT !.status = "uploading"] ELSE row

\* stored_upload_matches: a row without a receipt matches any list of parts.
StoredMatches(p) == row.receipt \in {None, p}

-----------------------------------------------------------------------------
(* Storage.                                                                *)

\* What list_parts finds.  S3 needs the upload reference of the row.
Listed == IF Local \/ (row # None /\ row.ref) THEN parts ELSE None

\* The declared size is that of a content without short parts.
RightSize(c) == \A n \in Parts : c[n] \notin ShortEtags

\* completion_parts_match, listed_parts_match
PartsMatch(p) == Listed = p /\ (Presigned => RightSize(p))

\* discard_uncommitted_payload: S3 publishes atomically and keeps it.
Discarded == IF Local THEN None ELSE payload

-----------------------------------------------------------------------------
(* An actor leaves its chain.  It unlocks if its session is still there.   *)

Release(a) == holder' = IF holder = a THEN Nobody ELSE holder
Goto(a, place) == pc' = [pc EXCEPT ![a] = place]
Leave(a) == Goto(a, "idle") /\ Release(a)
Answer(c, word) == answer' = [answer EXCEPT ![c] = word]

\* Every transaction of a chain runs on the connection that has the lock.
HasSession(a) == holder = a

-----------------------------------------------------------------------------
(* create_upload: the row first, then the multipart upload, then (S3) its  *)
(* reference.  The row may be removed in between.                          *)

\* check_upload_write_access and the checks of create_upload: the document
\* (the task) and the workspace are there.
Writable == owner = "live"

Reserve ==
    /\ creator = "none"
    /\ Writable
    /\ row' = [status |-> "uploading", prepared |-> None, ref |-> FALSE,
               receipt |-> None]
    /\ creator' = "reserved"
    /\ UNCHANGED <<storage, parts, payload, journaled, holder, pc, want,
                   identified, answer, putGranted, faults, losses, owner>>

\* create_multipart.  Without a reference to keep, a row that is gone is
\* noticed by fetch_after_create, which panics.
OpenMultipart ==
    /\ creator = "reserved"
    /\ parts' = [n \in Parts |-> NoEtag]
    /\ creator' = IF ~Local THEN "opened"
                  ELSE IF row = None THEN "lost" ELSE "returned"
    /\ UNCHANGED <<storage, row, payload, journaled, holder, pc, want,
                   identified, answer, putGranted, faults, losses, owner>>

\* persist_upload_ref
PersistRef ==
    /\ creator = "opened"
    /\ InStatus({"uploading"})
    /\ row' = [row EXCEPT !.ref = TRUE]
    /\ creator' = "returned"
    /\ UNCHANGED <<storage, parts, payload, journaled, holder, pc, want,
                   identified, answer, putGranted, faults, losses, owner>>

\* Its row is gone (RowNotFound): the key is purged all the same.
CleanupReserved ==
    /\ creator = "opened"
    /\ row = None
    /\ parts' = None
    /\ payload' = None
    /\ creator' = "failed"
    /\ UNCHANGED <<storage, row, journaled, holder, pc, want, identified,
                   answer, putGranted, faults, losses, owner>>

\* A storage call fails and the key is purged (cleanup_reserved_upload); or
\* this fails too or the request dies, and the row is kept for the sweep.
\* A row that is gone already leaves nothing to find the key by.
CreateFails ==
    /\ creator \in {"reserved", "opened"}
    /\ faults < MaxFaults
    /\ faults' = faults + 1
    /\ \/ /\ parts' = None /\ payload' = None
          /\ creator' = "failed"
          /\ IF row # None THEN DeleteRow ELSE UNCHANGED <<row, journaled>>
       \/ /\ parts' \in {parts, None}
          /\ creator' = IF row = None THEN "lost" ELSE "failed"
          /\ UNCHANGED <<payload, row, journaled>>
    /\ UNCHANGED <<storage, holder, pc, want, identified, answer, putGranted,
                   losses, owner>>

-----------------------------------------------------------------------------
(* Parts.                                                                  *)

\* commit_upload_part: on local storage the part is published under the
\* transaction lock of the upload, which waits for the session lock.
CommitPart(n, e) ==
    /\ Local
    /\ creator = "returned"
    /\ Writable
    /\ holder = Nobody
    /\ AcceptsParts
    /\ parts # None
    /\ parts' = [parts EXCEPT ![n] = e]
    /\ UNCHANGED <<around, row, payload, journaled, holder, pc, want,
                   identified, answer, putGranted, faults, losses>>

\* authorize_upload_part, resume_upload: S3 takes the bytes later, whatever
\* became of the row in the meantime.
GrantPut ==
    /\ ~Local
    /\ creator = "returned"
    /\ Writable
    /\ AcceptsParts
    /\ ~putGranted
    /\ putGranted' = TRUE
    /\ UNCHANGED <<around, row, parts, payload, journaled, holder, pc, want,
                   identified, answer, faults, losses>>

PutPart(n, e) ==
    /\ ~Local
    /\ putGranted
    /\ parts # None
    /\ parts' = [parts EXCEPT ![n] = e]
    /\ UNCHANGED <<around, row, payload, journaled, holder, pc, want,
                   identified, answer, putGranted, faults, losses>>

-----------------------------------------------------------------------------
(* complete_upload.  A request that finds the lock taken answers from the  *)
(* row or polls; one that gets it runs complete_owned_inner.               *)

\* try_complete_owned without the lock
CompleteBusy(c, p) ==
    /\ creator = "returned"
    /\ pc[c] = "idle"
    /\ Writable
    /\ holder # Nobody
    /\ InStatus({"stored"})
    /\ want' = [want EXCEPT ![c] = p]
    /\ Answer(c, IF StoredMatches(p) THEN "done" ELSE "denied")
    /\ UNCHANGED <<around, row, parts, payload, journaled, holder, pc,
                   identified, putGranted, faults, losses>>

\* A repeated complete of a stored row only removes leftover parts.
CompleteStored(c, p) ==
    /\ creator = "returned"
    /\ pc[c] = "idle"
    /\ Writable
    /\ holder = Nobody
    /\ InStatus({"stored"})
    /\ StoredMatches(p)
    /\ want' = [want EXCEPT ![c] = p]
    /\ holder' = c
    /\ Goto(c, "finalizing")
    /\ UNCHANGED <<around, row, parts, payload, journaled, identified, answer,
                   putGranted, faults, losses>>

\* Variant: the prepared completion is not compared.
AdmittedUnprepared(p) == Listed = None \/ row.prepared # None \/ PartsMatch(p)

\* What the first transaction admits: the completion already prepared, or
\* the parts storage lists, or an upload whose parts are gone.
Admitted(p) ==
    IF row.prepared # None THEN row.prepared = p
    ELSE Listed = None \/ PartsMatch(p)

\* The first transaction: prepares the completion and marks the row.  Its
\* commit may fail after the old payload was discarded.
CompletePrepare(c, p) ==
    /\ creator = "returned"
    /\ pc[c] = "idle"
    /\ Writable
    /\ holder = Nobody
    /\ Incomplete
    /\ Admitted(p)
    /\ payload' = IF row.status = "uploading" THEN Discarded ELSE payload
    /\ \/ /\ row' = [row EXCEPT !.status = "assembling",
                               !.prepared = IF Listed = None THEN @ ELSE p]
          /\ want' = [want EXCEPT ![c] = p]
          /\ identified' = [identified EXCEPT ![c] =
                               row.prepared # None \/ Listed # None]
          /\ holder' = c
          /\ Goto(c, "prepared")
          /\ UNCHANGED faults
       \/ /\ faults < MaxFaults
          /\ faults' = faults + 1
          /\ UNCHANGED <<row, want, identified, holder, pc>>
    /\ UNCHANGED <<around, parts, journaled, answer, putGranted, losses>>

CompleteDenied(c, p) ==
    /\ creator = "returned"
    /\ pc[c] = "idle"
    /\ holder = Nobody
    /\ \/ row = None \/ ~Writable
       \/ Incomplete /\ ~Admitted(p)
       \/ InStatus({"stored"}) /\ ~StoredMatches(p)
    /\ want' = [want EXCEPT ![c] = p]
    /\ Answer(c, "denied")
    /\ UNCHANGED <<around, row, parts, payload, journaled, holder, pc,
                   identified, putGranted, faults, losses>>

\* Presigned parts are listed again before anything is published.  Another
\* part may still arrive between this look and the publication.
RecheckPassed(c) ==
    /\ pc[c] = "prepared"
    /\ Presigned
    /\ parts # None => parts = want[c] /\ RightSize(want[c])
    /\ Goto(c, "rechecked")
    /\ UNCHANGED <<around, row, parts, payload, journaled, holder, want,
                   identified, answer, putGranted, faults, losses>>

RecheckRefused(c) ==
    /\ pc[c] = "prepared"
    /\ Presigned
    /\ parts # None
    /\ ~(parts = want[c] /\ RightSize(want[c]))
    /\ row' = IF HasSession(c) THEN Reverted ELSE row
    /\ Answer(c, "denied")
    /\ Leave(c)
    /\ UNCHANGED <<around, parts, payload, journaled, want, identified,
                   putGranted, faults, losses>>

\* clear_refused_completion_on_conn: the parts were refused, so another
\* completion may be prepared.
Refuse(c) ==
    /\ row' = IF /\ HasSession(c) /\ Writable /\ InStatus({"assembling"})
                /\ row.prepared = want[c]
              THEN [row EXCEPT !.status = "uploading", !.prepared = None]
              ELSE row
    /\ Answer(c, "denied")
    /\ Leave(c)
    /\ UNCHANGED <<storage, parts, payload>>

\* UploadGone and other storage errors
GiveUp(c) ==
    /\ row' = IF HasSession(c) THEN Reverted ELSE row
    /\ Answer(c, "denied")
    /\ Leave(c)

\* LocalStorage::assemble_multipart lists the parts, then copies them; a
\* payload left by an earlier attempt is taken as it is.
AssembleLocal(c) ==
    /\ Local
    /\ \/ /\ pc[c] = "prepared"
          /\ \/ parts = None /\ GiveUp(c) /\ UNCHANGED <<parts, payload>>
             \/ parts # None /\ parts # want[c] /\ Refuse(c)
             \/ /\ parts = want[c]
                /\ Goto(c, IF payload = None THEN "copying" ELSE "assembled")
                /\ UNCHANGED <<row, parts, payload, holder, answer>>
       \/ /\ pc[c] = "copying"
          /\ \/ parts = None /\ GiveUp(c) /\ UNCHANGED <<parts, payload>>
             \/ parts # None /\ parts # want[c] /\ Refuse(c)
             \/ /\ parts = want[c]
                /\ payload' = parts
                /\ Goto(c, "assembled")
                /\ UNCHANGED <<row, parts, holder, answer>>
    /\ UNCHANGED <<around, journaled, want, identified, putGranted, faults,
                   losses>>

\* S3Storage::complete_multipart publishes the named parts atomically and
\* closes the upload; of an upload that is gone it reports the object.
\* The answer may be lost.
AssembleS3(c) ==
    /\ ~Local
    /\ pc[c] = IF Presigned THEN "rechecked" ELSE "prepared"
    /\ \/ /\ parts # None
          /\ parts = want[c]
          /\ payload' = parts
          /\ parts' = None
          /\ \/ Goto(c, "assembled") /\ UNCHANGED <<row, holder, answer, faults>>
             \/ GiveUp(c) /\ faults < MaxFaults /\ faults' = faults + 1
       \/ /\ parts # None
          /\ parts # want[c]
          /\ Refuse(c)
          /\ UNCHANGED faults
       \/ /\ parts = None
          /\ payload # None
          /\ Goto(c, "assembled")
          /\ UNCHANGED <<row, parts, payload, holder, answer, faults>>
       \/ /\ parts = None
          /\ payload = None
          /\ GiveUp(c)
          /\ UNCHANGED <<parts, payload, faults>>
    /\ UNCHANGED <<around, journaled, want, identified, putGranted, losses>>

\* Listing or assembling fails for another reason, in local storage perhaps
\* after the object was put in place.
StorageErrs(c) ==
    /\ pc[c] \in {"prepared", "rechecked", "copying"}
    /\ faults < MaxFaults
    /\ faults' = faults + 1
    /\ \/ UNCHANGED payload
       \/ /\ pc[c] = "copying"
          /\ parts # None /\ parts = want[c]
          /\ payload' = parts
    /\ GiveUp(c)
    /\ UNCHANGED <<around, parts, journaled, want, identified, putGranted,
                   losses>>

\* The assembled object has the wrong size: object and row go.
CompleteWrongSize(c) ==
    /\ pc[c] = "assembled"
    /\ payload # None
    /\ ~RightSize(payload)
    /\ payload' \in {None, payload}
    /\ parts' = IF Local /\ payload' = None THEN None ELSE parts
    /\ IF HasSession(c) /\ row # None THEN DeleteRow
       ELSE UNCHANGED <<row, journaled>>
    /\ Answer(c, "denied")
    /\ Leave(c)
    /\ UNCHANGED <<around, want, identified, putGranted, faults, losses>>

\* The second transaction: after another look at row and object the row is
\* stored.  An answer that is lost ends the chain without finalizing.
MarkStored(c) ==
    /\ pc[c] = "assembled"
    /\ payload # None
    /\ RightSize(payload)
    /\ HasSession(c)
    /\ Writable
    /\ Incomplete
    /\ row' = [row EXCEPT !.status = "stored", !.prepared = None,
                  !.receipt = IF identified[c] THEN want[c] ELSE None]
    /\ \/ Goto(c, "finalizing") /\ UNCHANGED <<holder, faults>>
       \/ /\ faults < MaxFaults
          /\ faults' = faults + 1
          /\ Leave(c)
    /\ UNCHANGED <<around, parts, payload, journaled, want, identified,
                   answer, putGranted, losses>>

\* The object is missing, the row is gone or stored, its owner is not there,
\* or the connection is lost.
CompleteAbandoned(c) ==
    /\ pc[c] = "assembled"
    /\ \/ payload = None
       \/ /\ payload # None /\ RightSize(payload)
          /\ ~(HasSession(c) /\ Writable /\ Incomplete)
    /\ Answer(c, "denied")
    /\ Leave(c)
    /\ UNCHANGED <<around, row, parts, payload, journaled, want, identified,
                   putGranted, faults, losses>>

\* finalize_stored_parts, whose failure is only logged
Finalize(c) ==
    /\ pc[c] = "finalizing"
    /\ \/ parts' = (IF Local THEN None ELSE parts) /\ UNCHANGED faults
       \/ /\ faults < MaxFaults
          /\ faults' = faults + 1
          /\ UNCHANGED parts
    /\ Answer(c, "done")
    /\ Leave(c)
    /\ UNCHANGED <<around, row, payload, journaled, want, identified,
                   putGranted, losses>>

-----------------------------------------------------------------------------
(* Removing the file.                                                      *)

\* create_upload does not run any more: it is far shorter than the age at
\* which uploads are swept.
Settled == creator \in {"returned", "failed"}

\* delete_attachment; purge_task and the undoing of an import, which remove
\* the rows of a task or a document without knowing them.  The upload's lock
\* is not taken.
DeleteAttachment ==
    /\ row # None
    /\ DeleteRow
    /\ UNCHANGED <<around, parts, payload, holder, pc, want, identified,
                   answer, putGranted, faults, losses>>

\* Variant: the lock is not tried.
SweepBeginUnlocked(s) ==
    /\ Settled
    /\ pc[s] = "idle"
    /\ Incomplete
    /\ Goto(s, "purging")
    /\ UNCHANGED <<around, row, parts, payload, journaled, holder, want,
                   identified, answer, putGranted, faults, losses>>

\* Variant: rows that are assembling are left alone.
SweepBeginUploading(s) ==
    /\ Settled
    /\ pc[s] = "idle"
    /\ holder = Nobody
    /\ InStatus({"uploading"})
    /\ holder' = s
    /\ Goto(s, "purging")
    /\ UNCHANGED <<around, row, parts, payload, journaled, want, identified,
                   answer, putGranted, faults, losses>>

\* gc_stale_upload_row takes the lock and looks at the status.
SweepBegin(s) ==
    /\ Settled
    /\ pc[s] = "idle"
    /\ holder = Nobody
    /\ Incomplete
    /\ holder' = s
    /\ Goto(s, "purging")
    /\ UNCHANGED <<around, row, parts, payload, journaled, want, identified,
                   answer, putGranted, faults, losses>>

\* reclaim_attachment_objects takes the lock and finds the journal row.
ReclaimBegin(r) ==
    /\ pc[r] = "idle"
    /\ holder = Nobody
    /\ journaled
    /\ holder' = r
    /\ Goto(r, IF row = None THEN "purging" ELSE "purged")
    /\ UNCHANGED <<around, row, parts, payload, journaled, want, identified,
                   answer, putGranted, faults, losses>>

\* ObjectStorage::purge_key: abort the open upload, then delete the object.
\* Both need nothing but storage.
PurgeUploads(a) ==
    /\ pc[a] = "purging"
    /\ parts' = None
    /\ Goto(a, "deleting")
    /\ UNCHANGED <<around, row, payload, journaled, holder, want, identified,
                   answer, putGranted, faults, losses>>

PurgeObject(a) ==
    /\ pc[a] = "deleting"
    /\ payload' = None
    /\ parts' = IF Local THEN None ELSE parts
    /\ Goto(a, "purged")
    /\ UNCHANGED <<around, row, journaled, holder, want, identified, answer,
                   putGranted, faults, losses>>

\* Variant: the entry is dropped although the purge failed.
PurgeFailsDone(a) ==
    /\ pc[a] \in {"purging", "deleting"}
    /\ faults < MaxFaults
    /\ faults' = faults + 1
    /\ journaled' = FALSE
    /\ Leave(a)
    /\ UNCHANGED <<around, row, parts, payload, want, identified, answer,
                   putGranted, losses>>

PurgeFails(a) ==
    /\ pc[a] \in {"purging", "deleting"}
    /\ faults < MaxFaults
    /\ faults' = faults + 1
    /\ Leave(a)
    /\ UNCHANGED <<around, row, parts, payload, journaled, want, identified,
                   answer, putGranted, losses>>

SweepEnd(s) ==
    /\ pc[s] = "purged"
    /\ IF HasSession(s) /\ Incomplete THEN DeleteRow
       ELSE UNCHANGED <<row, journaled>>
    /\ Leave(s)
    /\ UNCHANGED <<around, parts, payload, want, identified, answer,
                   putGranted, faults, losses>>

\* The journal row goes once storage reports no object.
ReclaimEnd(r) ==
    /\ pc[r] = "purged"
    /\ journaled' = IF HasSession(r) /\ (payload = None \/ row # None)
                    THEN FALSE ELSE journaled
    /\ Leave(r)
    /\ UNCHANGED <<around, row, parts, payload, want, identified, answer,
                   putGranted, faults, losses>>

-----------------------------------------------------------------------------
(* The owner.  A document is trashed, restored, and past its retention     *)
(* neither restored nor listed but purged; a deleted workspace does not    *)
(* come back and is purged.                                                *)

OwnerBecomes(word) ==
    /\ owner' = word
    /\ UNCHANGED <<storage, row, creator, parts, payload, journaled, holder,
                   pc, want, identified, answer, putGranted, faults, losses>>

TrashOwner == owner = "live" /\ OwnerBecomes("trashed")
RestoreOwner == owner = "trashed" /\ OwnerBecomes("live")
TrashExpires == owner = "trashed" /\ OwnerBecomes("expired")
DeleteWorkspace == owner # "deleted" /\ OwnerBecomes("deleted")

\* Variant: the purge does not wait for the end of the retention.
PurgeableInTrash ==
    \/ owner = "deleted" /\ row # None
    \/ owner \in {"trashed", "expired"} /\ InStatus({"stored"})

\* list_storage_keys of a deleted workspace; lock_purgeable, which leaves
\* documents with an incomplete upload to the sweep.
Purgeable ==
    \/ owner = "deleted" /\ row # None
    \/ owner = "expired" /\ InStatus({"stored"})

\* purge_trashed_document and purge_one collect the keys, purge them without
\* any lock, and then look again and delete the rows.
OwnerPurgeBegin(g) ==
    /\ pc[g] = "idle"
    /\ Purgeable
    /\ Goto(g, "purging")
    /\ UNCHANGED <<around, row, parts, payload, journaled, holder, want,
                   identified, answer, putGranted, faults, losses>>

OwnerPurgeEnd(g) ==
    /\ pc[g] = "purged"
    /\ IF Purgeable THEN DeleteRow ELSE UNCHANGED <<row, journaled>>
    /\ Leave(g)
    /\ UNCHANGED <<around, parts, payload, want, identified, answer,
                   putGranted, faults, losses>>

-----------------------------------------------------------------------------
(* Faults.                                                                 *)

\* The process dies; its connection and lock go with it.
Crash(a) ==
    /\ pc[a] # "idle"
    /\ faults < MaxFaults
    /\ faults' = faults + 1
    /\ Leave(a)
    /\ UNCHANGED <<around, row, parts, payload, journaled, want, identified,
                   answer, putGranted, losses>>

\* The connection is lost and the lock with it; the process learns of it in
\* its next transaction only.
LoseSession ==
    /\ holder # Nobody
    /\ losses < MaxLosses
    /\ losses' = losses + 1
    /\ holder' = Nobody
    /\ UNCHANGED <<around, row, parts, payload, journaled, pc, want,
                   identified, answer, putGranted, faults>>

-----------------------------------------------------------------------------
CompleteStep(c) ==
    \/ RecheckPassed(c) \/ RecheckRefused(c) \/ AssembleLocal(c)
    \/ AssembleS3(c) \/ StorageErrs(c) \/ CompleteWrongSize(c)
    \/ MarkStored(c) \/ CompleteAbandoned(c) \/ Finalize(c)

Complete(c, p) ==
    \/ CompleteBusy(c, p) \/ CompleteStored(c, p) \/ CompletePrepare(c, p)
    \/ CompleteDenied(c, p)

Purge(a) == PurgeUploads(a) \/ PurgeObject(a)
SweepStep(s) == Purge(s) \/ SweepEnd(s)
ReclaimStep(r) == Purge(r) \/ ReclaimEnd(r)
OwnerPurgeStep(g) == Purge(g) \/ OwnerPurgeEnd(g)

Next ==
    \/ Reserve \/ OpenMultipart \/ PersistRef \/ CleanupReserved \/ CreateFails
    \/ \E n \in Parts, e \in Etags : CommitPart(n, e) \/ PutPart(n, e)
    \/ GrantPut
    \/ \E c \in Completers : CompleteStep(c) \/ \E p \in Content : Complete(c, p)
    \/ DeleteAttachment
    \/ \E s \in Sweepers : SweepBegin(s) \/ SweepStep(s)
    \/ \E r \in Reclaimers : ReclaimBegin(r) \/ ReclaimStep(r)
    \/ TrashOwner \/ RestoreOwner \/ TrashExpires \/ DeleteWorkspace
    \/ \E g \in Purgers : OwnerPurgeBegin(g) \/ OwnerPurgeStep(g)
    \/ \E a \in Sweepers \cup Reclaimers \cup Purgers : PurgeFails(a)
    \/ \E a \in Actors : Crash(a)
    \/ LoseSession

Spec == Init /\ [][Next]_vars

\* Every chain that was started is run to its end, and the sweep and the
\* drain come back until they get the lock.
FairSpec ==
    /\ Spec
    /\ WF_vars(OpenMultipart) /\ WF_vars(PersistRef) /\ WF_vars(CleanupReserved)
    /\ \A c \in Completers : WF_vars(CompleteStep(c))
    /\ \A s \in Sweepers : WF_vars(SweepStep(s)) /\ SF_vars(SweepBegin(s))
    /\ \A r \in Reclaimers : WF_vars(ReclaimStep(r)) /\ SF_vars(ReclaimBegin(r))

-----------------------------------------------------------------------------
(* Properties.                                                             *)

\* A document that is restored, or was never trashed, has its files.
Restorable == owner \in {"live", "trashed"}

\* A stored row whose owner is there, or may come back, has its object, of
\* the declared size and with the content of its receipt: whatever crashed,
\* was retried, swept or purged before.
StoredHasPayload ==
    Restorable /\ InStatus({"stored"}) =>
        /\ payload # None
        /\ RightSize(payload)
        /\ row.receipt \in {None, payload}

\* The same as long as every process noticed the loss of its lock in time.
StoredIntact == losses = 0 => StoredHasPayload

\* A completer that was told "done" finds the row stored with the content
\* it named, for as long as the row exists, its owner is not purged and no
\* lock was lost.
AnsweredIsStored ==
    losses = 0 /\ Restorable =>
        \A c \in Completers :
            answer[c] = "done" /\ pc[c] = "idle" /\ row # None =>
                row.status = "stored" /\ payload = want[c]

\* A key with an object or with an open upload has a row or a journal entry,
\* or the request that opened the upload still answers for it.
NothingAbandoned ==
    parts # None \/ payload # None =>
        row # None \/ journaled \/ creator = "opened"

\* What is forgotten is at most the upload that create_upload opened after
\* its row had been removed: never an object, and nothing of an upload that
\* was returned to a client.
NothingOrphaned ==
    IF creator = "lost" THEN payload = None ELSE NothingAbandoned

\* An incomplete upload does not stay: it is completed or removed.
UploadsEnd == Incomplete ~> ~Incomplete

\* The bytes of a removed file leave storage, the same upload excepted.
BytesReclaimed ==
    (creator # "none" /\ row = None) ~>
        (payload = None /\ parts = None) \/ creator = "lost"

-----------------------------------------------------------------------------
(* Why they hold: the inductive invariant.                                 *)

\* The row, once removed, does not come back: it is made once, before its
\* key is used, and its removal journals the key.
RowLife ==
    /\ creator = "none" => row = None /\ parts = None /\ payload = None /\ ~journaled
    /\ creator = "reserved" => parts = None
    /\ creator \in {"reserved", "opened"} =>
          payload = None /\ (row # None => row.prepared = None)
    /\ creator = "lost" => row = None
    /\ ~Settled => \A c \in Completers : answer[c] # "done"
    /\ journaled => row = None
    /\ creator = "returned" /\ row # None => Local \/ row.ref

Completing(c) == pc[c] \in {"prepared", "rechecked", "copying", "assembled"}

\* Where an actor may be; an upload that was aborted opens again only under
\* create_upload, S3 closes the one it publishes, and a purge of the owner
\* means that the owner does not come back.
PlacesSane ==
    /\ \A a \in Completers \cup Sweepers : pc[a] # "idle" => Settled
    /\ \A a \in Actors : pc[a] # "idle" => creator # "none"
    /\ \A c \in Completers : /\ pc[c] \in {"idle", "finalizing"} \/ Completing(c)
                             /\ pc[c] = "copying" => Local
    /\ \A a \in Actors \ Completers : pc[a] \in {"idle", "purging", "deleting", "purged"}
    /\ \A r \in Reclaimers :
          /\ pc[r] # "idle" => row = None
          /\ pc[r] \in {"deleting", "purged"} => parts = None \/ creator \in {"opened", "lost"}
    /\ \A g \in Purgers : pc[g] # "idle" => ~Restorable
    /\ ~Local /\ payload # None => parts = None

\* As long as no lock is lost, who is in a chain that takes it has the lock.
Exclusive == \A a \in Lockers : pc[a] # "idle" => holder = a

\* A published object is that of the prepared completion, which closes the
\* local parts; a stored row has it.
Published ==
    row # None =>
        /\ row.status = "stored" =>
              payload # None /\ RightSize(payload) /\ row.receipt = payload
        /\ Incomplete /\ payload # None => row.prepared = payload
        /\ Local /\ Incomplete /\ row.prepared # None => parts \in {row.prepared, None}

\* The completer in its chain works for the prepared completion, or for an
\* upload whose parts are gone; what it finished or answered is stored.
CompleterSane(c) ==
    row # None =>
        /\ Completing(c) =>
              /\ Incomplete
              /\ IF identified[c] THEN row.prepared = want[c]
                 ELSE row.prepared = None /\ parts = None
        /\ pc[c] = "finalizing" \/ answer[c] = "done" =>
              row.status = "stored" /\ payload = want[c]

\* The sweep that has the lock removes incomplete uploads only.
SweeperSane(s) == pc[s] # "idle" /\ row # None => Incomplete

\* What the lock guards until the owner is purged.
Guarded ==
    /\ Published
    /\ \A c \in Completers : CompleterSane(c)
    /\ \A s \in Sweepers : SweeperSane(s)

\* The inductive invariant: what holds whatever is lost, and what holds as
\* long as no connection with the upload's lock is.
IInv ==
    /\ TypeOK
    /\ RowLife
    /\ PlacesSane
    /\ NothingOrphaned
    /\ losses = 0 => Exclusive
    /\ losses = 0 /\ Restorable => Guarded
=============================================================================
