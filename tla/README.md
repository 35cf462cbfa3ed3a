# FVOCI: TLA+ models, checks and proofs

FVOCI is a self-hosted workspace server (Rust, Tokio, axum; PostgreSQL, SQLite
or remote libSQL behind it) with a web client.  This directory models the parts
of the server whose correctness rests on *protocols*: several processes and
connections against one database, leases that expire, commits whose answer is
lost, deliveries that are retried.  Request handlers that are one transaction
over one row are not the subject.

Contents: [Inventory](#inventory) · [Modules](#modules) · [Outbox](#the-outbox-relay)
· [Rooms](#collaboration-rooms) · [Uploads](#uploaded-files) · [Previews](#previews)
· [Maintenance](#maintenance-claims) · [Imports](#import-jobs) · [Runs](#runs) · [Fairness](#fairness) · [Proofs](#proofs) · [Findings](#findings)
· [Not modelled](#what-is-left-out) · [Plan](#plan)

## Inventory

Paths are relative to the repository root.

| Part | State it keeps | Operations | What is hard | What makes it correct |
|---|---|---|---|---|
| **Event log** (`migrations/*/04_events.sql`, `src/db/backend.rs`) | append-only `events(xact, seq, …)` | insert in the writer's transaction, read by position | ids are allocated in one order, transactions commit in another | a reader that has passed a position never misses a later commit below it |
| **Outbox ledger** (`outbox_consumers`, `outbox_failures`, `processed_events` and their procedures) | per consumer: cursor, lease, failure rows, processed marks | lease, release, read, advance, record/clear failure, claim retries, requeue, collect marks | the callers' view of lease and cursor is stale | the cursor passes only resolved events; a requeued dead letter keeps its row |
| **Outbox dispatcher** (`src/outbox/`) | loop-local batch, retries and chunk | one cycle: lease, read, retries, deliver, mark, advance, clear | two processes, crash between any two calls, lease lost while delivering, partial batches, dead letters | at least once (External), exactly once (DatabaseAtomic), in order, nothing stuck |
| **Consumers** (notifications, webhooks, push; mail, search, GitHub) | their own tables or an outside service | `deliver_batch`, or a transaction with mark, effect and advance | answer of the commit lost | effect and cursor move together |
| **Outbox recovery/reset** (`src/db/outbox_recover.rs`, `outbox_reset.rs`) | cursors, xid epoch | offline repair after a restore | runs against live leases; epoch mismatch | no event skipped or replayed beyond the window |
| **Collaboration room** (`src/collab/room.rs`, `hub.rs`, `guard.rs`) | primary CRDT document, committed tail, writer generation, sessions | join, update, projection, compaction, restore, fatal exits | two servers each believing they own the room; commit without answer | one history per document; every acknowledged update is durable; replicas converge |
| **Collaboration storage** (`src/db/collab.rs`, `collab_delivery.rs`) | per document: generation, snapshot, cutoff, tail, updates, receipts | claim writer, append, verify, compact, project | retry of an append already done | an operation id is stored once; a stale generation writes nothing |
| **Body save** (`src/db/body_save.rs`, `revisions.rs`) | document body, command receipts | compare-and-swap save, replay by command id | retry against a newer body | no lost update, no double apply |
| **Maintenance claims** (`src/jobs/`, `src/db/maintenance_claim.rs`) | an advisory lock (PostgreSQL) or a row with owner, generation and expiry | claim, prove in each unit, renew, release, reconcile | two servers, a unit that outlives its claim, a commit without an answer | units are committed in the order of the claims; the claim of a dead server ends |
| **Import jobs** (`src/import_job.rs`, `src/db/import_jobs.rs`, `src/db/native_archive.rs`) | job row with lease, attempts and references; what a run created; parked events | submit, claim, create, store, finish, compensate, retry, sweep | a runner that outlives its lease, a crash or lost answer between any two transactions | a completed import is whole, a failed one leaves nothing, nobody hears of rows that are not there |
| **Task timers** (`src/db/task_timer.rs`) | running timer and entries per user | start, stop, edit | two clients | at most one running timer |
| **Uploaded files** (`src/db/attachments.rs`, `src/attachments/`, `src/jobs/uploads.rs`) | attachment row, multipart upload, object, journal of keys to reclaim | reserve, open, send parts, complete, sweep, delete, drain | row and bytes never change together; the lock dies with its connection | a stored row has its bytes; bytes without a row are reclaimed |
| **Previews** (`src/attachments/preview_job.rs`, `src/db/attachment_preview.rs`) | lease, attempts and published key of an image | claim, load, journal, put, publish, fail, release | slow worker against its successor and the drain | a published preview exists; nothing stays pending or forgotten |
| **Quota** (`src/db/quota.rs`) | usage counter | reserve, release | — | usage equals what is stored |
| **Server-sent events** (`src/streams/`) | per client position, fan-out buffer | subscribe, resume, lag | resume against fan-out | no event lost unnoticed |
| **Mail and digests** (`src/mail/`, `src/db/` mail tables) | queue rows with attempts | enqueue, claim, send, back off | send without record | sent at least once, bounded retries |
| Identity, sessions, OIDC, MFA | rows per user | request handlers | — | the database's isolation |
| Documents, projects, tasks, comments, search, import/export formats, web client | — | CRUD, parsers, rendering | data, not protocol | outside the reach of a model checker |

How they interact: every handler that changes something inserts its events in
the same transaction; the dispatcher reads the log and hands events to the
consumers; the room appends CRDT updates through the storage procedures, which
also write events; body saves and rooms exclude each other through the writer
generation; jobs collect what the others leave behind.

`PROJECT.json` lists every component with its status and, under `hazards`, each
behaviour that is hard to test at the line where it bites, with the properties
that watch it.

## Modules

| Module | What it is |
|---|---|
| `EventLog` | events, writer transactions, `xmin` visibility |
| `OutboxLedger` | a consumer's ledger and its stored procedures |
| `OutboxDispatcher` | the dispatcher process and its cycle up to the delivery; extends the ledger |
| `OutboxExternal` | the delivery of an External consumer; complete specification |
| `OutboxAtomic` | the delivery of a DatabaseAtomic consumer; complete specification |
| `OutboxDispatcherProofs`, `OutboxExternalProofs`, `OutboxAtomicProofs` | lemmas on the shared part; theorems of the two specifications |
| `CollabStore` | the stored side of one collaborative document: generation, tail, snapshot, receipts, body |
| `CollabRoom` | the rooms of that document on several servers and their clients; extends the store; complete specification |
| `CollabHistory` | what collaborative editing promises: the abstract specification that `CollabRoom` implements |
| `CollabRoomProofs` | theorems about rooms and store, and the refinement |
| `AttachmentUpload` | one uploaded file: row, bytes, journal, and everybody who completes, sweeps, deletes or drains it |
| `AttachmentPreview` | the preview job of one image |
| `MaintenanceClaim` | who runs a maintenance job, on each of the three databases |
| `MaintenanceClaimProofs` | theorems about claims and units |
| `ImportJob` | one durable import: its row, its runs, compensation and sweep, on both kinds of database |
| `AttachmentUploadProofs`, `AttachmentPreviewProofs`, `ImportJobProofs` | theorems of these three specifications |
| `MCOutboxExternal`, `MCOutboxAtomic`, `MCCollabRoom`, `MCAttachmentUpload`, `MCAttachmentPreview`, `MCMaintenanceClaim`, `MCImportJob` | model values and symmetry for TLC |

The last four specifications meet in three places.  The journal of storage keys
(`attachment_object_cleanups`) is filled by uploads, previews and native imports and
emptied by one drain; each module has the drain as it sees it (`Reclaim*`, `Drain*`,
`Drain`).  The stale upload sweep and the orphaned import sweep are jobs under a
maintenance claim; `MaintenanceClaim` shows what the claim guarantees, and their own
modules do not rely on it (several sweepers may run).  Imported attachments are rows
of the same table, created by a path of their own (`create_import_attachment_backend`).

A definition preceded by `\* Variant:` is a wrong version of the one that
follows it (a guard dropped, a boundary off by one).  It is used nowhere; each
one shows that a property would notice the mistake, see `mutants` in
`PROJECT.json`.

## The outbox relay

**Event log.**  A position is `(xact, seq)`.  On PostgreSQL `xact` is the
writer's transaction id, allocated at its first write, and `seq` a sequence
value; both are column defaults.  `BeginTx`, `InsertEvent`, `CommitTx` and
`AbortTx` interleave freely, so a transaction with a smaller id may commit after
a larger one.  `Settled(x)` is `x < pg_snapshot_xmin(pg_current_snapshot())`,
the filter of `app_outbox_read`.  The SQLite family has no such filter and no
need for it: `BEGIN IMMEDIATE` admits one writer (`SingleWriter = TRUE`).

**Ledger.**  One model instance is one consumer; consumers share nothing but the
log (all tables are keyed by consumer name, and the lease owner is a fresh uuid
per consumer and process).  A procedure that is one statement, or locks what it decides
by, is one operator.
`Advance` has the three outcomes of `app_outbox_advance`: it resolves a requeued
dead letter at or below the cursor, moves the cursor, or is rejected.

**Dispatcher.**  `w[o]` is the local state of process `o`, `w[o].pc` the next
database or consumer call.  A step is one call together with everything the
process does with its answer.  Between two steps anything else may happen: the
other process runs, the lease expires, transactions commit, an operator
requeues, marks are collected.  `Crash` keeps the lease; `Shutdown` releases it,
at the points where the cancellation token is looked at; `Abandon` is a database
error that ends the cycle (`?`).  A call that took effect but whose answer was
lost is that step followed by `Abandon`; within a delivery, where an error is a
failed delivery instead, both outcomes are actions of their own
(`RetryMarkFails`, `CommitDelivery` with answer `"record"`).

Correspondence with `src/outbox/dispatcher.rs`:

| Code | Actions |
|---|---|
| `spawn_outbox_dispatcher`, loop, cancellation | `Start`, `Crash`, `Shutdown`, `Abandon` |
| `process_consumer_cycle` | `TakeLease`, `ReadEvents`, `ClaimRetries` |
| `process_retries`, `deliver_retry` | `NextRetry`, `RetriesLoseLease`, `Retry*` |
| `process_external_events` | `ScanFailure`, `ScanMark`, `ScanEnds`, `SkipDeadLetter`, `PassMarked` |
| `deliver_external_pending`, `deliver_external_chunk` | `ChunkLease`, `ChunksEnd`, `DeliverBatch`, `MarkDone`, `RenewAfterMarks`, `LostAfterMarks`, `AdvanceDone`, `ClearDone`, `ChunkDone` |
| `handle_failure`, `app_outbox_record_failure` | `RecordAtOnce`, on PostgreSQL also `RecordChecksLease`, `RecordLooks`, `RecordUpserts`; `BuryDeadLetter` |
| the batch loop of DatabaseAtomic consumers | `ScanLease`, `CheckFailure`, `ScanEnds` (of `OutboxAtomic`) |
| `deliver_backend` of the consumers | `BeginDelivery`, `CommitDelivery`, `RollbackDelivery`, `ClearDelivered` |

**Abstractions.**

* Time: a lease is live until the environment says otherwise, a failure row is
  due once `BackoffElapses`.  A process may therefore stall for any length of
  time between two calls, which is more than any timeout allows.  An expiry
  while the owner lives counts as a fault; after the owner is gone it is free.
* The atomic delivery is judged by the lease at the *start* of its transaction,
  because `now()` is; the owner is compared again when the row is locked.
* `GcProcessed` may take any mark below the newest one: the age limit is a
  configuration, so no property may rest on it.
* Events are never deleted, so the branch for a retry whose event is gone
  cannot be reached.
* A `deliver_batch` that reports neither progress nor an error breaks the
  trait's contract; it is allowed as a fault.
* `everMarked`, `everDead` and `late` are history variables: they record what
  happened after the row that said so is gone.
* `app_outbox_record_failure` is three statements under READ COMMITTED that lock
  nothing before the upsert, so on PostgreSQL it is three steps: the lease check
  (`RecordChecksLease`), the look at the failure row and the cursor
  (`RecordLooks`; the two reads in one step), and the upsert (`RecordUpserts`),
  which counts on from whatever row it then finds.  The lease may change hands
  after the first, and `late` collects the events that were buried by a process
  without it.  The SQLite family runs all of it under the writer lock, so there
  `RecordAtOnce` is the only case; on PostgreSQL it is the case in which nothing comes
  between the statements.  A statement that lands after its process died is that of a
  slow process which dies afterwards.

## Collaboration rooms

A document that is edited live has a *room* on one server: an actor with a CRDT
document in an engine process (`primary`), a copy of what it knows to be stored
(`committed`), a writer generation and its connections.  The room is protected
twice.  An advisory lock, held by a *guard connection*, keeps a second server
from opening the room; but the connection may die unnoticed, so two servers may
both believe that they own it.  Then the *writer generation* decides: a room
claims a new one before it writes, and every append, compaction and projection
compares it and the expected tail in its transaction.

**Store** (`CollabStore`, `src/db/collab.rs`).  `snapshot`, `cutoff`, `tail` and
`rows` are the document's state row and update tail; `receipts` are the operation
receipts, which compaction keeps; `body` is the derived content.  The answers of a
transaction (`AppendAnswer`, `CompactAnswer`, `ProjectAnswer`) are kept apart from
its effect, since both the room and an answer that gets lost need them.

**Room** (`CollabRoom`, `src/collab/room.rs`).  `room[s].pc` is the next database
call of the command in hand; a step is one call with everything the room does with
its answer.  Between two steps other servers, clients and faults interleave.

| Code | Actions |
|---|---|
| `start_room`, `fatal_fence_lost`, idle eviction | `StartRoom`, `EndRoom`, `StopRoom`, `Crash`, `LoseLock` |
| `handle_join`, `claim_writer` | `JoinWriter`, `JoinReader`, `ClaimGranted`, `ClaimWasted`, `ClaimRefused`, then `Project*` for the catch-up projection |
| `handle_leave`, evictions | `Disconnect` |
| `handle_sync` step 1 | `Sync` |
| `handle_sync` step 2 and update | `ReceiveUpdate`, `Append*`, then `Project*`, then perhaps `Compact*` |
| `handle_replace_body`, `handle_restore`, `apply_forward_write` | `ReplaceBody`, `Restore`, `Lookup`, `Append*`, `AppendReplay`, `Replay`, `Project*` |
| `reconcile_ambiguous_append` | `VerifyFound`, `VerifyUnhealthy`, `VerifyRefuted`, `VerifyDiverges` |
| `fatal_room_divergence`, `fatal_primary_unhealthy`, `fatal_writer_stale` | `Diverge`, `PrimaryUnhealthy`, `WriterStale` |
| `run_persist_steps`, `maybe_compact` | `Compact`, `CompactUnanswered`, `CompactStale`, `CompactSkipped` |
| `handle_capture_revision`, session revisions | `Refresh` |

**What it promises** (`CollabHistory`).  There is one document; it only grows;
whatever a client was told is saved, or was sent, is part of it.  `Implements`
maps its `content` to what a load would return: the snapshot merged with the
tail.  An append is `Commit`, an acknowledgement or sync is `Tell`, and claims,
compactions, projections, crashes and divergences are stuttering steps.

**Abstractions.**

* A payload is a set of updates and merging is union.  Of Yjs the properties need
  no more than that merging is commutative, associative and idempotent.  Byte
  limits, encodings and validation by a second engine are refusals at any moment.
* Every append has a fresh operation id (`Uuid::now_v7`), so the branch of the
  append that finds its own receipt is not reachable and is left out; the receipt
  is found by `reconcile_ambiguous_append` alone.
* A restore carries the tail its caller saw; a mismatch refuses it with no effect,
  which the model may do at any time (`AppendRefused`).  `handle_project_live` and a
  forward write that turns out empty claim the writer and write nothing: they are a
  replacement that is refused.
* The refusals before an append (session, permission, quota, engine) end a command
  in the state that `AppendRefused` or `Disconnect` ends it in.
* `maybe_compact` starts at 32 updates and backs off after a failure; the model may
  compact after any update.
* For an update, `StaleCutoff` with the right generation cannot happen (proved:
  `WriterCurrent`); the action is there because the code handles it.  A connection
  error of a replacement is ambiguous, that of an update ends the room.
* `Crash` is also a reload that fails where the code ends the room.
* PostgreSQL only: the SQLite family guards a room by a renewed lease and ends it
  where PostgreSQL reloads.
* `acked` and `shown` are history variables.  `synced` marks the clients that
  received the engine's document since the room's claim.

## Uploaded files

`AttachmentUpload` follows one file from `create_upload` to the last byte that is
reclaimed.  Every operation is a chain of transactions and storage calls; the upload's
*session advisory lock* orders the chains, and it is gone when the connection is, which
the process that relies on it does not notice.

| Code (`src/db/attachments.rs`) | Actions |
|---|---|
| `create_upload`, `persist_upload_ref`, `cleanup_reserved_upload` | `Reserve`, `OpenMultipart`, `PersistRef`, `CreateFails`, `CleanupReserved` |
| `commit_upload_part`; `authorize_upload_part`, presigned URLs | `CommitPart`; `GrantPut`, `PutPart` |
| `complete_upload`, `try_complete_owned`, `complete_owned_inner` | `CompleteBusy`, `CompleteStored`, `CompletePrepare`, `CompleteDenied`, `Recheck*`, `Assemble*`, `StorageErrs`, `CompleteWrongSize`, `MarkStored`, `CompleteAbandoned`, `Finalize` |
| `gc_stale_upload_row`, `gc_stale_upload_locked` | `Sweep*` |
| `delete_attachment`, `purge_task_in_tx` (`src/db/task_ops.rs`) | `DeleteAttachment` |
| trash, restore, expiry of the trash, deletion of the workspace | `TrashOwner`, `RestoreOwner`, `TrashExpires`, `DeleteWorkspace` |
| `purge_trashed_document` (`src/db/document_purge.rs`), `purge_one` (`src/jobs/workspace.rs`) | `OwnerPurgeBegin`, `Purge*`, `OwnerPurgeEnd` |
| `reclaim_attachment_objects` | `Reclaim*` |
| `ObjectStorage::purge_key` | `PurgeUploads`, `PurgeObject`, `PurgeFails` |
| crash, lost connection | `Crash`, `LoseSession` |

Storage is one of three configurations, chosen at the start: local files (parts are
copied into the object, a leftover object is taken as it is), S3 through the server, and
S3 with presigned URLs, where parts arrive at any time after they were once granted.

A row goes in one of two orders.  Deleting the attachment, or purging its task, removes
the row first and journals the key; the drain removes the bytes.  Purging a trashed
document or a deleted workspace removes the *objects* first, without the upload's lock
and while the row is still `stored`, and the rows last, so a crash or a failed call of
storage in between leaves a stored row without its object.  The code allows this because
such an owner can no longer be restored (`Purgeable`), and this is what the properties
say: `StoredIntact` and `AnsweredIsStored` hold for a file whose owner is live or can be
restored (`Restorable`).

A deletion needs no attachment id when it goes by task or document, so it may commit
while `create_upload` still runs, between the reserved row and `create_multipart`.
Journal entry and drain then see a key without bytes, and only the request knows of the
upload it opens next.  If the request dies, or on local storage panics on the missing row
(`creator = "lost"`), that upload belongs to nobody.  `NothingOrphaned` says that it is
the only thing ever forgotten, and that no object is.

**Abstractions.**  A file is the ETag of each part; one part suffices, since parts are
compared as a list.  `Settled` says that nobody *sweeps* an upload whose `create_upload`
still runs: the sweep looks at uploads older than a limit of hours.  The owner stands for
the document and the workspace together; the expiry of the trash is the clock's.  A
completion that presigned parts refute leaves `_completion` on the row, so the session
stays closed for parts until the sweep removes it (`src/db/attachments.rs:1163`); the
model keeps this.  PostgreSQL only: the SQLite family completes under its writer.

## Previews

`AttachmentPreview` has the preview columns of one stored image, the workers of several
servers, and the drain.  The *token* of a lease is fresh with each claim and names the
key the worker will write, so an old worker never writes its successor's key.  A key is
journaled before it is written, due after two lease times, and taken off the journal by
the transaction that publishes it.  Deadlines are kept as the time left, so that `Tick`
never runs out and liveness is not a matter of the bound; a lease with 0 left is
neither live nor takeable, as `>` and `<` on the same instant have it.

| Code | Actions |
|---|---|
| `app_claim_attachment_preview` | `Claim`, `ClaimExhausted` |
| `process_one_preview_backend` | `Load`, `Fail`, `Journal`, `Put`, `Publish`, `Cancel`, `WorkerDies` |
| `reclaim_one_object` | `DrainBegin`, `DrainPurge`, `DrainEnd`, `DrainFails`, `DrainLosesLock` |
| trash, delete trigger, clock | `MoveParent`, `DeleteAttachment`, `Tick` |

A put is not fenced: one that ends when its key is already due may leave an object that
no journal names.  `late` records these keys, and `KeysAccounted` says that they are the
only ones.  `DeleteAttachment` is the deletion of the row, whose trigger journals the key;
the purge of a deleted workspace, which removes the preview objects of PostgreSQL before
the rows (`src/jobs/workspace.rs:206`), is not in this module, and `PublishedExists` says
nothing about it.

## Maintenance claims

Every server ticks; the one that gets the claim of a job runs a sweep, a chain of
*units* of one transaction each.  `backend` is the database: on PostgreSQL the claim is a
session lock beside the pool (`TryClaim`, `PoolUnit`, `Unlock`), in the SQLite family a
row, and each unit renews and proves it inside its own writer transaction.  The three
differ most in what a `COMMIT` without an answer means: a local database has settled it
when the next writer begins, so the server looks (`Observe*`); a remote one may still
execute it (`flight`, `SettleRemote`), so the server stops and is started again with
another token.

| Code | Actions |
|---|---|
| `FamilyMaintenanceClaimRequest::try_acquire`, `observe` | `Acquire`, `Reacquire`, `ObserveAcquired` |
| `renew_maintenance_writer`, `commit_maintenance_writer` | `UnitBegin`, `UnitError`, `UnitCheck`, `UnitCommit` |
| `finish_family_claim` | `Release*`, `ObserveReleased`, `FinishFailed`, `FinishLost` |
| `JobClaim` | `TryClaim`, `PoolUnit`, `Unlock`, `LoseSession` |
| the loop of `spawn_maintenance_backend` and its end | `Crash`, `Restart` |

`UnitsInOrder` is what "one runner at a time" means for a job whose steps are
transactions: no unit of an earlier claim is committed after a unit of a later one.  On
PostgreSQL it holds as long as no lock session is lost (`losses = 0`): a job does not
look at its lock again, and its units, storage calls and mails are then those of two
runners.  A unit is one step there; a `COMMIT` that a server sent before it crashed and
that lands after its lock session ended is, in the model, a session that was lost first
(`LoseSession`, `PoolUnit`, `Crash`), so the property does not promise anything about it
either.  In the family any doubt ends the loop and with it the server
(`src/main.rs:687`), which is why `OrphanedClaimEnds` rests on a restart.

## Import jobs

An import is a row of `import_jobs` that a runner leases, runs and ends.  A run is a
chain of transactions, each of which creates something, lists it in `created_refs` and
extends the lease, if the row still carries the run's token.  A run that fails undoes
what it created; a run that dies leaves that to the next attempt or to the daily sweep.

| Code | Actions |
|---|---|
| `create_async_import_job` | `Submit` |
| `claim_next_import_job`, `run_claimed_inner` | `Claim`, `ClaimUnanswered`, `Load` |
| `run_office_import`, `run_notion_import`, `run_native_claimed` | `Write` (one transaction of the run: `Effect` and `Advance`), `Put`, `Fence`, `Refuse`, `ItemFails`, `SeedUnavailable`, `TaskCancelled`, `Unanswered` |
| `compensate_import` (PostgreSQL) | `UndoRow`, `UndoRowFails`, `UndoKeys` |
| `compensate_family_import` | `UndoBegin`, `UndoEnd`, `UndoEndFails` |
| `release_import_job_for_retry`, `finish_import_job` | `Write` at `settle`, `finish`, `fail` |
| `sweep_orphan_imports`, `cleanup_failed_import_backend` | `SweepClaim`, `SweepPick`, `SweepPrepare` |
| drain, lease, backoff, session | `Drain`, `AbandonedExpires`, `Stall`, `BackoffEnds`, `Revoke`, `Crash` |

**Abstractions.**

* A run creates one document, one attachment (with its object) and one task, named by
  the attempt, so that the leftovers of a dead run and the work of its successor differ.
  The attempt is also the lease token: both are new with every claim.
* `job.live` is "the lease has not run out".  `now()` of PostgreSQL is the start of the
  transaction, so a lease that ran out during one still counts (`Held`).  A lease that
  runs out under a working runner is a `Stall`.
* The events of a Notion run are parked by a trigger that asks whether the job runs, not
  whether this run leases it; those of an office run are written at once.
* A step of the run is one transaction, with two exceptions that no property tells apart:
  the body of a document is three transactions on PostgreSQL and one step (`BodyRow`).
  `UndoBegin` removes the objects of the family's compensation before the transaction
  whose end may fail; a single `purge_key` that fails is that transaction failing.  `Purge`
  leaves the journal alone although the delete trigger adds the attachment's key to it,
  which only helps the drain.
* Users do not touch what an import created, parsers only fail or succeed, and there is
  one sweeper.

Three things the properties state exactly as far as the code carries them.  `put_bytes`
is not fenced, so an object may outlive its run unlisted if the run outlived its lease
(`Journaled` speaks of objects only without stalls).  PostgreSQL's sweep takes up running
jobs, never failed ones, so after a crash or a failed purge *behind* the failure the rows
stay, while the family's sweep tries again (`FailedIsUndone`).  And an unconfirmed commit
ends the import loop of its server; `JobEnds` promises the end of a job only while a
loop is left.

## Runs

The outbox runs have two dispatcher processes (`Owners`), interchangeable and hence
symmetric in the safety runs, `MaxAttempts = 2` (one retry, then dead letter)
and `BatchLimit = 2`.

| Run | Question | Bounds | Distinct states |
|---|---|---|---|
| `external_postgres` | at least once, cursor, order, late commits, and the inductive invariant, with concurrent writers | 2 transactions, 2 events, 1 fault, 1 requeue, chunks of 2 | 736,652 |
| `external_liveness` | every event is passed, every requeue settles | 1 transaction, 2 events, 1 fault, 1 requeue | 218,466 |
| `atomic_postgres` | exactly once but for late burials, and the inductive invariant | 2 transactions, 2 events, 2 faults, 2 requeues | 2,732,361 |
| `collab_editing` | saved and shown updates are stored, snapshots are exact, peers complete | 2 servers, 1 editor, 1 viewer, 2 updates, 2 operations, 2 generations, a tail of 1, 1 fault | 1,966,877 |
| `collab_restore` | restores and their retries: the room is current, the body follows, the abstract document is implemented, the inductive invariant | 2 servers, 1 editor, 1 intent, 2 updates, 2 operations, 2 generations, a tail of 2, 1 fault | 591,052 |
| `upload` | stored files have their bytes, answers are true, nothing is forgotten, and the inductive invariant; uploads end, bytes are reclaimed | 3 storages, 2 completers, 1 sweeper, 1 drain, 1 purge of the owner, 1 part with 2 contents (one too short), 1 fault, 1 lost lock | 665,086 |
| `preview` | a published preview exists, keys are accounted for, and the inductive invariant; previews settle, keys are reclaimed | 2 workers, 2 attempts, leases of 1 tick, 1 fault, 2 moves of the parent | 250,778 |
| `maintenance` | reported claims are durable, units in order, and the inductive invariant; a dead server's claim ends | 3 databases, 2 servers, leases of 2 ticks, 3 claims, 2 faults, 1 lost session | 49,266 |
| `import` | completed is whole, leftovers are listed, events are true, and the inductive invariant; jobs end, failed ones are undone | both kinds of database, 3 sources, 2 runners, 1 sweeper, 2 attempts (the code's number), 2 faults, 1 stall | 174,280 |
| `upload_lock_lost` | violation: a stored row whose object was purged | S3, 1 lost lock, no other fault | — |
| `dead_letter_stranded` | violation: a passed dead letter that no requeue accepts | 1 transaction, 2 faults | — |
| `requeue_race` | violation: a requeue that is forgotten | 1 transaction, no fault, 2 requeues | — |

Two transactions are the fewest that can commit out of order; two events are the
fewest of which one fails while the other is delivered, and a batch of two with
chunks of two (or one) has partial prefixes, so every branch of a chunk's
outcome happens.  One fault suffices for a hand-over between two live processes
or a crash in the middle of a delivery.  The proofs below do not depend on any
of these bounds.

For the rooms, two servers with two generations are the fewest that hand a
document over while the older room still acts; two operations are the fewest of
which one is in the snapshot and one in the tail, or of which one repeats the
other's restore.  A tail of one row meets its limit with the second append, a tail of
two holds both.  Lost answers of an append are bounded by the operations; `Fault`
counts crashes, lost locks, engine failures and lost answers of claims and
compactions.  Servers and updates are symmetric.

Uploads need two completers for a retry that meets the first one's work, and two contents
for one that names another list.  One fault is a crash between any two steps or a failed
call of storage; the proofs allow any number.  Two preview workers and two attempts are
the fewest of which one is taken over by the other; with a lease of one tick all three
states of a lease (live, on the instant, takeable) and all of a journal entry occur.
Three claims are a first owner, its successor and the return of the first.  Two runners
with two attempts of an import are all the code allows; two faults are a dead run and a
failure while its leftovers are undone.

The relay of the SQLite family (`SingleWriter = TRUE`, no `xmin`) has no run of its own:
the theorems hold for either value of `SingleWriter`, and `NeverTwiceLocked` for it alone.

Deadlock is not an error for uploads and imports, whose single file or job comes to an
end with nothing left to do.  In all other runs it is checked.

## Fairness

`FairSpec` of `OutboxExternal` assumes only what the deployment provides:

* a live process takes its next step, and a server that is down is started
  again: weak fairness of `Progress(o)` for each `o`;
* the lease of an owner that is gone expires, backoffs elapse: they are
  timestamps;
* a transaction in progress commits or aborts.

`FairSpec` of the other modules, in the same spirit:

* uploads: a request that was started runs to its end, and sweeps and drains come back
  until they get the lock (strong fairness, since a completion may have it whenever they
  try).  A *client* is not fair: it may never complete its upload, and the sweep has to
  end it;
* previews: the job loops poll, a started step ends, the drain comes round (strongly
  fair for a key, since it works on one key at a time), time passes.  A worker need not
  succeed: an image may be rejected or kill its worker;
* maintenance: a server that is stopped is restarted by its supervisor, units and
  reconciliations end, the remote database settles what it was sent, time passes.
  Strong fairness where the single writer may be taken by the other server in between
  (writers are served in turn);
* imports: loops poll, the sweep runs daily, the journal is drained, abandoned leases
  and backoffs run out.  A loop that has ended for an unconfirmed outcome is *not*
  assumed to be restarted: nothing in the code does.

Faults are bounded (`MaxFaults`), since no relay makes progress if every cycle
is interrupted.  Failures of the *consumer* are not bounded: it may fail every
time, and events are then passed as dead letters.

## Proofs

Checked by TLAPS for every number of processes, transactions, events, attempts,
batch and chunk sizes (the named assumptions next to the constants only say that
these are naturals, positive where the code clamps them, and that `NoOwner` is
no owner):

| Theorem | Statement |
|---|---|
| `OutboxExternalProofs!Invariance`, `TypeCorrectness` | `Spec => []IInv`, `Spec => []TypeOK` |
| `CursorSafety` | the cursor passes only events marked done or dead-lettered |
| `Delivery` | an event passed and never dead-lettered has had its effect |
| `CommitsAhead` | no transaction commits behind the cursor |
| `Order` | effects happen in log order, dead letters excepted |
| `OutboxAtomicProofs!Invariance`, `TypeCorrectness` | `Spec => []IInv`, `Spec => []TypeOK` |
| `AtMostOnce` | no effect is committed twice, except of an event that was buried late |
| `NeverTwiceLocked` | under `SingleWriter`, `Spec => []NeverTwice`: in the SQLite family there is no exception |
| `NoneLost`, `EffectWithCursor` | a passed event that was never dead-lettered was applied; no effect is ahead of the cursor |

The properties are not inductive, because a process acts on what it read long
ago.  The strengthening says what remains true of such stale knowledge:

* `LedgerOK`: the cursor's transaction is settled, so no commit can appear
  behind it, and everything up to it is resolved;
* `CycleOK`/`DeliveryOK`: every event a process still holds is committed and
  settled, and every committed event before it is either resolved or also held
  by it (`CoveredBefore`).  Since resolution is permanent and a settled prefix of
  the log does not grow, no other process can invalidate this, whatever happens
  to the lease.  Hence even an advance by a process that has lost its lease would
  be harmless in mode External: the lease protects efficiency, and the proof of
  `CursorSafety` does not use it;
* `AgreementOK`, `AliveOK`, `LateOK` (Atomic): the mark, the effect and the cursor
  agree, and an event found alive stays so while its finder holds the lease, unless it
  is buried late.  Here the lease *is* used: without it a dead letter could be buried by
  one process while another delivers it.  A late burial is exactly that, and it cannot
  happen where the writer lock covers the whole of `record_failure`.

The proof of `Invariance` has one step per action; `OutboxDispatcherProofs` holds
the lemmas on the order of positions, prefixes, settled transactions and the
actions both modes share.  `IInv` is also an invariant of the runs.

Rooms and store (`CollabRoomProofs`), for any sets of servers, clients, updates
and restore intents and any bounds (the assumptions say that the special values
`NoServer`, `NoClient`, `NoIntent` are none of the others, that no client is both
editor and viewer, and that `MaxTail` is positive):

| Theorem | Statement |
|---|---|
| `Consistent`, `TypeCorrect` | `Spec => []RoomInv`, `Spec => []TypeOK` |
| `AcknowledgedIsDurable` | what was reported as saved is in every later load |
| `ShownIsDurable` | no client was sent anything that a load does not return |
| `SnapshotIsExact` | compaction loses and invents nothing |
| `WriterIsCurrent`, `PeersAreComplete` | an idle room of the current generation, and the clients synced with it, have the whole document |
| `BodyIsCurrent` | `Spec => BodyFollowsTail`: no late projection wins |
| `Refinement` | `Spec => Implements` |

None of them is inductive: a stale room acts on an old tail with an engine of its
own.  `RoomInv` says what remains true of such a room: it knows exactly the history
up to its tail (`KnowsPrefix`); its engine holds just that, plus at most the
candidate that waits for its append; a receipt with its operation id is the one of
its own append, one past its tail (`OperationFits`); and only if its generation is
the current one does it know the whole history, but for its own append whose answer
is out (`WriterCurrent`).  Generations and operation ids belong to one room
(`OwnersDistinct`), and snapshot and tail are two halves of the receipts
(`StoreConsistent`).  A claim makes all other rooms stale and asks nothing more of
them; an append extends the history at one end and leaves every prefix as it was.
The advisory lock does not occur in the invariant: it saves work, and the
generation alone keeps the document whole.

The proof has one lemma per group of actions, over lemmas on the history
(`NextHistory`, `AppendExtends`) and on steps that store nothing (`LearningStep`,
`QuietStep`), claim, append or tidy up.  `Refinement` needs of each step only
whether it appends and whom it tells.

Maintenance claims (`MaintenanceClaimProofs`), for any set of servers, lease time and
bounds, on each database:

| Theorem | Statement |
|---|---|
| `Invariance`, `TypeCorrectness` | `Spec => []ClaimInv`, `Spec => []TypeOK` |
| `ReportedClaimsAreDurable` | no unanswered commit is taken for a claim |
| `UnitsAreOrdered` | `Spec => UnitsInOrder` |

`ClaimInv` is `TypeOK /\ UnitInv /\ AcquiredIsDurable`.  What makes it inductive is the
single writer: while a unit is open the row is its own (`writer # None => owner = writer
/\ mine[writer] = gen`), and a commit in flight keeps other writers out, so whatever it
makes durable is not older than the row (`flight.gen >= gen`) and no sweep of its own
generation is still running.  The lease time does not occur: expiry decides who may take
over, the generation decides whose unit counts.

Uploads (`AttachmentUploadProofs`), for any sets of completing requests, sweeps, drains,
owner purges and parts, on each storage, with any number of faults and lost connections (the
assumptions separate the roles and the special values, and say that a short part is a
part):

| Theorem | Statement |
|---|---|
| `Invariance` | `Spec => []IInv` |
| `StoredRowsAreIntact` | a stored row whose owner is live or can be restored has the bytes its receipt names, while no lock was lost |
| `AnswersHold` | who was told "done" finds what it named, under the same conditions |
| `NothingIsOrphaned` | bytes have a row or a journal entry or the request that opened them, whatever was lost; but for an upload opened after its row was removed, which never becomes an object |

`IInv` has two halves.  `RowLife` and `PlacesSane` need no lock: the row is made once, its
removal journals the key, and its upload is opened once.  If that is before the drain
drops the entry, the drain aborts it and nothing is left from which an object could be
made; if it is after, the row is gone and no completion can make an object of it.  An
owner's purge is at work only when the owner is beyond restoring.
`Guarded` holds until a connection with the lock is lost (`losses = 0`): who is in a
chain is alone (`Exclusive`), and the *prepared completion* is what everybody agrees on.
It closes the local parts, and S3 closes the upload when it publishes, so an object found
by a later attempt is that of the prepared completion, whoever published it
(`Published`); the completer that marks the row works for the same one
(`CompleterSane`).  Hence a receipt that `MarkStored` writes is never `None`: the rows
without a receipt that `stored_upload_matches` admits do not arise here.  What happens
beyond the first lost connection is the finding `upload_lock_lost`.

Previews (`AttachmentPreviewProofs`), for any set of workers, lease time and bound on
attempts:

| Theorem | Statement |
|---|---|
| `Invariance` | `Spec => []IInv` |
| `PublishedHaveObjects` | a published preview has its object |
| `KeysAreAccounted` | an object is published, journaled, or of a put that ended too late |

A key belongs to one claim (`ClaimsCounted`, `KeyFresh`).  Its journal entry is due later
than the lease that wrote it ends (`KeySafe`), both run down together, and a publication
needs a live lease; the drain takes only keys that are due (`DrainSafe`).  So time, not
the drain's row lock, protects a published key: the proof goes through with the lock lost
at any moment (`DrainLosesLock`).

Imports (`ImportJobProofs`), for any set of runners, any number of attempts, faults and
outlived leases, every source and both kinds of database:

| Theorem | Statement |
|---|---|
| `Invariance` | `Spec => []IInv` |
| `WorkIsJournaled` | what an unfinished attempt left is listed, or in the cleanup journal |
| `CompletedJobIsWhole` | a completed job has exactly the graph of its last attempt |
| `ImportEventsAreTrue` | events name rows that exist; deferred ones appear with the completed job |

The lease is that of the last attempt, and every run at work has an attempt of its own
(`RowSane`, `Distinct`), so at most one run owns the job, and every fenced write is the
owner's.  The three steps that no lease fences (the body, the put, the compensation)
create no row and touch only attempts up to their own, which is neither the one that won
nor that of another owner (`RunSane`).  `Progress` is what the owner has done at each
step and what it knows of it; it is needed because completion publishes what the run
believes it created, and a retry starts only when everything listed is gone.  For the
objects, whose put is not fenced, the invariant adds that without a stall every run at
work owns a live lease; this is why `Journaled` speaks of objects only then.  The sweep
needs nothing but that it undoes jobs that have already failed (`SweepSane`).

Every safety property of the passing runs is a theorem.  Only model-checked are the
liveness properties, which are outside the prover's reach (`external_liveness`, and the
leads-to properties of `upload`, `preview`, `maintenance` and `import`), and that the
variants are caught.

## Findings

* **A passed dead letter may not be requeueable** (`dead_letter_stranded`).  The
  dispatcher ignores the answer of the advance over a dead letter and goes on
  with the next event.  If the lease had run out for that call only, the next
  chunk renews it and its advance passes the dead letter without setting
  `skipped_at`, which `app_outbox_requeue` asks for: against the procedure's
  comment, the row can never be requeued.
* **A requeue may be forgotten** (`requeue_race`).  `handle_failure` records the
  last failure in one transaction and advances in another.  A requeue in between
  makes the row live, skipped and at or below the cursor, which
  `app_outbox_advance` takes for a retry that succeeded: it deletes the row.
* **A sweep may purge a completed upload** (`upload_lock_lost`).
  `gc_stale_upload_locked` looks at the row in a committed transaction and then purges
  the key without the database.  If its connection, and so the lock, is lost in
  between, a completion publishes the object and marks the row stored, and the purge
  deletes the object under it.

`PROJECT.json` quotes the lines.

Three more behaviours are built into the properties as their one exception, so that the
run shows that there is no other.  TLC finds each of them when the exception is dropped.

* *An effect applied twice on PostgreSQL* (`late` in `AppliedAtMostOnce`).
  `app_outbox_record_failure` reads the lease without a lock and upserts later.  An owner
  that loses the lease in between dead-letters the event its successor is delivering; the
  successor's advance stamps `skipped_at` although the effect is committed.  If it dies
  before it clears the row and the mark is collected, a requeue applies the effect again.
* *A forgotten upload* (`creator = "lost"` in `NothingOrphaned`, `BytesReclaimed`).  A task
  purged between the reserved row and `create_multipart` takes row and journal entry away
  before the upload is opened; a request that then dies leaves an open upload that nothing
  names.
* *A failed import that leaves rows on PostgreSQL* (`Postgres /\ faults > 0` in
  `FailedIsUndone`).  The runner undoes what it knows it created; a row whose `COMMIT` was
  not answered is listed in `created_refs` only, and PostgreSQL's sweep looks at running
  jobs, never at failed ones, although `migrations/postgres/060/11_imports.sql:10` has the
  list "compensated by the runner or the orphan sweep".

## What is left out

Of the rooms: what the abstractions above name, awareness, and liveness.  Three
behaviours of rooms are known and not stated as properties: a viewer that joined before
a claim keeps the older load until it syncs again (`src/collab/room.rs:2359`); a document
written over HTTP only is never compacted and meets `MAX_COLLAB_TAIL_UPDATES`
(`src/db/collab.rs:3419`); on PostgreSQL a dead guard connection is noticed by the next
update only (`src/collab/room.rs:4464`).  Of uploads and previews: quota arithmetic,
access checks, downloads, the family's writer path, copies for personal transfers.  Of
maintenance: what the statements of a unit do.  Of imports: the parsers and the
request-driven Markdown import, which has no lease and undoes nothing.  Of the
outbox: the xid epoch check and the recovery tools, a consumer that is not configured
and keeps no marks (GitHub), the job that schedules mark collection, and the
content of events and effects.  A failure row may survive a crash between advance
and clear; it is never read again (its event is behind the cursor and not
skipped), so it is a leak and not a fault.

Parts with no module, and why: identity, sessions, documents, projects, tasks, comments,
timers and quota are single transactions over rows, whose isolation is the database's;
formats, search, rendering and the web client are data rather than protocol.  Body saves,
server-sent events, the mail queue and the outbox recovery tools are protocols and
remain to be modelled.

## Plan

1. Outbox relay: log, ledger, dispatcher, both modes, proofs. *(done)*
2. Collaboration storage and rooms on PostgreSQL, abstract document, refinement,
   proofs. *(done)*
3. Uploads and previews with their journal, maintenance claims, import jobs. *(done)*
4. Theorems for these four: every safety property the runs check. *(done)*
5. The room guard of the SQLite family (`guard.rs`, leases that are renewed and
   fenced) as a second implementation of `CollabHistory`; the hub's room lifecycle
   with admission limits and reclaim.
6. Body saves and command receipts (`body_save.rs`), composed with `CollabStore`:
   compare-and-swap against a document that a room is editing.
7. Outbox recovery and reset.
8. Server-sent events; the mail queue.
