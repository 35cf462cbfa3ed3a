----------------------------- MODULE ImportJob -----------------------------
(***************************************************************************)
(* One durable import job (import_job.rs, db/import_jobs.rs): the row that *)
(* queues and leases it, the runners of the servers that execute it, the   *)
(* rows, objects and events a run creates, their compensation, and the     *)
(* daily sweep of expired jobs.                                            *)
(*                                                                         *)
(* A run creates one document, one attachment and one task, named by the   *)
(* attempt that created them, so that the leftovers of a dead run and the  *)
(* work of its successor are told apart.  The attempt is also the lease    *)
(* token: both are fresh with every claim.  Time is the truth of "the      *)
(* lease has not run out" (job.live) and of "the retry backoff is over"    *)
(* (job.ready).                                                            *)
(***************************************************************************)
EXTENDS Naturals, FiniteSets

CONSTANTS
    Runners,        \* the import loops, one per server
    Sweeper,        \* the holder of the daily maintenance claim
    None,           \* no holder of the family's writer
    Backends,       \* subset of {"postgres", "family"}
    Sources,        \* subset of {"office", "notion", "native"}
    MaxAttempts,    \* IMPORT_MAX_ATTEMPTS
    MaxFaults,      \* bound: crashes, failed purges and lost COMMIT answers
    MaxStalls       \* bound: leases outlived by the runner that holds them

ASSUME ImportAssumption ==
    /\ None \notin Runners \cup {Sweeper}
    /\ Sweeper \notin Runners
    /\ Backends \subseteq {"postgres", "family"}
    /\ Sources \subseteq {"office", "notion", "native"}
    /\ MaxAttempts \in Nat \ {0}
    /\ MaxFaults \in Nat
    /\ MaxStalls \in Nat

Actors == Runners \cup {Sweeper}
Attempts == 1..MaxAttempts
Refs == {"document", "task", "key"} \X Attempts
Doc(a) == <<"document", a>>
Task(a) == <<"task", a>>
Key(a) == <<"key", a>>
Keys == {Key(a) : a \in Attempts}
Rows == Refs \ Keys

VARIABLES
    backend, source,
    admin,      \* the creator is still an administrator with a live session
    job,        \* the import_jobs row and its import_deferred_events
    rows,       \* documents and tasks that exist
    atts,       \* the attachment row of each attempt
    objects,    \* attempts whose object is in storage
    announced,  \* rows whose creation is in the event log, and not their purge
    journal,    \* attempts whose key is in attachment_object_cleanups
    run,        \* what each actor is doing
    writer,     \* who holds the family's writer across storage I/O
    faults, stalls

setting == <<backend, source>>
db == <<job, rows, atts, announced, journal>>
bounds == <<faults, stalls>>
vars == <<setting, admin, db, objects, run, writer, bounds>>

Steps == {"idle", "undo", "reset", "load", "extend", "create", "body",
          "reserve", "put", "mark", "task", "finish", "settle", "stage",
          "publish", "fail", "prepare", "stopped"}

Job == [status : {"none", "running", "completed", "failed"},
        token : 0..MaxAttempts, live : BOOLEAN, attempts : 0..MaxAttempts,
        ready : BOOLEAN, refs : SUBSET Refs, parked : SUBSET Rows]

Run == [pc : Steps, claim : 0..MaxAttempts, created : SUBSET Refs,
        todo : SUBSET Refs, failed : BOOLEAN,
        err : {"none", "transient", "incomplete", "failed"}]

Idle == [pc |-> "idle", claim |-> 0, created |-> {}, todo |-> {},
         failed |-> FALSE, err |-> "none"]

TypeOK ==
    /\ backend \in Backends
    /\ source \in Sources
    /\ admin \in BOOLEAN
    /\ job \in Job
    /\ rows \subseteq Rows
    /\ atts \in [Attempts -> {"none", "uploading", "stored"}]
    /\ objects \subseteq Attempts
    /\ announced \subseteq Rows
    /\ journal \subseteq Attempts
    /\ run \in [Actors -> Run]
    /\ writer \in Actors \cup {None}
    /\ faults \in 0..MaxFaults
    /\ stalls \in 0..MaxStalls

Init ==
    /\ backend \in Backends
    /\ source \in Sources
    /\ admin = TRUE
    /\ job = [status |-> "none", token |-> 0, live |-> FALSE, attempts |-> 0,
              ready |-> TRUE, refs |-> {}, parked |-> {}]
    /\ rows = {}
    /\ atts = [a \in Attempts |-> "none"]
    /\ objects = {}
    /\ announced = {}
    /\ journal = {}
    /\ run = [x \in Actors |-> Idle]
    /\ writer = None
    /\ faults = 0
    /\ stalls = 0

Postgres == backend = "postgres"

-----------------------------------------------------------------------------
(***************************************************************************)
(* The row.                                                                *)
(***************************************************************************)

\* A server of the SQLite family writes while it holds the only writer; on
\* PostgreSQL rows are locked for one transaction, which is one step here.
WriterFree == writer = None

\* Variant: the lease token is not compared.
HeldByAnyRun(w) == job.status = "running" /\ (job.live \/ Postgres)

\* OWNED_BY_RUNNER.  now() of PostgreSQL is the start of the transaction: a
\* lease that ran out during it still counts.
Held(w) ==
    /\ job.status = "running"
    /\ job.token = run[w].claim
    /\ job.live \/ Postgres

Fenced(w) == ~(Held(w) /\ job.live)

\* append_import_ref: the reference and the lease, with the row it names.
Renewed(refs) == [job EXCEPT !.refs = @ \cup refs, !.live = TRUE]

\* Events of a Notion run are parked with the job.  The trigger of
\* PostgreSQL checks that the job runs, not that this run still leases it.
Noted(j, rs) ==
    IF source = "notion" THEN [j EXCEPT !.parked = @ \cup rs] ELSE j

Told(rs) == announced' = IF source = "office" THEN announced \cup rs ELSE announced

\* finish_import_job_in_tx and claim_expired_import_job: a terminal state
\* has no lease and no parked event.
Ended(status) == [job EXCEPT !.status = status, !.token = 0, !.live = FALSE,
                             !.parked = {}]

-----------------------------------------------------------------------------
(***************************************************************************)
(* The run of a claimed job.                                               *)
(***************************************************************************)

Goto(w, pc) == run' = [run EXCEPT ![w].pc = pc]
Leave(w) == run' = [run EXCEPT ![w] = Idle]
Stop(w) == run' = [run EXCEPT ![w] = [Idle EXCEPT !.pc = "stopped"]]

\* The error paths of run_claimed and run_native_claimed: a run that failed
\* undoes what it knows it created, a native run only reports the failure.
GiveUp(w, e) ==
    run' = [run EXCEPT ![w].pc = IF source = "native" THEN "fail" ELSE "undo",
                       ![w].todo = run[w].created, ![w].failed = FALSE,
                       ![w].err = e]

\* The run created r, or came past the step of pc, and knows it.
Created(w, r, pc) ==
    run' = [run EXCEPT ![w].created = @ \cup {r}, ![w].pc = pc]

\* create_async_import_job: queued, with the upload on the row.
Submit ==
    /\ job.status = "none"
    /\ admin
    /\ job' = [job EXCEPT !.status = "running"]
    /\ UNCHANGED <<setting, admin, rows, atts, announced, journal, objects,
                   run, writer, bounds>>

\* Variant: an expired lease is taken over without counting attempts.
ClaimableAlways == job.status = "running" /\ ~job.live

\* The row is queued, or its lease has run out and an attempt is left.
Claimable ==
    /\ job.status = "running"
    /\ job.attempts < MaxAttempts
    /\ ~job.live
    /\ job.attempts = 0 \/ job.token # 0 \/ job.ready

ClaimRow == job' = [job EXCEPT !.attempts = @ + 1, !.token = job.attempts + 1,
                               !.live = TRUE]

\* run_claimed_inner starts by undoing what a dead run left; a native run
\* leaves it to the cleanup journal.
Claim(w) ==
    /\ run[w].pc = "idle"
    /\ WriterFree
    /\ Claimable
    /\ ClaimRow
    /\ LET prior == job.refs
           undo == source # "native" /\ prior # {}
       IN run' = [run EXCEPT ![w].claim = job.attempts + 1,
                             ![w].pc = IF undo THEN "undo" ELSE "load",
                             ![w].todo = IF undo THEN prior ELSE {}]
    /\ UNCHANGED <<setting, admin, rows, atts, announced, journal, objects,
                   writer, bounds>>

\* Variant: the events of the dead run stay parked.
ResetRefsOnly(w) ==
    /\ job' = [job EXCEPT !.refs = {}]
    /\ UNCHANGED <<rows, atts, announced, journal>>

\* reset_import_refs, once the leftovers are gone.
ResetRow(w) ==
    /\ job' = [job EXCEPT !.refs = {}, !.parked = {}]
    /\ UNCHANGED <<rows, atts, announced, journal>>

\* load_import_payload and, after a parse, extend_import_lease.
Load(w) ==
    /\ run[w].pc = "load"
    /\ WriterFree
    /\ Held(w)
    /\ Goto(w, IF source = "notion" THEN "create" ELSE "extend")
    /\ UNCHANGED <<setting, admin, db, objects, writer, bounds>>

ExtendRow(w) ==
    /\ job' = Renewed({})
    /\ UNCHANGED <<rows, atts, announced, journal>>

\* The document, its reference and its event in one transaction; the family
\* writes the body with them, PostgreSQL afterwards.
CreateRow(w) ==
    LET d == Doc(run[w].claim) IN
    /\ rows' = rows \cup {d}
    /\ job' = Noted(Renewed({d}), {d})
    /\ Told({d})
    /\ UNCHANGED <<atts, journal>>

\* apply_imported_markdown on PostgreSQL: the document must still be there;
\* the lease is not looked at.
BodyRow(w) ==
    LET d == Doc(run[w].claim) IN
    /\ job' = IF job.status = "running" THEN Noted(job, {d}) ELSE job
    /\ Told({d})
    /\ UNCHANGED <<rows, atts, journal>>

\* create_import_attachment_backend: the row with the key's reference.
ReserveRow(w) ==
    LET a == run[w].claim IN
    /\ atts' = [atts EXCEPT ![a] = "uploading"]
    /\ job' = Renewed({Key(a)})
    /\ UNCHANGED <<rows, announced, journal>>

\* mark_import_attachment_stored_backend, which sees the object first.
MarkRow(w) ==
    /\ atts' = [atts EXCEPT ![run[w].claim] = "stored"]
    /\ job' = Renewed({})
    /\ UNCHANGED <<rows, announced, journal>>

\* create_import_task.
TaskRow(w) ==
    LET t == Task(run[w].claim) IN
    /\ rows' = rows \cup {t}
    /\ job' = Noted(Renewed({t}), {t})
    /\ UNCHANGED <<atts, announced, journal>>

\* finish_import_job(Completed): the parked events become visible with it.
CompleteRow(w) ==
    /\ job' = Ended("completed")
    /\ announced' = announced \cup job.parked
    /\ UNCHANGED <<rows, atts, journal>>

\* stage_key_backend: the key's reference and its cleanup journal.
StageRow(w) ==
    LET a == run[w].claim IN
    /\ job' = Renewed({Key(a)})
    /\ journal' = journal \cup {a}
    /\ UNCHANGED <<rows, atts, announced>>

\* publish_backend: the whole graph, the end of the job and the keys taken
\* off the journal, in one transaction.
PublishRow(w) ==
    LET a == run[w].claim IN
    /\ rows' = rows \cup {Doc(a), Task(a)}
    /\ atts' = [atts EXCEPT ![a] = "stored"]
    /\ announced' = announced \cup {Doc(a), Task(a)}
    /\ journal' = journal \ {a}
    /\ job' = [Ended("completed") EXCEPT !.refs = {}]

FailRow(w) ==
    /\ job' = Ended("failed")
    /\ UNCHANGED <<rows, atts, announced, journal>>

\* Variant: every release clears the references.
ReleaseCleared(w) ==
    /\ job' = [job EXCEPT !.token = 0, !.live = FALSE, !.ready = FALSE,
                          !.refs = {}, !.parked = {}]
    /\ UNCHANGED <<rows, atts, announced, journal>>

\* release_import_job_for_retry: the references go only when everything
\* they name is gone.
ReleaseRow(w) ==
    LET clear == ~run[w].failed /\ run[w].err # "incomplete" IN
    /\ job' = [job EXCEPT !.token = 0, !.live = FALSE, !.ready = FALSE,
                          !.refs = IF clear THEN {} ELSE @,
                          !.parked = IF clear THEN {} ELSE @]
    /\ UNCHANGED <<rows, atts, announced, journal>>

\* Variant: the last attempt is released as well.
SettleByRelease(w) ==
    IF run[w].err \in {"transient", "incomplete"} THEN ReleaseRow(w) ELSE FailRow(w)

\* A transient failure is retried while an attempt is left.
SettleRow(w) ==
    IF run[w].err \in {"transient", "incomplete"} /\ run[w].claim < MaxAttempts
    THEN ReleaseRow(w)
    ELSE FailRow(w)

-----------------------------------------------------------------------------
(***************************************************************************)
(* Each of these steps is one transaction: it commits, is refused, fails,  *)
(* or commits without an answer.                                           *)
(***************************************************************************)

Effect(w) ==
    \/ run[w].pc = "reset" /\ ResetRow(w)
    \/ run[w].pc = "extend" /\ ExtendRow(w)
    \/ run[w].pc = "create" /\ CreateRow(w)
    \/ run[w].pc = "body" /\ BodyRow(w)
    \/ run[w].pc = "reserve" /\ ReserveRow(w)
    \/ run[w].pc = "mark" /\ MarkRow(w)
    \/ run[w].pc = "task" /\ TaskRow(w)
    \/ run[w].pc = "finish" /\ CompleteRow(w)
    \/ run[w].pc = "settle" /\ SettleRow(w)
    \/ run[w].pc = "stage" /\ StageRow(w)
    \/ run[w].pc = "publish" /\ PublishRow(w)
    \/ run[w].pc = "fail" /\ FailRow(w)

\* Steps that ask again whether the creator may import.
Authorized == {"create", "body", "reserve", "mark", "task", "stage", "publish"}

\* What the statements of the step ask for, besides the lease.
Permitted(w) ==
    LET a == run[w].claim
        pc == run[w].pc
    IN  /\ pc \in Authorized => admin
        /\ pc = "finish" => admin \/ Postgres
        /\ pc = "body" => Doc(a) \in rows
        /\ pc = "mark" => Key(a) \in job.refs /\ a \in objects
        /\ pc = "publish" => Key(a) \in job.refs /\ a \in journal

Commits(w) == WriterFree /\ (run[w].pc = "body" \/ Held(w)) /\ Permitted(w)

\* The step after a COMMIT that was answered, and what the run has created.
Advance(w) ==
    LET a == run[w].claim
        pc == run[w].pc
        afterDoc == IF source = "notion" THEN "reserve" ELSE "finish"
    IN CASE pc = "reset"   -> Goto(w, "load")
         [] pc = "extend"  -> Goto(w, IF source = "office" THEN "create" ELSE "stage")
         [] pc = "create"  -> Created(w, Doc(a), IF Postgres THEN "body" ELSE afterDoc)
         [] pc = "body"    -> Goto(w, afterDoc)
         [] pc = "reserve" -> Created(w, Key(a), "put")
         [] pc = "mark"    -> Goto(w, "task")
         [] pc = "task"    -> Created(w, Task(a), "finish")
         [] pc = "stage"   -> Goto(w, "put")
         [] OTHER          -> Leave(w)

Write(w) ==
    /\ Commits(w)
    /\ Effect(w)
    /\ Advance(w)
    /\ UNCHANGED <<setting, admin, objects, writer, bounds>>

\* RunError::Fenced, and a terminal update that moved no row: the run ends
\* and leaves the job to its next claim or to the sweep.
Fence(w) ==
    /\ run[w].pc \in Steps \ {"idle", "undo", "body", "put", "prepare", "stopped"}
    /\ WriterFree
    /\ \/ Fenced(w)
       \/ run[w].pc \in {"finish", "publish"} /\ ~Permitted(w)
    /\ Leave(w)
    /\ UNCHANGED <<setting, admin, db, objects, writer, bounds>>

\* A refused authorization, a document purged meanwhile, an object that is
\* not there.
Refuse(w) ==
    /\ run[w].pc \in Authorized
    /\ WriterFree
    /\ ~Permitted(w)
    /\ GiveUp(w, "failed")
    /\ UNCHANGED <<setting, admin, db, objects, writer, bounds>>

\* Shutdown, a parse error, a limit, a database error: the item fails.  A
\* failed put may have stored the object.
ItemFails(w) ==
    /\ run[w].pc \in Authorized \cup {"load", "extend", "put"}
    /\ GiveUp(w, "failed")
    /\ objects' \in {objects} \cup
          {objects \cup {run[v].claim} : v \in {v \in {w} : run[v].pc = "put"}}
    /\ UNCHANGED <<setting, admin, db, writer, bounds>>

\* SeedError::Unavailable: no slot for the collaboration engine.
SeedUnavailable(w) ==
    /\ run[w].pc = IF Postgres THEN "body" ELSE "create"
    /\ source # "native"
    /\ GiveUp(w, "transient")
    /\ UNCHANGED <<setting, admin, db, objects, writer, bounds>>

\* create_import_task_backend answers a shutdown like a lost lease.
TaskCancelled(w) ==
    /\ run[w].pc = "task"
    /\ Leave(w)
    /\ UNCHANGED <<setting, admin, db, objects, writer, bounds>>

\* put_bytes, which no lease stops.
Put(w) ==
    /\ run[w].pc = "put"
    /\ objects' = objects \cup {run[w].claim}
    /\ Goto(w, IF source = "native" THEN "publish" ELSE "mark")
    /\ UNCHANGED <<setting, admin, db, writer, bounds>>

\* The COMMIT is not answered.  An untyped error of PostgreSQL fails the
\* item or only this poll; a typed one, and every one of the family, ends
\* the import loop of this server.
Unanswered(w) ==
    /\ faults < MaxFaults
    /\ Commits(w)
    /\ Effect(w) \/ (run[w].pc \notin {"idle", "undo", "load", "put", "stopped"}
                     /\ UNCHANGED db)
    /\ IF ~Postgres \/ run[w].pc \in {"reserve", "mark", "stage", "publish", "fail"}
       THEN Stop(w)
       ELSE IF run[w].pc \in {"finish", "settle"}
            THEN Leave(w)
            ELSE GiveUp(w, "failed")
    /\ faults' = faults + 1
    /\ UNCHANGED <<setting, admin, objects, writer, stalls>>

ClaimUnanswered(w) ==
    /\ faults < MaxFaults
    /\ run[w].pc = "idle"
    /\ WriterFree
    /\ Claimable
    /\ ClaimRow
    /\ IF Postgres THEN Leave(w) ELSE Stop(w)
    /\ faults' = faults + 1
    /\ UNCHANGED <<setting, admin, rows, atts, announced, journal, objects,
                   writer, stalls>>

-----------------------------------------------------------------------------
(***************************************************************************)
(* Compensation, by a runner or by the sweep.                              *)
(***************************************************************************)

\* Prior leftovers undone: the run starts.  Its own work undone: the job is
\* released or failed.  The sweep is done with the job.
AfterUndo(x, failed) ==
    run' = [run EXCEPT ![x] =
        IF x = Sweeper THEN Idle
        ELSE IF run[x].err # "none"
             THEN [run[x] EXCEPT !.pc = "settle", !.todo = {}, !.failed = failed]
             ELSE IF failed
                  THEN [run[x] EXCEPT !.todo = {}, !.failed = FALSE,
                                      !.err = "incomplete"]
                  ELSE [run[x] EXCEPT !.pc = "reset", !.todo = {}]]

\* The keys that go with the references: the listed ones, and those of the
\* attachment rows that the documents take along.
KeysOf(refs) ==
    {a \in Attempts : Key(a) \in refs \/ (Doc(a) \in refs /\ atts[a] # "none")}

\* Deleting rows takes the attachments of documents along and announces the
\* purge of a document.
Purge(rs) ==
    /\ rows' = rows \ rs
    /\ atts' = [a \in Attempts |-> IF Doc(a) \in rs THEN "none" ELSE atts[a]]
    /\ announced' = announced \ rs

\* purge_imported_task and purge_imported_document, one transaction each:
\* tasks first.
NextRow(x) ==
    {r \in run[x].todo \cap Rows : r[1] = "task" \/ run[x].todo \cap
        {Task(a) : a \in Attempts} = {}}

UndoRow(x) ==
    /\ Postgres
    /\ run[x].pc = "undo"
    /\ \E r \in NextRow(x) :
          /\ Purge({r})
          /\ run' = [run EXCEPT ![x].todo =
                (@ \ {r}) \cup {Key(a) : a \in KeysOf({r})}]
    /\ UNCHANGED <<setting, admin, job, journal, objects, writer, bounds>>

\* The purge fails, or its COMMIT is not answered.
UndoRowFails(x) ==
    /\ faults < MaxFaults
    /\ Postgres
    /\ run[x].pc = "undo"
    /\ \E r \in NextRow(x) :
          /\ Purge({r}) \/ UNCHANGED <<rows, atts, announced>>
          /\ run' = [run EXCEPT ![x].todo = @ \ {r}, ![x].failed = TRUE]
    /\ faults' = faults + 1
    /\ UNCHANGED <<setting, admin, job, journal, objects, writer, stalls>>

\* The objects, when every row is gone.
UndoKeys(x) ==
    /\ Postgres
    /\ run[x].pc = "undo"
    /\ NextRow(x) = {}
    /\ \E kept \in SUBSET KeysOf(run[x].todo) :
          /\ kept # {} => run[x].failed \/ faults < MaxFaults
          /\ run[x].failed => kept = KeysOf(run[x].todo)
          /\ objects' = objects \ (KeysOf(run[x].todo) \ kept)
          /\ faults' = IF kept = {} \/ run[x].failed THEN faults ELSE faults + 1
          /\ AfterUndo(x, run[x].failed \/ kept # {})
    /\ UNCHANGED <<setting, admin, db, writer, stalls>>

\* cleanup_ref_snapshot: the family undoes what the row lists, for the
\* runner that leases it or for the sweep of a failed job.
OwnsCleanup(x) ==
    IF x = Sweeper
    THEN job.status = "failed" /\ run[x].todo = job.refs
    ELSE Held(x) /\ run[x].todo \subseteq job.refs

\* compensate_family_import keeps the writer while it purges the objects.
UndoBegin(x) ==
    /\ ~Postgres
    /\ run[x].pc = "undo"
    /\ WriterFree
    /\ IF OwnsCleanup(x)
       THEN /\ objects' = objects \ KeysOf(run[x].todo)
            /\ writer' = x
            /\ UNCHANGED run
       ELSE /\ AfterUndo(x, TRUE)
            /\ UNCHANGED <<objects, writer>>
    /\ UNCHANGED <<setting, admin, db, bounds>>

\* The objects are looked for again and the owner checked again; the sweep
\* clears the references with the rows.
UndoCommits(x) ==
    /\ OwnsCleanup(x)
    /\ KeysOf(run[x].todo) \cap objects = {}
    /\ Purge(run[x].todo \cap Rows)
    /\ job' = IF x = Sweeper THEN [job EXCEPT !.refs = {}] ELSE job
    /\ UNCHANGED journal

UndoEnd(x) ==
    /\ writer = x
    /\ writer' = None
    /\ \/ UndoCommits(x) /\ AfterUndo(x, FALSE)
       \/ /\ ~OwnsCleanup(x) \/ KeysOf(run[x].todo) \cap objects # {}
          /\ AfterUndo(x, TRUE)
          /\ UNCHANGED db
    /\ UNCHANGED <<setting, admin, objects, bounds>>

\* A purge fails and the transaction rolls back, or its COMMIT is not
\* answered, which ends the loop.
UndoEndFails(x) ==
    /\ faults < MaxFaults
    /\ writer = x
    /\ writer' = None
    /\ \/ AfterUndo(x, TRUE) /\ UNCHANGED db
       \/ x # Sweeper /\ Stop(x) /\ (UndoCommits(x) \/ UNCHANGED db)
    /\ faults' = faults + 1
    /\ UNCHANGED <<setting, admin, objects, stalls>>

-----------------------------------------------------------------------------
(***************************************************************************)
(* The sweep, the cleanup journal, time and crashes.                       *)
(***************************************************************************)

Expired == job.status = "running" /\ job.token # 0 /\ ~job.live

\* claim_expired_import_job of PostgreSQL fails the job and then undoes it.
SweepClaim ==
    /\ Postgres
    /\ run[Sweeper].pc = "idle"
    /\ Expired
    /\ job' = Ended("failed")
    /\ run' = [run EXCEPT ![Sweeper].pc = "undo", ![Sweeper].todo = job.refs]
    /\ UNCHANGED <<setting, admin, rows, atts, announced, journal, objects,
                   writer, bounds>>

\* Variant: only expired jobs are candidates.
SweepPickExpired ==
    /\ ~Postgres
    /\ run[Sweeper].pc = "idle"
    /\ WriterFree
    /\ Expired
    /\ run' = [run EXCEPT ![Sweeper].pc = "prepare", ![Sweeper].todo = job.refs]
    /\ UNCHANGED <<setting, admin, db, objects, writer, bounds>>

\* import_cleanup_candidates: the family also takes up failed jobs whose
\* references are still there.
SweepPick ==
    /\ ~Postgres
    /\ run[Sweeper].pc = "idle"
    /\ WriterFree
    /\ Expired \/ (job.status = "failed" /\ job.refs # {})
    /\ run' = [run EXCEPT ![Sweeper].pc = "prepare", ![Sweeper].todo = job.refs]
    /\ UNCHANGED <<setting, admin, db, objects, writer, bounds>>

\* prepare_import_cleanup looks again.
SweepPrepare ==
    /\ run[Sweeper].pc = "prepare"
    /\ WriterFree
    /\ IF (Expired \/ job.status = "failed") /\ job.refs = run[Sweeper].todo
       THEN job' = Ended("failed") /\ Goto(Sweeper, "undo")
       ELSE Leave(Sweeper) /\ UNCHANGED job
    /\ UNCHANGED <<setting, admin, rows, atts, announced, journal, objects,
                   writer, bounds>>

\* reclaim_attachment_objects: a key is due 20 minutes after it was staged,
\* when the 15 minutes of the lease that staged it have run out.
Drain(a) ==
    /\ a \in journal
    /\ WriterFree
    /\ ~(job.token = a /\ job.live)
    /\ objects' = IF atts[a] = "none" THEN objects \ {a} ELSE objects
    /\ journal' = journal \ {a}
    /\ UNCHANGED <<setting, admin, job, rows, atts, announced, run, writer,
                   bounds>>

\* Some runner still works under the lease.
Worked == \E w \in Runners : /\ run[w].pc \notin {"idle", "stopped"}
                             /\ run[w].claim = job.token

Expire ==
    /\ job.live
    /\ job' = [job EXCEPT !.live = FALSE]
    /\ UNCHANGED <<setting, admin, rows, atts, announced, journal, objects,
                   run, writer, faults>>

AbandonedExpires == ~Worked /\ Expire /\ UNCHANGED stalls

Stall == Worked /\ stalls < MaxStalls /\ Expire /\ stalls' = stalls + 1

\* IMPORT_RETRY_BACKOFF_SECS after a release.
BackoffEnds ==
    /\ ~job.ready
    /\ job' = [job EXCEPT !.ready = TRUE]
    /\ UNCHANGED <<setting, admin, rows, atts, announced, journal, objects,
                   run, writer, bounds>>

\* The creator logs out or stops being an administrator.
Revoke ==
    /\ admin
    /\ admin' = FALSE
    /\ UNCHANGED <<setting, db, objects, run, writer, bounds>>

\* A server dies and comes back; its transaction is rolled back, the put it
\* was making may have reached the storage.
Crash(x) ==
    /\ faults < MaxFaults
    /\ run[x].pc # "idle"
    /\ Leave(x)
    /\ writer' = IF writer = x THEN None ELSE writer
    /\ objects' \in {objects} \cup
          {objects \cup {run[v].claim} : v \in {v \in {x} : run[v].pc = "put"}}
    /\ faults' = faults + 1
    /\ UNCHANGED <<setting, admin, db, stalls>>

\* What an import loop does by itself, faults aside.
Runs(w) ==
    \/ Claim(w) \/ Load(w) \/ Write(w) \/ Fence(w) \/ Refuse(w) \/ ItemFails(w)
    \/ SeedUnavailable(w) \/ TaskCancelled(w) \/ Put(w)

Undoes(x) == UndoRow(x) \/ UndoKeys(x) \/ UndoBegin(x) \/ UndoEnd(x)

Sweeps == SweepClaim \/ SweepPick \/ SweepPrepare \/ Undoes(Sweeper)

Next ==
    \/ Submit \/ Sweeps \/ AbandonedExpires \/ Stall \/ BackoffEnds \/ Revoke
    \/ \E w \in Runners : Runs(w) \/ Undoes(w) \/ Unanswered(w) \/ ClaimUnanswered(w)
    \/ \E x \in Actors : UndoRowFails(x) \/ UndoEndFails(x) \/ Crash(x)
    \/ \E a \in Attempts : Drain(a)

Spec == Init /\ [][Next]_vars

\* Loops poll, the sweep runs daily, the journal is drained, time passes.
Fairness ==
    /\ \A w \in Runners : WF_vars(Runs(w) \/ Undoes(w))
    /\ WF_vars(Sweeps)
    /\ WF_vars(AbandonedExpires)
    /\ WF_vars(BackoffEnds)
    /\ \A a \in Attempts : WF_vars(Drain(a))

FairSpec == Spec /\ Fairness

-----------------------------------------------------------------------------
(***************************************************************************)
(* Properties.                                                             *)
(***************************************************************************)

\* "created_refs is the write-ahead list of rows the run created": whatever
\* an attempt left behind is listed in the row, or in the cleanup journal,
\* unless the attempt completed the job; an object escapes only when its
\* put outlived the lease of its run.
Journaled ==
    LET won(a) == job.status = "completed" /\ a = job.attempts IN
    /\ \A r \in rows : r \in job.refs \/ won(r[2])
    /\ stalls = 0 =>
          \A a \in objects : Key(a) \in job.refs \/ a \in journal \/ won(a)

\* A completed job has exactly the rows of the attempt that completed it,
\* with the attachment and its object: no compensation, late or repeated,
\* of any runner or of the sweep takes part of it, and no earlier attempt
\* left a second copy.
CompletedIsWhole ==
    job.status = "completed" =>
        LET a == job.attempts IN
        /\ rows = {Doc(a)} \cup (IF source = "office" THEN {} ELSE {Task(a)})
        /\ source # "office" => atts[a] = "stored" /\ a \in objects

\* Consumers never see an event of a row that is not there, except together
\* with its purge; those of a Notion or native run appear with the
\* completed job, all of them.
EventsAreTrue ==
    /\ announced \subseteq rows
    /\ job.status = "completed" => announced = rows
    /\ source # "office" /\ job.status # "completed" => announced = {}

\* A submitted job ends, whatever dies, is lost or is late, as long as an
\* import loop is left.
JobEnds ==
    (job.status = "running") ~>
        \/ job.status \in {"completed", "failed"}
        \/ \A w \in Runners : run[w].pc = "stopped"

\* A failed job leaves nothing behind.  PostgreSQL promises it only without
\* a fault: its sweep takes up running jobs, never one that already failed.
FailedIsUndone ==
    (job.status = "failed") ~>
        \/ rows = {} /\ (objects = {} \/ stalls > 0)
        \/ Postgres /\ faults > 0

-----------------------------------------------------------------------------
(***************************************************************************)
(* Why they hold: the inductive invariant.                                 *)
(***************************************************************************)

\* The run is at work; its claim is the one the row leases; the attempt
\* completed the job.
Busy(w) == run[w].pc \notin {"idle", "stopped"}
Owns(w) == job.status = "running" /\ job.token = run[w].claim
Won(a) == job.status = "completed" /\ a = job.attempts

\* The references of one attempt, and those of attempts up to n.
Of(a) == {Doc(a), Task(a), Key(a)}
UpTo(n) == {r \in Refs : r[2] <= n}

\* Nothing is left; an object may escape when a lease was outlived.
Clean == rows = {} /\ (stalls = 0 => objects = {})

\* The lease is the last attempt's; what the row lists is of some attempt,
\* and only rows that it lists are parked.
RowSane ==
    /\ job.token \in {0, job.attempts}
    /\ job.status # "running" => job.token = 0 /\ job.parked = {}
    /\ job.refs \subseteq UpTo(job.attempts)
    /\ job.parked \subseteq job.refs
    /\ source # "notion" => job.parked = {}
    /\ source # "native" => journal = {}
    /\ source = "native" => \A a \in Attempts : atts[a] # "none" => Won(a)
    /\ source = "native" /\ job.status # "completed" => rows = {}
    /\ source = "native" /\ stalls = 0 =>
          \A a \in objects : a \in journal \/ Won(a)

\* No two runs at work hold the same claim.
Distinct ==
    \A v, w \in Runners : Busy(v) /\ Busy(w) /\ run[v].claim = run[w].claim => v = w

\* The steps that the run of each source goes through.
Undoing == {"undo", "reset", "settle"}
Office == Undoing \cup {"load", "extend", "create", "body", "finish"}
Notion == Undoing \cup {"load", "create", "body", "reserve", "put", "mark",
                        "task", "finish"}
Native == {"load", "extend", "stage", "put", "publish", "fail"}

OnPath(w) ==
    /\ source = "office" => /\ run[w].pc \in Office
                            /\ Task(run[w].claim) \notin run[w].created
    /\ source = "notion" => run[w].pc \in Notion
    /\ source = "native" => run[w].pc \in Native /\ run[w].created = {}

\* A run has an attempt of its own, undoes nothing of a later one, and does
\* not outlive the completion of its own.
RunSane(w) ==
    /\ run[w].pc # "prepare"
    /\ run[w].pc = "idle" => run[w] = Idle
    /\ Busy(w) =>
          /\ run[w].claim \in 1..job.attempts
          /\ ~Won(run[w].claim)
          /\ run[w].created \subseteq Of(run[w].claim)
          /\ run[w].todo \subseteq UpTo(run[w].claim)
          /\ OnPath(w)
          /\ stalls = 0 => Owns(w) /\ job.live
    /\ run[w].pc = "undo" => Postgres \/ ~run[w].failed

Working == {"load", "extend", "create", "body", "reserve", "put", "mark",
            "task", "finish", "stage", "publish"}

\* What the run that owns the job has done, and what it knows of it.
Progress(w) ==
    LET a == run[w].claim
        pc == run[w].pc
        stored == pc = "task" \/ (pc = "finish" /\ source = "notion")
    IN  /\ pc \in Working => rows \subseteq run[w].created /\ job.parked \subseteq rows
        /\ /\ pc \in {"reset", "load", "extend", "create", "body"}
           /\ source # "native" /\ stalls = 0
           => objects = {}
        /\ pc = "reset" => Clean
        /\ pc = "undo" /\ run[w].err \in {"none", "transient"} /\ ~run[w].failed =>
              /\ rows \subseteq run[w].todo
              /\ stalls = 0 => \A o \in objects : Key(o) \in run[w].todo
        /\ pc = "settle" /\ run[w].err = "transient" /\ ~run[w].failed => Clean
        /\ source # "native" /\ pc \in {"body", "reserve", "put", "mark", "task", "finish"} =>
              /\ Doc(a) \in rows
              /\ source = "notion" => Doc(a) \in job.parked
              /\ source = "office" => Doc(a) \in announced
        /\ pc \in {"put", "mark", "publish"} \/ stored => Key(a) \in job.refs
        /\ stored => atts[a] = "stored" /\ a \in objects
        /\ stored /\ pc = "finish" => Task(a) \in rows /\ Task(a) \in job.parked
        /\ pc = "publish" /\ a \in journal => a \in objects
        /\ source = "native" /\ stalls = 0 /\ pc \in {"put", "publish"} => a \in journal

\* The sweep undoes only jobs that failed; the family's writer is held by
\* who undoes.
SweepSane ==
    /\ run[Sweeper].pc \in {"idle", "undo", "prepare"}
    /\ run[Sweeper].pc = "undo" => job.status = "failed"
    /\ writer # None => run[writer].pc = "undo" /\ ~Postgres

\* The inductive invariant: the row is that of the last attempt, every run
\* at work has an attempt of its own, at most one owns the job and has
\* listed what it did, and the sweep undoes only what failed.
IInv ==
    /\ TypeOK
    /\ RowSane
    /\ \A w \in Runners : RunSane(w)
    /\ Distinct
    /\ \A w \in Runners : Busy(w) /\ Owns(w) => Progress(w)
    /\ SweepSane
    /\ Journaled
    /\ CompletedIsWhole
    /\ EventsAreTrue
=============================================================================
