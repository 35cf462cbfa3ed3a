-------------------------- MODULE OutboxDispatcher --------------------------
(***************************************************************************)
(* The part of the outbox dispatcher that both delivery modes share: the   *)
(* process and its lease, the read, the sweep over requeued dead letters   *)
(* and the handling of a failed delivery.  OutboxExternal and OutboxAtomic *)
(* add the delivery itself.                                                *)
(*                                                                         *)
(* Several dispatcher processes may serve the same consumer.  One database *)
(* call is one step; everything a process does with the answer before its  *)
(* next call belongs to that step.  The local state of process o is w[o].  *)
(***************************************************************************)
EXTENDS OutboxLedger

CONSTANTS
    BatchLimit,     \* OutboxDispatcherSettings::batch_limit
    MaxFaults,      \* bound: crashes, shutdowns, stalls and database errors
    MaxRequeues     \* bound: calls of app_outbox_requeue

ASSUME DispatcherAssumption ==
    /\ BatchLimit \in Nat \ {0}
    /\ MaxFaults \in Nat
    /\ MaxRequeues \in Nat

VARIABLES
    w,          \* local state of each dispatcher process
    faults,     \* faults that have happened
    requeues    \* requeue calls that have happened

dispatcherVars == <<w, faults, requeues>>

vars == <<logVars, ledgerVars, dispatcherVars>>

PCs == {"gone", "idle", "read", "claim", "retry", "record", "look", "upsert",
        "bury", "scan", "skip", "retryDeliver", "retryMark", "retryClear",
        "scanMark", "pass", "chunk", "deliver", "mark", "advance", "clear",
        "check", "begin", "commit", "settle"}

Local == [pc      : PCs,
          batch   : SUBSET Event,  \* events read and not yet looked at
          retries : SUBSET Event,  \* claimed retries not yet resolved
          cur     : Event \cup {Origin},    \* the event at hand
          hadRow  : BOOLEAN,       \* a failure row was read for cur
          pending : SUBSET Event,  \* External: events to deliver
          chunk   : SUBSET Event,  \* External: events of this deliver_batch
          done    : SUBSET Event,  \* External: those it reported done
          left    : SUBSET Event,  \* External: those still to mark or clear
          err     : BOOLEAN,       \* External: deliver_batch returned an error
          held    : BOOLEAN]       \* Atomic: lease live at transaction start

Idle == [pc |-> "idle", batch |-> {}, retries |-> {}, cur |-> Origin,
         hadRow |-> FALSE, pending |-> {}, chunk |-> {}, done |-> {},
         left |-> {}, err |-> FALSE, held |-> FALSE]

Gone == [Idle EXCEPT !.pc = "gone"]

DispatcherTypeOK ==
    /\ w \in [Owners -> Local]
    /\ faults \in 0..MaxFaults
    /\ requeues \in 0..MaxRequeues

DispatcherInit ==
    /\ w = [o \in Owners |-> Gone]
    /\ faults = 0
    /\ requeues = 0

Fault == faults < MaxFaults /\ faults' = faults + 1

-----------------------------------------------------------------------------
(* Life of a process.                                                      *)

\* spawn_outbox_dispatcher: the owner uuid is fresh, so not the lease's.
Start(o) ==
    /\ w[o].pc = "gone"
    /\ lease.owner # o
    /\ w' = [w EXCEPT ![o] = Idle]
    /\ UNCHANGED <<logVars, ledgerVars, faults, requeues>>

\* The process dies between two database calls, keeping its lease.
Crash(o) ==
    /\ w[o].pc # "gone"
    /\ Fault
    /\ w' = [w EXCEPT ![o] = Gone]
    /\ UNCHANGED <<logVars, ledgerVars, requeues>>

\* Cancellation is looked at between cycles, after the first lease, before
\* every retry, every event and every chunk; the lease is then released.
Shutdown(o) ==
    /\ w[o].pc \in {"idle", "read", "retry", "scan", "chunk"}
    /\ Fault
    /\ Release(o)
    /\ w' = [w EXCEPT ![o] = Gone]
    /\ UNCHANGED <<logVars, cursor, fail, marks, everMarked, everDead, requeues>>

\* A database call fails and ends the cycle (the `?' operator).  Inside a
\* delivery there is no such call: an error there is a failed delivery.
Abandon(o) ==
    /\ w[o].pc \notin {"gone", "idle", "retryDeliver", "retryMark", "deliver",
                       "begin", "commit"}
    /\ Fault
    /\ w' = [w EXCEPT ![o] = Idle]
    /\ UNCHANGED <<logVars, ledgerVars, requeues>>

\* A lease runs out: always after its owner is gone, and as a fault while
\* the owner is alive and slow.
LeaseExpires ==
    /\ lease.owner # NoOwner
    /\ lease.live
    /\ lease' = [lease EXCEPT !.live = FALSE]
    /\ \/ /\ w[lease.owner].pc = "gone"
          /\ UNCHANGED faults
       \/ /\ w[lease.owner].pc # "gone"
          /\ Fault
    /\ UNCHANGED <<logVars, cursor, fail, marks, everMarked, everDead, w, requeues>>

-----------------------------------------------------------------------------
(* process_consumer_cycle up to the deliveries.                            *)

TakeLease(o) ==
    /\ w[o].pc = "idle"
    /\ Lease(o)
    /\ w' = [w EXCEPT ![o].pc = "read"]
    /\ UNCHANGED <<logVars, cursor, fail, marks, everMarked, everDead, faults, requeues>>

ReadEvents(o) ==
    /\ w[o].pc = "read"
    /\ \E B \in SUBSET Readable :
          /\ IsLimited(B, Readable, BatchLimit)
          /\ w' = [w EXCEPT ![o].pc = "claim", ![o].batch = B]
    /\ UNCHANGED <<logVars, ledgerVars, faults, requeues>>

\* Ordered by next_attempt_at and event id: any order of positions.
ClaimRetries(o) ==
    /\ w[o].pc = "claim"
    /\ \E R \in SUBSET Retriable :
          /\ Cardinality(R) <= BatchLimit
          /\ R = Retriable \/ Cardinality(R) = BatchLimit
          /\ w' = [w EXCEPT ![o].retries = R,
                            ![o].pc = IF R = {} THEN "scan" ELSE "retry"]
    /\ UNCHANGED <<logVars, ledgerVars, faults, requeues>>

\* process_retries renews the lease before each retry; `label' is where the
\* delivery of the mode starts.
NextRetry(o, label) ==
    /\ w[o].pc = "retry"
    /\ Lease(o)
    /\ \E e \in w[o].retries :
          w' = [w EXCEPT ![o].pc = label, ![o].cur = e]
    /\ UNCHANGED <<logVars, cursor, fail, marks, everMarked, everDead, faults, requeues>>

\* Without the lease the sweep ends, but the cycle goes on to the batch.
RetriesLoseLease(o) ==
    /\ w[o].pc = "retry"
    /\ ~CanLease(o)
    /\ w' = [w EXCEPT ![o].pc = "scan", ![o].retries = {}]
    /\ UNCHANGED <<logVars, ledgerVars, faults, requeues>>

-----------------------------------------------------------------------------
(* handle_failure.  A failed retry goes on with the next one, or with the  *)
(* batch after the last; any other failed delivery ends the cycle.         *)

Resume(o) ==
    w' = [w EXCEPT ![o] =
            IF w[o].retries = {} THEN Idle
            ELSE [w[o] EXCEPT !.retries = w[o].retries \ {w[o].cur},
                              !.pc = IF w[o].retries = {w[o].cur}
                                     THEN "scan" ELSE "retry"]]

\* After so many attempts the letter is dead.
Recorded(o, attempts) ==
    IF attempts >= MaxAttempts
    THEN w' = [w EXCEPT ![o].pc = "bury"]
    ELSE Resume(o)

\* The whole procedure with nothing in between: all there is in the SQLite
\* family, which records under its writer lock, and the lucky case of
\* PostgreSQL.
RecordAtOnce(o) ==
    /\ w[o].pc = "record"
    /\ RecordFailure(o, w[o].cur)
    /\ Recorded(o, RecordedAttempts(o, w[o].cur))
    /\ UNCHANGED <<logVars, cursor, lease, marks, everMarked, faults, requeues>>

\* PostgreSQL runs three statements under READ COMMITTED that lock nothing:
\* the lease, the row and the cursor may have changed when the upsert comes.
RecordChecksLease(o) ==
    /\ ~SingleWriter
    /\ w[o].pc = "record"
    /\ IF Holds(o) THEN w' = [w EXCEPT ![o].pc = "look"] ELSE Resume(o)
    /\ UNCHANGED <<logVars, ledgerVars, faults, requeues>>

RecordLooks(o) ==
    /\ w[o].pc = "look"
    /\ IF Recordable(w[o].cur)
       THEN w' = [w EXCEPT ![o].pc = "upsert"]
       ELSE Recorded(o, fail[w[o].cur].attempts)
    /\ UNCHANGED <<logVars, ledgerVars, faults, requeues>>

RecordUpserts(o) ==
    /\ w[o].pc = "upsert"
    /\ Upsert(w[o].cur)
    /\ Recorded(o, fail[w[o].cur].attempts + 1)
    /\ UNCHANGED <<logVars, cursor, lease, marks, everMarked, faults, requeues>>

HandleFailure(o) ==
    RecordAtOnce(o) \/ RecordChecksLease(o) \/ RecordLooks(o) \/ RecordUpserts(o)

\* The cursor passes the dead letter; a rejected advance is ignored.
BuryDeadLetter(o) ==
    /\ w[o].pc = "bury"
    /\ Advance(Holds(o), w[o].cur)
    /\ Resume(o)
    /\ UNCHANGED <<logVars, lease, marks, everMarked, everDead, faults, requeues>>

\* A dead row found in the batch: pass it, ignoring a rejected advance.
SkipDeadLetter(o) ==
    /\ w[o].pc = "skip"
    /\ Advance(Holds(o), w[o].cur)
    /\ w' = [w EXCEPT ![o].pc = "scan", ![o].batch = @ \ {w[o].cur}]
    /\ UNCHANGED <<logVars, lease, marks, everMarked, everDead, faults, requeues>>

-----------------------------------------------------------------------------
(* Writers, operators and the passing of time.                             *)

Writers ==
    /\ \/ BeginTx
       \/ \E x \in running : InsertEvent(x) \/ CommitTx(x) \/ AbortTx(x)
    /\ UNCHANGED <<ledgerVars, dispatcherVars>>

OperatorRequeues ==
    /\ requeues < MaxRequeues
    /\ requeues' = requeues + 1
    /\ \E e \in log : Requeue(e)
    /\ UNCHANGED <<logVars, w, faults>>

Maintenance ==
    /\ \E e \in log : BackoffElapses(e) \/ GcProcessed(e)
    /\ UNCHANGED <<logVars, dispatcherVars>>

Environment == Writers \/ OperatorRequeues \/ Maintenance \/ LeaseExpires

Lifecycle(o) == Start(o) \/ Crash(o) \/ Shutdown(o) \/ Abandon(o)

Cycle(o) ==
    \/ TakeLease(o) \/ ReadEvents(o) \/ ClaimRetries(o) \/ RetriesLoseLease(o)
    \/ HandleFailure(o) \/ BuryDeadLetter(o) \/ SkipDeadLetter(o)

-----------------------------------------------------------------------------
(* The part of the inductive invariants of both modes that concerns the    *)
(* ledger and what every process still holds from its last reads.          *)

\* Reported done by the consumer, or dead-lettered.
Resolved == everMarked \cup everDead

\* Every committed event before e is resolved or in S.
CoveredBefore(e, S) == \A f \in log : f \prec e => f \in Resolved \cup S

LedgerOK ==
    /\ Settled(cursor.xact)
    /\ \A e \in log : e \preceq cursor => e \in Resolved
    /\ marks \subseteq everMarked
    /\ \A e \in Event : fail[e].dead => e \in everDead

\* A process may hold what it read long ago, while others moved on: it stays
\* true that nothing unresolved lies between the cursor and its batch.
CycleOK(l) ==
    /\ \A e \in l.batch \cup l.pending : e \in log /\ Settled(e.xact)
    /\ \A e \in l.batch : CoveredBefore(e, l.batch \cup l.pending)
    /\ \A e \in l.retries : e \in log /\ e \preceq cursor
    /\ l.pc \in {"record", "look", "upsert", "bury"} =>
          l.cur \in log /\ Settled(l.cur.xact) /\ CoveredBefore(l.cur, {})
    /\ l.pc \in {"bury", "skip"} => l.cur \in everDead
    /\ l.pc = "skip" => IsLeast(l.cur, l.batch) /\ l.pending = {}

=============================================================================
