--------------------------- MODULE OutboxExternal ---------------------------
(***************************************************************************)
(* Outbox delivery in mode External (mail, search, GitHub): the effect     *)
(* reaches outside the database, then the event is marked, then the lease  *)
(* is renewed, then the cursor passes the delivered prefix, then the       *)
(* failure rows go.                                                        *)
(***************************************************************************)
EXTENDS OutboxDispatcher

CONSTANT ChunkCap   \* external_deliver_chunk_len: events per deliver_batch

ASSUME ExternalAssumption == ChunkCap \in Nat \ {0}

VARIABLE effected   \* events whose outside effect has happened

externalVars == <<vars, effected>>

TypeOK ==
    /\ LogTypeOK
    /\ LedgerTypeOK
    /\ DispatcherTypeOK
    /\ effected \subseteq Event

Init == LogInit /\ LedgerInit /\ DispatcherInit /\ effected = {}

-----------------------------------------------------------------------------
(* deliver_retry.                                                          *)

RetrySeesMark(o) ==
    /\ w[o].pc = "retryDeliver"
    /\ w[o].cur \in marks
    /\ w' = [w EXCEPT ![o].pc = "retryClear"]
    /\ UNCHANGED <<logVars, ledgerVars, faults, requeues, effected>>

RetryDelivers(o) ==
    /\ w[o].pc = "retryDeliver"
    /\ w[o].cur \notin marks
    /\ w' = [w EXCEPT ![o].pc = "retryMark"]
    /\ effected' = effected \cup {w[o].cur}
    /\ UNCHANGED <<logVars, ledgerVars, faults, requeues>>

\* Variant: the error is swallowed and the event marked.
RetryFailureMarked(o) ==
    /\ w[o].pc = "retryDeliver"
    /\ w[o].cur \notin marks
    /\ w' = [w EXCEPT ![o].pc = "retryMark"]
    /\ effected' \in {effected, effected \cup {w[o].cur}}
    /\ UNCHANGED <<logVars, ledgerVars, faults, requeues>>

\* The call reports an error; its effect may have happened all the same.
RetryFails(o) ==
    /\ w[o].pc = "retryDeliver"
    /\ w[o].cur \notin marks
    /\ w' = [w EXCEPT ![o].pc = "record"]
    /\ effected' \in {effected, effected \cup {w[o].cur}}
    /\ UNCHANGED <<logVars, ledgerVars, faults, requeues>>

RetryMarks(o) ==
    /\ w[o].pc = "retryMark"
    /\ MarkProcessed(w[o].cur)
    /\ w' = [w EXCEPT ![o].pc = "retryClear"]
    /\ UNCHANGED <<logVars, cursor, lease, fail, everDead, faults, requeues, effected>>

\* Unlike anywhere else, a database error here is a failed delivery: while
\* looking for the mark, and while writing it, with the answer lost or not.
RetryLookupFails(o) ==
    /\ w[o].pc = "retryDeliver"
    /\ Fault
    /\ w' = [w EXCEPT ![o].pc = "record"]
    /\ UNCHANGED <<logVars, ledgerVars, requeues, effected>>

RetryMarkFails(o) ==
    /\ w[o].pc = "retryMark"
    /\ Fault
    /\ MarkProcessed(w[o].cur) \/ UNCHANGED <<marks, everMarked>>
    /\ w' = [w EXCEPT ![o].pc = "record"]
    /\ UNCHANGED <<logVars, cursor, lease, fail, everDead, requeues, effected>>

RetryClears(o) ==
    /\ w[o].pc = "retryClear"
    /\ ClearFailure(w[o].cur)
    /\ Resume(o)
    /\ UNCHANGED <<logVars, cursor, lease, marks, everMarked, everDead, faults,
                   requeues, effected>>

-----------------------------------------------------------------------------
(* process_external_events: sort the batch into what to deliver now.       *)

ToChunks(o, P) ==
    w' = [w EXCEPT ![o].pc = "chunk", ![o].batch = {}, ![o].pending = P]

\* Variant: an event in backoff is set aside instead of ending the scan.
ScanPassesBackoff(o) ==
    /\ w[o].pc = "scan"
    /\ \E e \in w[o].batch :
          /\ IsLeast(e, w[o].batch)
          /\ w' = IF fail[e].attempts > 0 /\ ~fail[e].due
                  THEN [w EXCEPT ![o].batch = @ \ {e}]
                  ELSE [w EXCEPT ![o].pc = "scanMark", ![o].cur = e,
                                 ![o].hadRow = fail[e].attempts > 0]
    /\ UNCHANGED <<logVars, ledgerVars, faults, requeues, effected>>

\* fetch_failure_state of the next event of the batch.
ScanFailure(o) ==
    /\ w[o].pc = "scan"
    /\ \E e \in w[o].batch :
          /\ IsLeast(e, w[o].batch)
          /\ IF fail[e].dead
             THEN IF w[o].pending # {}
                  THEN ToChunks(o, w[o].pending)
                  ELSE w' = [w EXCEPT ![o].pc = "skip", ![o].cur = e]
             ELSE IF fail[e].attempts > 0 /\ ~fail[e].due
             THEN ToChunks(o, w[o].pending)
             ELSE w' = [w EXCEPT ![o].pc = "scanMark", ![o].cur = e,
                                 ![o].hadRow = fail[e].attempts > 0]
    /\ UNCHANGED <<logVars, ledgerVars, faults, requeues, effected>>

ScanEnds(o) ==
    /\ w[o].pc = "scan"
    /\ w[o].batch = {}
    /\ ToChunks(o, w[o].pending)
    /\ UNCHANGED <<logVars, ledgerVars, faults, requeues, effected>>

\* is_processed.  An event that failed before is delivered on its own.
ScanMark(o) ==
    /\ w[o].pc = "scanMark"
    /\ IF w[o].cur \in marks
       THEN IF w[o].pending # {}
            THEN ToChunks(o, w[o].pending)
            ELSE w' = [w EXCEPT ![o].pc = "pass"]
       ELSE IF w[o].hadRow
       THEN ToChunks(o, IF w[o].pending = {} THEN {w[o].cur} ELSE w[o].pending)
       ELSE w' = [w EXCEPT ![o].pc = "scan",
                           ![o].batch = @ \ {w[o].cur},
                           ![o].pending = @ \cup {w[o].cur}]
    /\ UNCHANGED <<logVars, ledgerVars, faults, requeues, effected>>

\* Variant: a marked event is left to the next chunk's advance.
DropMarked(o) ==
    /\ w[o].pc = "pass"
    /\ w' = [w EXCEPT ![o].pc = "scan", ![o].batch = @ \ {w[o].cur}]
    /\ UNCHANGED <<logVars, ledgerVars, faults, requeues, effected>>

PassMarked(o) ==
    /\ w[o].pc = "pass"
    /\ Advance(Holds(o), w[o].cur)
    /\ w' = IF Accepted(Holds(o), w[o].cur)
            THEN [w EXCEPT ![o].pc = "scan", ![o].batch = @ \ {w[o].cur}]
            ELSE [w EXCEPT ![o] = Idle]
    /\ UNCHANGED <<logVars, lease, marks, everMarked, everDead, faults, requeues,
                   effected>>

-----------------------------------------------------------------------------
(* deliver_external_pending and deliver_external_chunk.                    *)

ChunksEnd(o) ==
    /\ w[o].pc = "chunk"
    /\ w[o].pending = {} \/ ~CanLease(o)
    /\ w' = [w EXCEPT ![o] = Idle]
    /\ UNCHANGED <<logVars, ledgerVars, faults, requeues, effected>>

ChunkLease(o) ==
    /\ w[o].pc = "chunk"
    /\ w[o].pending # {}
    /\ Lease(o)
    /\ w' = [w EXCEPT ![o].pc = "deliver"]
    /\ UNCHANGED <<logVars, cursor, fail, marks, everMarked, everDead, faults,
                   requeues, effected>>

\* The call delivers the prefix s of chunk c and reports the prefix d of it
\* as done, with an error if er.  Only with an error, which is also what a
\* dropped call amounts to, do effects go beyond d.  A call that reports
\* nothing, not even an error, is outside the trait's contract: a fault.
DeliversChunk(o, c, d, s, er) ==
    /\ IsLimited(c, w[o].pending, ChunkCap)
    /\ IsPrefix(d, c) /\ IsPrefix(s, c) /\ d \subseteq s
    /\ ~er => s = d
    /\ IF d = {} /\ ~er THEN Fault ELSE UNCHANGED faults
    /\ effected' = effected \cup s
    /\ w' = [w EXCEPT ![o].pc = "mark", ![o].chunk = c, ![o].done = d,
                      ![o].left = d, ![o].err = er]

\* deliver_batch under the lease timeout.
DeliverBatch(o) ==
    /\ w[o].pc = "deliver"
    /\ \E c \in SUBSET w[o].pending : \E d, s \in SUBSET c, er \in BOOLEAN :
          DeliversChunk(o, c, d, s, er)
    /\ UNCHANGED <<logVars, ledgerVars, requeues>>

\* Marks need no lease.
MarkDone(o) ==
    /\ w[o].pc = "mark"
    /\ \E e \in w[o].left :
          /\ IsLeast(e, w[o].left)
          /\ MarkProcessed(e)
          /\ w' = [w EXCEPT ![o].left = @ \ {e}]
    /\ UNCHANGED <<logVars, cursor, lease, fail, everDead, faults, requeues, effected>>

\* The error of the call is charged to the first event that is not done.
ChargeError(o) ==
    IF w[o].chunk \ w[o].done = {}
    THEN w' = [w EXCEPT ![o] = Idle]
    ELSE \E e \in w[o].chunk \ w[o].done :
            /\ IsLeast(e, w[o].chunk \ w[o].done)
            /\ w' = [w EXCEPT ![o].pc = "record", ![o].cur = e]

RenewAfterMarks(o) ==
    /\ w[o].pc = "mark"
    /\ w[o].left = {}
    /\ Lease(o)
    /\ IF w[o].done # {} THEN w' = [w EXCEPT ![o].pc = "advance"]
       ELSE IF w[o].err THEN ChargeError(o)
       ELSE w' = [w EXCEPT ![o] = Idle]
    /\ UNCHANGED <<logVars, cursor, fail, marks, everMarked, everDead, faults,
                   requeues, effected>>

LostAfterMarks(o) ==
    /\ w[o].pc = "mark"
    /\ w[o].left = {}
    /\ ~CanLease(o)
    /\ w' = [w EXCEPT ![o] = Idle]
    /\ UNCHANGED <<logVars, ledgerVars, faults, requeues, effected>>

\* Variant: the cursor passes the chunk, not its delivered prefix.
AdvanceChunk(o) ==
    /\ w[o].pc = "advance"
    /\ \E e \in w[o].chunk :
          /\ IsLast(e, w[o].chunk)
          /\ Advance(Holds(o), e)
          /\ w' = [w EXCEPT ![o].pc = "clear", ![o].left = w[o].done]
    /\ UNCHANGED <<logVars, lease, marks, everMarked, everDead, faults, requeues,
                   effected>>

AdvanceDone(o) ==
    /\ w[o].pc = "advance"
    /\ \E e \in w[o].done :
          /\ IsLast(e, w[o].done)
          /\ Advance(Holds(o), e)
          /\ w' = IF Accepted(Holds(o), e)
                  THEN [w EXCEPT ![o].pc = "clear", ![o].left = w[o].done]
                  ELSE [w EXCEPT ![o] = Idle]
    /\ UNCHANGED <<logVars, lease, marks, everMarked, everDead, faults, requeues,
                   effected>>

ClearDone(o) ==
    /\ w[o].pc = "clear"
    /\ \E e \in w[o].left :
          /\ IsLeast(e, w[o].left)
          /\ ClearFailure(e)
          /\ w' = [w EXCEPT ![o].left = @ \ {e}]
    /\ UNCHANGED <<logVars, cursor, lease, marks, everMarked, everDead, faults,
                   requeues, effected>>

\* Without an error the rest follows in the next chunk, unless the budget of
\* this turn has run out.
ChunkDone(o) ==
    /\ w[o].pc = "clear"
    /\ w[o].left = {}
    /\ IF w[o].err
       THEN ChargeError(o)
       ELSE \/ w' = [w EXCEPT ![o].pc = "chunk", ![o].pending = @ \ w[o].done,
                              ![o].chunk = {}, ![o].done = {}]
            \/ w' = [w EXCEPT ![o] = Idle]
    /\ UNCHANGED <<logVars, ledgerVars, faults, requeues, effected>>

-----------------------------------------------------------------------------

Retry(o) ==
    \/ NextRetry(o, "retryDeliver") /\ UNCHANGED effected
    \/ RetrySeesMark(o) \/ RetryDelivers(o) \/ RetryFails(o)
    \/ RetryMarks(o) \/ RetryLookupFails(o) \/ RetryMarkFails(o) \/ RetryClears(o)

Scan(o) == ScanFailure(o) \/ ScanEnds(o) \/ ScanMark(o) \/ PassMarked(o)

Deliver(o) ==
    \/ ChunksEnd(o) \/ ChunkLease(o) \/ DeliverBatch(o)
    \/ MarkDone(o) \/ RenewAfterMarks(o) \/ LostAfterMarks(o)
    \/ AdvanceDone(o) \/ ClearDone(o) \/ ChunkDone(o)

Next ==
    \/ Environment /\ UNCHANGED effected
    \/ \E o \in Owners :
          \/ (Lifecycle(o) \/ Cycle(o)) /\ UNCHANGED effected
          \/ Retry(o) \/ Scan(o) \/ Deliver(o)

Spec == Init /\ [][Next]_externalVars

\* A live process keeps going, a server that is down is started again, the
\* lease of a dead owner runs out, backoffs elapse and transactions end.
Progress(o) ==
    \/ (Start(o) \/ Cycle(o)) /\ UNCHANGED effected
    \/ Retry(o) \/ Scan(o) \/ Deliver(o)

Fairness ==
    /\ \A o \in Owners : WF_externalVars(Progress(o))
    /\ WF_externalVars(LeaseExpires /\ UNCHANGED <<faults, effected>>)
    /\ \A e \in Event :
          WF_externalVars(BackoffElapses(e) /\ UNCHANGED <<logVars, dispatcherVars, effected>>)
    /\ \A x \in 1..MaxXid :
          WF_externalVars(/\ x \in running
                          /\ CommitTx(x) \/ AbortTx(x)
                          /\ UNCHANGED <<ledgerVars, dispatcherVars, effected>>)

FairSpec == Spec /\ Fairness

-----------------------------------------------------------------------------
(* Properties.                                                             *)

\* mod.rs: "The cursor passes an event the consumer has not reported done
\* only as a dead letter."
CursorPassesOnlyResolved ==
    \A e \in log : e \preceq cursor => e \in everMarked \cup everDead

\* At least once: an event that was passed and never dead-lettered has had
\* its effect, whatever crashed, timed out or was reported in between.
AtLeastOnce ==
    \A e \in log : e \preceq cursor /\ e \notin everDead => e \in effected

\* A transaction that commits late never lands behind the cursor, where the
\* relay would not look again.
NoCommitBehindCursor ==
    [][\A e \in log' \ log : cursor \prec e]_externalVars

\* Effects come in (xact, seq) order: when the effect of an event happens,
\* every earlier event has had its own, or was dead-lettered.
EffectsInOrder ==
    [][\A e \in effected' \ effected : \A f \in log :
          f \prec e => f \in effected' \cup everDead]_externalVars

\* 04_events.sql, app_outbox_requeue: a dead row "is skipped on the next pass
\* and can be requeued after that".  Every dead letter the cursor has passed
\* carries skipped_at, without which no requeue accepts it.
DeadLettersRequeueable ==
    \A e \in log :
        e \preceq cursor /\ fail[e].dead /\ e \notin everMarked => fail[e].skipped

\* mod.rs: after app_outbox_requeue a dead letter "is retried".  Until it is
\* delivered its failure row, the only trace of it, stays.
RequeuedIsRetried ==
    \A e \in log :
        e \preceq cursor /\ e \notin everMarked => fail[e].attempts > 0

\* Once faults stop, the relay reaches every committed event: none stays
\* behind a failing one, an expired lease or a slow transaction for ever.
EveryEventPassed == \A e \in Event : e \in log ~> e \preceq cursor

\* A requeued dead letter is not forgotten: its row goes or is dead again.
RequeueSettles ==
    \A e \in Event : (fail[e].skipped /\ ~fail[e].dead)
                      ~> (fail[e].attempts = 0 \/ fail[e].dead)

-----------------------------------------------------------------------------
(* The inductive invariant behind CursorPassesOnlyResolved, AtLeastOnce    *)
(* and NoCommitBehindCursor.                                               *)

DeliveryOK(l) ==
    /\ \A e \in l.pending : CoveredBefore(e, l.pending)
    /\ l.chunk \subseteq l.pending
    /\ \A e \in l.chunk : CoveredBefore(e, l.chunk)
    /\ IsPrefix(l.done, l.chunk)
    /\ l.left \subseteq l.done
    /\ l.done \subseteq effected
    /\ l.pc = "mark" => l.done \ l.left \subseteq everMarked
    /\ l.pc \in {"advance", "clear"} => l.done \subseteq everMarked
    /\ l.pc \in {"scanMark", "pass"} => IsLeast(l.cur, l.batch)
    /\ l.pc = "pass" => l.pending = {} /\ l.cur \in everMarked
    /\ l.pc \in {"retryDeliver", "retryMark", "retryClear"} => l.cur \in l.retries
    /\ l.pc = "retryMark" => l.cur \in effected

\* What every process holds is covered by what is resolved, and a mark is
\* never ahead of the effect it stands for.
IInv ==
    /\ TypeOK
    /\ LedgerOK
    /\ everMarked \subseteq effected
    /\ \A o \in Owners : CycleOK(w[o]) /\ DeliveryOK(w[o])

=============================================================================
