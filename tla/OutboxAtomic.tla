---------------------------- MODULE OutboxAtomic ----------------------------
(***************************************************************************)
(* Outbox delivery in mode DatabaseAtomic (notifications, webhook fan-out, *)
(* push): one transaction writes the processed mark, applies the effect if *)
(* the mark is new, and advances the cursor; a rejected advance rolls all  *)
(* of it back.                                                             *)
(***************************************************************************)
EXTENDS OutboxDispatcher

VARIABLES
    applied,    \* how often the effect of each event was committed
    late        \* history: events ahead of the cursor that were dead-lettered
                \* by a process that had lost the lease

atomicVars == <<vars, applied, late>>

TypeOK ==
    /\ LogTypeOK
    /\ LedgerTypeOK
    /\ DispatcherTypeOK
    /\ applied \in [Event -> Nat]
    /\ late \subseteq Event

Init ==
    /\ LogInit /\ LedgerInit /\ DispatcherInit
    /\ applied = [e \in Event |-> 0]
    /\ late = {}

-----------------------------------------------------------------------------
(* The loop over the batch.                                                *)

ScanEnds(o) ==
    /\ w[o].pc = "scan"
    /\ w[o].batch = {} \/ ~CanLease(o)
    /\ w' = [w EXCEPT ![o] = Idle]
    /\ UNCHANGED <<logVars, ledgerVars, faults, requeues, applied>>

\* The lease is renewed before each event.
ScanLease(o) ==
    /\ w[o].pc = "scan"
    /\ Lease(o)
    /\ \E e \in w[o].batch :
          /\ IsLeast(e, w[o].batch)
          /\ w' = [w EXCEPT ![o].pc = "check", ![o].cur = e]
    /\ UNCHANGED <<logVars, cursor, fail, marks, everMarked, everDead, faults,
                   requeues, applied>>

\* Variant: an event in backoff is skipped like a dead letter.
CheckSkipsBackoff(o) ==
    /\ w[o].pc = "check"
    /\ w' = IF fail[w[o].cur].attempts > 0 /\ ~fail[w[o].cur].due
            THEN [w EXCEPT ![o].pc = "skip"]
            ELSE [w EXCEPT ![o].pc = "begin"]
    /\ UNCHANGED <<logVars, ledgerVars, faults, requeues, applied>>

CheckFailure(o) ==
    /\ w[o].pc = "check"
    /\ w' = IF fail[w[o].cur].dead
            THEN [w EXCEPT ![o].pc = "skip"]
            ELSE IF fail[w[o].cur].attempts > 0 /\ ~fail[w[o].cur].due
            THEN [w EXCEPT ![o] = Idle]
            ELSE [w EXCEPT ![o].pc = "begin"]
    /\ UNCHANGED <<logVars, ledgerVars, faults, requeues, applied>>

-----------------------------------------------------------------------------
(* deliver_backend.  now() is the start of the transaction, so that is     *)
(* when the lease has to be live; the owner is compared in the row itself, *)
(* which the advance locks.                                                *)

BeginDelivery(o) ==
    /\ w[o].pc = "begin"
    /\ w' = [w EXCEPT ![o].pc = "commit", ![o].held = Holds(o)]
    /\ UNCHANGED <<logVars, ledgerVars, faults, requeues, applied>>

\* Variant: the advance does not compare the owner.
HeldByAnybody(o) == w[o].held

HeldAtBegin(o) == lease.owner = o /\ w[o].held

\* Variant: a rejected advance does not roll back.
CommitRegardless(o) ==
    LET e == w[o].cur IN
    /\ w[o].pc = "commit"
    /\ MarkProcessed(e)
    /\ applied' = IF e \in marks THEN applied ELSE [applied EXCEPT ![e] = @ + 1]
    /\ Advance(HeldAtBegin(o), e)
    /\ w' = [w EXCEPT ![o].pc = "settle", ![o].held = FALSE]
    /\ UNCHANGED <<logVars, lease, everDead, faults, requeues>>

\* The answer to the commit may be lost: then the delivery counts as failed.
CommitDelivery(o) ==
    LET e == w[o].cur IN
    /\ w[o].pc = "commit"
    /\ Accepted(HeldAtBegin(o), e)
    /\ MarkProcessed(e)
    /\ applied' = IF e \in marks THEN applied ELSE [applied EXCEPT ![e] = @ + 1]
    /\ Advance(HeldAtBegin(o), e)
    /\ \E answer \in {"settle", "record"} :
          w' = [w EXCEPT ![o].pc = answer, ![o].held = FALSE]
    /\ UNCHANGED <<logVars, lease, everDead, faults, requeues>>

\* The effect fails, or the advance is rejected: all is rolled back.
RollbackDelivery(o) ==
    /\ w[o].pc = "commit"
    /\ w' = [w EXCEPT ![o].pc = "record", ![o].held = FALSE]
    /\ UNCHANGED <<logVars, ledgerVars, faults, requeues, applied>>

ClearDelivered(o) ==
    /\ w[o].pc = "settle"
    /\ ClearFailure(w[o].cur)
    /\ IF w[o].retries = {}
       THEN w' = [w EXCEPT ![o].pc = "scan", ![o].batch = @ \ {w[o].cur}]
       ELSE Resume(o)
    /\ UNCHANGED <<logVars, cursor, lease, marks, everMarked, everDead, faults,
                   requeues, applied>>

-----------------------------------------------------------------------------

Deliver(o) ==
    \/ ScanEnds(o) \/ ScanLease(o) \/ CheckFailure(o)
    \/ BeginDelivery(o) \/ CommitDelivery(o) \/ RollbackDelivery(o)
    \/ ClearDelivered(o)

\* What this step of o dead-letters although the lease is no longer its own.
LateBurials(o) ==
    {e \in Event : /\ lease.owner # o
                   /\ cursor \prec e
                   /\ ~fail[e].dead
                   /\ fail'[e].dead}

Next ==
    \/ Environment /\ UNCHANGED <<applied, late>>
    \/ \E o \in Owners :
          \/ /\ Lifecycle(o) \/ NextRetry(o, "begin")
             /\ UNCHANGED <<applied, late>>
          \/ /\ Cycle(o)
             /\ late' = late \cup LateBurials(o)
             /\ UNCHANGED applied
          \/ Deliver(o) /\ UNCHANGED late

Spec == Init /\ [][Next]_atomicVars

-----------------------------------------------------------------------------
(* Properties.                                                             *)

\* mod.rs: "a PgOnly effect is applied once": never twice, even after the
\* mark was collected or a dead letter was requeued.  It holds where a failure
\* is recorded under the writer lock.
NeverTwice == \A e \in Event : applied[e] <= 1

\* On PostgreSQL there is one way to apply an effect twice: a process that lost
\* the lease between the lease check and the upsert of a failure dead-letters
\* the event that its successor is delivering.  Whatever else happens to the
\* lease, the marks and the failure rows, the effect is applied once.
AppliedAtMostOnce == \A e \in Event : e \notin late => applied[e] <= 1

\* ... and not zero times: an event the cursor has passed was applied unless
\* it was dead-lettered.
PassedIsApplied ==
    \A e \in log : e \preceq cursor /\ e \notin everDead => applied[e] = 1

\* The effect and the cursor move together: no crash leaves an effect applied
\* that the cursor would have the next owner apply again.
AppliedIsPassed == \A e \in Event : applied[e] > 0 => e \preceq cursor

-----------------------------------------------------------------------------
(* The inductive invariant behind the three properties.                    *)

\* The event at hand has nothing open before it.
AttemptOK(l) ==
    /\ l.pending = {}
    /\ l.pc \in {"check", "begin", "commit", "settle"} =>
          l.cur \in log /\ Settled(l.cur.xact) /\ CoveredBefore(l.cur, {})
    /\ l.pc = "check" => IsLeast(l.cur, l.batch)
    /\ l.pc = "settle" => l.cur \in everMarked

\* As long as the lease has not changed hands since the event was found
\* alive, only a late burial can make it a dead letter.
AliveOK(o) ==
    /\ w[o].pc \in {"begin", "commit"}
    /\ lease.owner = o
    /\ cursor \prec w[o].cur
    => ~fail[w[o].cur].dead \/ w[o].cur \in late

\* The mark, the effect and the cursor agree on every event, and a dead letter
\* that can be requeued has not had its effect unless it was buried late.
AgreementOK ==
    \A e \in Event :
        /\ e \notin late => applied[e] <= 1
        /\ applied[e] > 0 => e \preceq cursor
        /\ e \in everMarked => applied[e] > 0
        /\ fail[e].skipped => e \preceq cursor /\ (applied[e] = 0 \/ e \in late)

\* Late burials are dead letters, and the single writer has none.
LateOK ==
    /\ late \subseteq everDead
    /\ SingleWriter => late = {} /\ \A o \in Owners : w[o].pc \notin {"look", "upsert"}

IInv ==
    /\ TypeOK
    /\ LedgerOK
    /\ AgreementOK
    /\ LateOK
    /\ \A o \in Owners : CycleOK(w[o]) /\ AttemptOK(w[o]) /\ AliveOK(o)

=============================================================================
