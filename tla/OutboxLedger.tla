---------------------------- MODULE OutboxLedger ----------------------------
(***************************************************************************)
(* The relay ledger of one outbox consumer: its row of outbox_consumers    *)
(* (cursor and lease), its rows of outbox_failures and of                  *)
(* processed_events, and the stored procedures that change them.  A        *)
(* procedure that locks what it decides by, or that is one statement, is   *)
(* one operator.  app_outbox_record_failure is neither: its lease check,   *)
(* its look at the row and its upsert are operators of their own, put      *)
(* together by RecordFailure where the writer lock makes them one.         *)
(*                                                                         *)
(* Clocks are abstracted: a lease is live until the environment lets it    *)
(* expire, and a failure row is due once its backoff has elapsed.          *)
(***************************************************************************)
EXTENDS EventLog, FiniteSets

CONSTANTS
    Owners,         \* lease owners: one uuid per dispatcher process
    NoOwner,        \* lease_owner IS NULL
    MaxAttempts     \* OutboxConsumer::max_attempts

ASSUME LedgerAssumption ==
    /\ NoOwner \notin Owners
    /\ MaxAttempts \in Nat \ {0}

VARIABLES
    cursor,     \* (last_xact, last_seq)
    lease,      \* (lease_owner, lease_until > now())
    fail,       \* outbox_failures; attempts = 0 stands for no row
    marks,      \* processed_events
    everMarked, \* history: events that ever were marked as processed
    everDead    \* history: events that ever were dead-lettered

ledgerVars == <<cursor, lease, fail, marks, everMarked, everDead>>

Row == [attempts : Nat, due : BOOLEAN, dead : BOOLEAN, skipped : BOOLEAN]
NoRow == [attempts |-> 0, due |-> FALSE, dead |-> FALSE, skipped |-> FALSE]
FreeLease == [owner |-> NoOwner, live |-> FALSE]

LedgerTypeOK ==
    /\ cursor \in Event \cup {Origin}
    /\ lease \in [owner : Owners \cup {NoOwner}, live : BOOLEAN]
    /\ fail \in [Event -> Row]
    /\ marks \subseteq Event
    /\ everMarked \subseteq Event
    /\ everDead \subseteq Event

\* ensure_consumer: the first lease inserts the row at (0, 0), unleased.
LedgerInit ==
    /\ cursor = Origin
    /\ lease = FreeLease
    /\ fail = [e \in Event |-> NoRow]
    /\ marks = {}
    /\ everMarked = {}
    /\ everDead = {}

-----------------------------------------------------------------------------
(* The least element and the initial segments of a set of events.          *)

IsLeast(e, S) == e \in S /\ \A f \in S : e \preceq f
IsLast(e, S) == e \in S /\ \A f \in S : f \preceq e
IsPrefix(P, S) == P \subseteq S /\ \A e \in P, f \in S : f \preceq e => f \in P

\* The result of ORDER BY xact, seq LIMIT n.
IsLimited(P, S, n) ==
    IsPrefix(P, S) /\ Cardinality(P) <= n /\ (P = S \/ Cardinality(P) = n)

-----------------------------------------------------------------------------
(* Lease.                                                                  *)

CanLease(o) == lease.owner = NoOwner \/ ~lease.live \/ lease.owner = o

Lease(o) ==
    /\ CanLease(o)
    /\ lease' = [owner |-> o, live |-> TRUE]

Release(o) ==
    lease' = IF lease.owner = o THEN FreeLease ELSE lease

\* lease_owner = p_owner AND lease_until > now()
Holds(o) == lease.owner = o /\ lease.live

-----------------------------------------------------------------------------
(* Reading.  app_outbox_read needs no lease.                               *)

Readable == {e \in log : cursor \prec e /\ Visible(e.xact)}

\* Variant: a requeued event right at the cursor is overlooked.
RetriableBelowCursor ==
    {e \in log : fail[e].skipped /\ ~fail[e].dead /\ fail[e].due /\ e \prec cursor}

Retriable ==
    {e \in log : /\ fail[e].attempts > 0
                 /\ ~fail[e].dead
                 /\ fail[e].skipped
                 /\ fail[e].due
                 /\ e \preceq cursor}

-----------------------------------------------------------------------------
(* app_outbox_advance.  `held' is the procedure's lease condition: the     *)
(* caller owns the lease and it is live when the transaction starts.       *)

KnownEvent(e) == e \in log /\ Visible(e.xact)

\* Variant: any event below the cursor is accepted as a retry.
ResolvesAnyPassed(held, e) == held /\ KnownEvent(e) /\ e \preceq cursor

\* A retry at or below the cursor: only a requeued dead letter is accepted.
ResolvesRequeue(held, e) ==
    held /\ KnownEvent(e) /\ e \preceq cursor /\ fail[e].skipped /\ ~fail[e].dead

MovesCursor(held, e) ==
    held /\ KnownEvent(e) /\ Visible(cursor.xact) /\ cursor \prec e

Accepted(held, e) == ResolvesRequeue(held, e) \/ MovesCursor(held, e)

Advance(held, e) ==
    /\ cursor' = IF MovesCursor(held, e) THEN e ELSE cursor
    /\ fail' = IF ResolvesRequeue(held, e)
               THEN [fail EXCEPT ![e] = NoRow]
               ELSE IF MovesCursor(held, e) /\ fail[e].dead
               THEN [fail EXCEPT ![e].skipped = TRUE]
               ELSE fail

-----------------------------------------------------------------------------
(* Failures and marks.                                                     *)

\* A live failure is never created for an event the cursor has passed, as far
\* as the row and the cursor were when they were looked at.
Recordable(e) == ~fail[e].dead /\ (fail[e].attempts > 0 \/ cursor \prec e)

\* Variant: the row dies one attempt after the dispatcher gives up.
NextRowDiesLate(row) ==
    [attempts |-> row.attempts + 1, due |-> FALSE,
     dead |-> row.attempts + 1 > MaxAttempts, skipped |-> row.skipped]

NextRow(row) ==
    [attempts |-> row.attempts + 1,
     due      |-> FALSE,
     dead     |-> row.attempts + 1 >= MaxAttempts,
     skipped  |-> row.skipped]

\* The upsert itself asks nothing: it counts on whatever row it finds.
Upsert(e) ==
    /\ fail' = [fail EXCEPT ![e] = NextRow(fail[e])]
    /\ everDead' = IF NextRow(fail[e]).dead THEN everDead \cup {e} ELSE everDead

Records(o, e) == Holds(o) /\ Recordable(e)

\* The whole procedure, with nothing between its statements.
RecordFailure(o, e) ==
    IF Records(o, e) THEN Upsert(e) ELSE UNCHANGED <<fail, everDead>>

\* What it returns.
RecordedAttempts(o, e) ==
    IF Records(o, e) THEN fail[e].attempts + 1
    ELSE IF Holds(o) THEN fail[e].attempts
    ELSE 0

ClearFailure(e) == fail' = [fail EXCEPT ![e] = NoRow]

MarkProcessed(e) ==
    /\ marks' = marks \cup {e}
    /\ everMarked' = everMarked \cup {e}

-----------------------------------------------------------------------------
(* Operations that no dispatcher runs.                                     *)

\* app_outbox_requeue, called by an operator: only a skipped row.
Requeue(e) ==
    /\ fail[e].skipped
    /\ fail' = [fail EXCEPT ![e] = [@ EXCEPT !.attempts = 1,
                                             !.dead = FALSE,
                                             !.due = TRUE]]
    /\ UNCHANGED <<cursor, lease, marks, everMarked, everDead>>

\* next_attempt_at is reached (it is never looked at in a dead row).
BackoffElapses(e) ==
    /\ fail[e].attempts > 0
    /\ ~fail[e].due
    /\ ~fail[e].dead
    /\ fail' = [fail EXCEPT ![e].due = TRUE]
    /\ UNCHANGED <<cursor, lease, marks, everMarked, everDead>>

\* app_outbox_gc_processed: a mark older than the window and below the newest
\* marked event.  A mark may be of any age, so any such mark may go.
GcProcessed(e) ==
    /\ e \in marks
    /\ \E f \in marks : e \prec f
    /\ marks' = marks \ {e}
    /\ UNCHANGED <<cursor, lease, fail, everMarked, everDead>>

=============================================================================
