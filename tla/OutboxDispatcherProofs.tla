----------------------- MODULE OutboxDispatcherProofs -----------------------
(* Facts about the ledger and the shared part of the dispatcher, used by   *)
(* the proofs of both delivery modes.                                      *)
EXTENDS OutboxDispatcher, TLAPS

-----------------------------------------------------------------------------
(* The order of positions.                                                 *)

\* Positions are determined by their two fields.
LEMMA PositionEq ==
    \A a, b \in Event \cup {Origin} :
        a.xact = b.xact /\ a.seq = b.seq => a = b
BY DEF Event, Origin

\* Comparing rows (xact, seq) is a total order: what is not at or below a
\* position is above it, and what is at or below it is before it or equal.
LEMMA PositionOrder ==
    ASSUME NEW a \in Event \cup {Origin}, NEW b \in Event \cup {Origin}
    PROVE  /\ a \preceq b <=> (a = b \/ a \prec b)
           /\ a \prec b <=> ~(b \preceq a)
<1>1. a.xact \in Int /\ a.seq \in Int /\ b.xact \in Int /\ b.seq \in Int
  BY EventLogAssumption DEF Event, Origin
<1>2. QED
  BY <1>1, PositionEq DEF \prec, \preceq

\* Comparing rows is transitive.
LEMMA PositionTrans ==
    ASSUME NEW a \in Event \cup {Origin}, NEW b \in Event \cup {Origin},
           NEW c \in Event \cup {Origin}
    PROVE  /\ a \preceq b /\ b \preceq c => a \preceq c
           /\ a \preceq b /\ b \prec c => a \prec c
           /\ a \prec b /\ b \preceq c => a \prec c
<1>1. /\ a.xact \in Int /\ a.seq \in Int /\ b.xact \in Int
      /\ b.seq \in Int /\ c.xact \in Int /\ c.seq \in Int
  BY EventLogAssumption DEF Event, Origin
<1>2. QED
  BY <1>1 DEF \prec, \preceq

\* xmin is a lower bound: what is before a settled position is settled.
LEMMA SettledBelow ==
    ASSUME LogTypeOK,
           NEW a \in Event \cup {Origin}, NEW b \in Event \cup {Origin},
           a \preceq b, Settled(b.xact)
    PROVE  Settled(a.xact)
<1>1. a.xact \in Int /\ b.xact \in Int /\ a.xact <= b.xact
  BY EventLogAssumption DEF Event, Origin, \preceq
<1>2. nextXid \in Int /\ running \subseteq Int
  BY EventLogAssumption DEF LogTypeOK
<1>3. QED
  BY <1>1, <1>2 DEF Settled

\* One writer at a time settles what is committed just as well as xmin does:
\* the transaction in progress has the highest id.
LEMMA VisibleSettled ==
    ASSUME LogTypeOK, NEW e \in log, Visible(e.xact)
    PROVE  Settled(e.xact)
<1>1. nextXid \in Int /\ running \subseteq Int
  BY EventLogAssumption DEF LogTypeOK
<1>2. e.xact \in Int /\ e.xact < nextXid /\ e.xact \notin running
  BY EventLogAssumption DEF LogTypeOK, Event
<1>3. CASE SingleWriter
  <2>1. \A r \in running : nextXid = r + 1
    BY <1>3 DEF LogTypeOK
  <2>2. QED
    BY <1>1, <1>2, <2>1 DEF Settled
<1>4. QED
  BY <1>3 DEF Visible

-----------------------------------------------------------------------------
(* What every step of the system may only add to.                          *)

Grows ==
    /\ log \subseteq log'
    /\ \A x \in Nat : Settled(x) => Settled(x)'
    /\ \A e \in log' \ log : ~Settled(e.xact)
    /\ everMarked \subseteq everMarked'
    /\ everDead \subseteq everDead'
    /\ cursor \preceq cursor'

\* What lies before a settled event stays covered: a later commit has a
\* transaction id that was not settled, so it comes after the event.
LEMMA CoveredStable ==
    ASSUME LogTypeOK, LogTypeOK', Grows,
           NEW e \in log, NEW S, Settled(e.xact), CoveredBefore(e, S)
    PROVE  CoveredBefore(e, S)'
<1>1. SUFFICES ASSUME NEW f \in log', f \prec e
               PROVE  f \in Resolved' \cup S
  BY DEF CoveredBefore
<1>2. e \in Event /\ f \in Event
  BY DEF LogTypeOK
<1>3. Settled(f.xact)
  BY <1>1, <1>2, PositionOrder, SettledBelow
<1>4. f \in log
  BY <1>3 DEF Grows
<1>5. QED
  BY <1>1, <1>4 DEF CoveredBefore, Resolved, Grows

\* What a process holds stays true while it does not move itself.
LEMMA CycleStable ==
    ASSUME LogTypeOK, LogTypeOK', LedgerTypeOK, LedgerTypeOK', Grows,
           NEW l \in Local, CycleOK(l)
    PROVE  CycleOK(l)'
<1>1. \A e \in log : e \in Event /\ e.xact \in Nat /\ e \in log'
  BY DEF LogTypeOK, Event, Grows
<1>2. \A e \in l.batch \cup l.pending : e \in log' /\ Settled(e.xact)'
  BY <1>1 DEF CycleOK, Grows
<1>3. \A e \in l.batch : CoveredBefore(e, l.batch \cup l.pending)'
  BY CoveredStable DEF CycleOK
<1>4. \A e \in l.retries : e \in log' /\ e \preceq cursor'
  <2>1. TAKE e \in l.retries
  <2>2. e \in log /\ e \in Event /\ e \preceq cursor
    BY <1>1 DEF CycleOK
  <2>3. cursor \in Event \cup {Origin} /\ cursor' \in Event \cup {Origin}
    BY DEF LedgerTypeOK
  <2>4. QED
    BY <1>1, <2>2, <2>3, PositionTrans DEF Grows
<1>5. l.pc \in {"record", "look", "upsert", "bury"} =>
        l.cur \in log' /\ Settled(l.cur.xact)' /\ CoveredBefore(l.cur, {})'
  BY <1>1, CoveredStable DEF CycleOK, Grows
<1>6. l.pc \in {"bury", "skip"} => l.cur \in everDead'
  BY DEF CycleOK, Grows
<1>7. l.pc = "skip" => IsLeast(l.cur, l.batch)' /\ l.pending = {}
  BY DEF CycleOK, IsLeast
<1>8. QED
  BY <1>2, <1>3, <1>4, <1>5, <1>6, <1>7 DEF CycleOK

-----------------------------------------------------------------------------
(* Type correctness of the shared steps.                                   *)

SharedTypeOK == LogTypeOK /\ LedgerTypeOK /\ DispatcherTypeOK

\* A process that gives up its cycle, or its life, has a local state.
LEMMA IdleGone == Idle \in Local /\ Gone \in Local
BY DEF Idle, Gone, Local, PCs

\* The writers keep ids below nextXid and stage only for running ones.
LEMMA WritersType ==
    ASSUME LogTypeOK,
           BeginTx \/ \E x \in running : InsertEvent(x) \/ CommitTx(x) \/ AbortTx(x)
    PROVE  LogTypeOK'
<1>1. nextXid \in Int /\ nextSeq \in Int /\ MaxXid \in Int /\ MaxSeq \in Int
  BY EventLogAssumption DEF LogTypeOK
<1>2. CASE BeginTx
  BY <1>1, <1>2 DEF LogTypeOK, BeginTx, Event
<1>3. ASSUME NEW x \in running, InsertEvent(x) PROVE LogTypeOK'
  BY <1>1, <1>3 DEF LogTypeOK, InsertEvent, Event
<1>4. ASSUME NEW x \in running, CommitTx(x) PROVE LogTypeOK'
  BY <1>1, <1>4 DEF LogTypeOK, CommitTx, Event
<1>5. ASSUME NEW x \in running, AbortTx(x) PROVE LogTypeOK'
  BY <1>1, <1>5 DEF LogTypeOK, AbortTx, Event
<1>6. QED
  BY <1>2, <1>3, <1>4, <1>5

\* Requeueing, the passing of time and the collection of marks.
LEMMA EnvironmentType ==
    ASSUME SharedTypeOK, Environment
    PROVE  SharedTypeOK'
<1>1. CASE Writers
  BY <1>1, WritersType
     DEF Writers, SharedTypeOK, LedgerTypeOK, DispatcherTypeOK, ledgerVars, dispatcherVars
<1>2. CASE OperatorRequeues
  <2>1. requeues' \in 0..MaxRequeues
    BY <1>2, DispatcherAssumption DEF OperatorRequeues, SharedTypeOK, DispatcherTypeOK
  <2>2. PICK e \in log : Requeue(e)
    BY <1>2 DEF OperatorRequeues
  <2>3. fail' \in [Event -> Row]
    BY <2>2 DEF Requeue, SharedTypeOK, LedgerTypeOK, Row
  <2>4. QED
    BY <1>2, <2>1, <2>2, <2>3
       DEF OperatorRequeues, Requeue, SharedTypeOK, LogTypeOK, LedgerTypeOK,
           DispatcherTypeOK, logVars
<1>3. CASE Maintenance
  <2>1. ASSUME NEW e \in log, BackoffElapses(e) PROVE LedgerTypeOK'
    BY <2>1 DEF BackoffElapses, SharedTypeOK, LedgerTypeOK, Row
  <2>2. ASSUME NEW e \in log, GcProcessed(e) PROVE LedgerTypeOK'
    BY <2>2 DEF GcProcessed, SharedTypeOK, LedgerTypeOK
  <2>3. QED
    BY <1>3, <2>1, <2>2
       DEF Maintenance, SharedTypeOK, LogTypeOK, DispatcherTypeOK, logVars, dispatcherVars
<1>4. CASE LeaseExpires
  <2>1. faults' \in 0..MaxFaults
    BY <1>4, DispatcherAssumption DEF LeaseExpires, Fault, SharedTypeOK, DispatcherTypeOK
  <2>2. lease' \in [owner : Owners \cup {NoOwner}, live : BOOLEAN]
    BY <1>4 DEF LeaseExpires, SharedTypeOK, LedgerTypeOK
  <2>3. QED
    BY <1>4, <2>1, <2>2
       DEF LeaseExpires, SharedTypeOK, LogTypeOK, LedgerTypeOK, DispatcherTypeOK, logVars
<1>5. QED
  BY <1>1, <1>2, <1>3, <1>4 DEF Environment

\* The advance keeps the cursor a position and the failure rows rows.
LEMMA AdvanceType ==
    ASSUME LedgerTypeOK, NEW held \in BOOLEAN, NEW e \in Event, Advance(held, e)
    PROVE  cursor' \in Event \cup {Origin} /\ fail' \in [Event -> Row]
BY DEF Advance, LedgerTypeOK, Row, NoRow

\* The lease condition of an advance is TRUE or FALSE.
LEMMA HeldAdvance ==
    ASSUME NEW o \in Owners, NEW e, Advance(Holds(o), e)
    PROVE  \E held \in BOOLEAN : Advance(held, e)
<1>1. CASE Holds(o)
  <2>1. Advance(TRUE, e)
    BY <1>1 DEF Advance, ResolvesRequeue, MovesCursor
  <2>2. QED
    BY <2>1
<1>2. CASE ~Holds(o)
  <2>1. Advance(FALSE, e)
    BY <1>2 DEF Advance, ResolvesRequeue, MovesCursor
  <2>2. QED
    BY <2>1
<1>3. QED
  BY <1>1, <1>2

\* Moving on after a retry or a failure keeps the local state a local state.
LEMMA ResumeType ==
    ASSUME w \in [Owners -> Local], NEW o \in Owners, Resume(o)
    PROVE  w' \in [Owners -> Local]
<1>1. w[o] \in Local
  OBVIOUS
<1>2. [w[o] EXCEPT !.retries = w[o].retries \ {w[o].cur},
                   !.pc = IF w[o].retries = {w[o].cur} THEN "scan" ELSE "retry"] \in Local
  BY <1>1 DEF Local, PCs
<1>3. QED
  BY <1>2, IdleGone DEF Resume

\* The life of a process.
LEMMA LifecycleType ==
    ASSUME SharedTypeOK, NEW o \in Owners, Lifecycle(o)
    PROVE  SharedTypeOK'
<1>1. w' \in [Owners -> Local]
  BY IdleGone DEF Lifecycle, Start, Crash, Shutdown, Abandon, SharedTypeOK, DispatcherTypeOK
<1>2. faults' \in 0..MaxFaults /\ requeues' \in 0..MaxRequeues
  BY DispatcherAssumption
     DEF Lifecycle, Start, Crash, Shutdown, Abandon, Fault, SharedTypeOK, DispatcherTypeOK
<1>3. LedgerTypeOK'
  <2>1. lease' = lease \/ lease' = FreeLease
    BY DEF Lifecycle, Start, Crash, Shutdown, Abandon, Release, ledgerVars
  <2>2. lease' \in [owner : Owners \cup {NoOwner}, live : BOOLEAN]
    <3>1. FreeLease \in [owner : Owners \cup {NoOwner}, live : BOOLEAN]
      BY DEF FreeLease
    <3>2. lease \in [owner : Owners \cup {NoOwner}, live : BOOLEAN]
      BY DEF SharedTypeOK, LedgerTypeOK
    <3>3. QED
      BY <2>1, <3>1, <3>2, Zenon
  <2>3. UNCHANGED <<cursor, fail, marks, everMarked, everDead>>
    BY DEF Lifecycle, Start, Crash, Shutdown, Abandon, ledgerVars
  <2>4. QED
    BY <2>2, <2>3 DEF SharedTypeOK, LedgerTypeOK
<1>4. UNCHANGED logVars
  BY DEF Lifecycle, Start, Crash, Shutdown, Abandon
<1>5. QED
  BY <1>1, <1>2, <1>3, <1>4 DEF SharedTypeOK, DispatcherTypeOK, LogTypeOK, logVars

\* Taking the lease.
LEMMA LeaseType ==
    ASSUME NEW o \in Owners, Lease(o)
    PROVE  lease' \in [owner : Owners \cup {NoOwner}, live : BOOLEAN]
BY DEF Lease

\* The steps of a cycle that both modes share.
LEMMA CycleType ==
    ASSUME SharedTypeOK, NEW o \in Owners, Cycle(o),
           w[o].pc \in {"record", "look", "upsert", "bury", "skip"} => w[o].cur \in Event
    PROVE  SharedTypeOK'
<1> USE DEF SharedTypeOK, DispatcherTypeOK
<1>1. w[o] \in Local /\ w[o].batch \subseteq Event
  BY DEF Local
<1>2. CASE TakeLease(o)
  <2>1. w' \in [Owners -> Local]
    BY <1>1, <1>2 DEF TakeLease, Local, PCs
  <2>2. QED
    BY <1>2, <2>1, LeaseType DEF TakeLease, LogTypeOK, LedgerTypeOK, logVars
<1>3. CASE ReadEvents(o)
  <2>1. PICK B \in SUBSET Readable : w' = [w EXCEPT ![o].pc = "claim", ![o].batch = B]
    BY <1>3 DEF ReadEvents
  <2>2. B \subseteq Event
    BY DEF Readable, LogTypeOK
  <2>3. w' \in [Owners -> Local]
    BY <1>1, <2>1, <2>2 DEF Local, PCs
  <2>4. QED
    BY <1>3, <2>3 DEF ReadEvents, LogTypeOK, LedgerTypeOK, logVars, ledgerVars
<1>4. CASE ClaimRetries(o)
  <2>1. PICK R \in SUBSET Retriable :
            w' = [w EXCEPT ![o].retries = R,
                           ![o].pc = IF R = {} THEN "scan" ELSE "retry"]
    BY <1>4 DEF ClaimRetries
  <2>2. R \subseteq Event
    BY DEF Retriable, LogTypeOK
  <2>3. w' \in [Owners -> Local]
    BY <1>1, <2>1, <2>2 DEF Local, PCs
  <2>4. QED
    BY <1>4, <2>3 DEF ClaimRetries, LogTypeOK, LedgerTypeOK, logVars, ledgerVars
<1>5. CASE RetriesLoseLease(o)
  <2>1. w' \in [Owners -> Local]
    BY <1>1, <1>5 DEF RetriesLoseLease, Local, PCs
  <2>2. QED
    BY <1>5, <2>1 DEF RetriesLoseLease, LogTypeOK, LedgerTypeOK, logVars, ledgerVars
<1>6. CASE HandleFailure(o)
  <2> USE DEF RecordAtOnce, RecordChecksLease, RecordLooks, RecordUpserts
  <2>1. w[o].cur \in Event
    BY <1>6 DEF HandleFailure
  <2>2. w' \in [Owners -> Local]
    BY <1>1, <1>6, ResumeType DEF HandleFailure, Recorded, Local, PCs
  <2>3. NextRow(fail[w[o].cur]) \in Row
    BY <2>1, LedgerAssumption DEF NextRow, LedgerTypeOK, Row
  <2>4. \/ Upsert(w[o].cur)
        \/ fail' = fail /\ everDead' = everDead
    BY <1>6 DEF HandleFailure, RecordFailure, ledgerVars
  <2>5. fail' \in [Event -> Row] /\ everDead' \subseteq Event
    BY <2>1, <2>3, <2>4 DEF Upsert, LedgerTypeOK
  <2>6. UNCHANGED <<logVars, cursor, lease, marks, everMarked, faults, requeues>>
    BY <1>6 DEF HandleFailure, ledgerVars
  <2>7. QED
    BY <2>2, <2>5, <2>6 DEF LogTypeOK, LedgerTypeOK, logVars
<1>7. CASE BuryDeadLetter(o)
  <2>1. w[o].cur \in Event
    BY <1>7 DEF BuryDeadLetter
  <2>2. w' \in [Owners -> Local]
    BY <1>7, ResumeType DEF BuryDeadLetter
  <2>3. cursor' \in Event \cup {Origin} /\ fail' \in [Event -> Row]
    BY <1>7, <2>1, HeldAdvance, AdvanceType DEF BuryDeadLetter
  <2>4. QED
    BY <1>7, <2>2, <2>3 DEF BuryDeadLetter, LogTypeOK, LedgerTypeOK, logVars
<1>8. CASE SkipDeadLetter(o)
  <2>1. w[o].cur \in Event
    BY <1>8 DEF SkipDeadLetter
  <2>2. w' \in [Owners -> Local]
    BY <1>1, <1>8 DEF SkipDeadLetter, Local, PCs
  <2>3. cursor' \in Event \cup {Origin} /\ fail' \in [Event -> Row]
    BY <1>8, <2>1, HeldAdvance, AdvanceType DEF SkipDeadLetter
  <2>4. QED
    BY <1>8, <2>2, <2>3 DEF SkipDeadLetter, LogTypeOK, LedgerTypeOK, logVars
<1>9. QED
  BY <1>2, <1>3, <1>4, <1>5, <1>6, <1>7, <1>8 DEF Cycle

-----------------------------------------------------------------------------
(* Growth, and the ledger's part of the invariant.                         *)

\* A step that leaves the log alone grows if its histories and cursor do.
LEMMA GrowsQuietly ==
    ASSUME LedgerTypeOK, UNCHANGED logVars,
           everMarked \subseteq everMarked', everDead \subseteq everDead',
           cursor' = cursor \/ cursor \prec cursor', LedgerTypeOK'
    PROVE  Grows
<1>1. cursor \in Event \cup {Origin} /\ cursor' \in Event \cup {Origin}
  BY DEF LedgerTypeOK
<1>2. cursor \preceq cursor'
  BY <1>1, PositionOrder
<1>3. QED
  BY <1>2 DEF Grows, Settled, logVars

\* Writers only add to the log, behind ids that were not settled.
LEMMA WritersGrow ==
    ASSUME LogTypeOK, LedgerTypeOK, Writers
    PROVE  Grows
<1>1. nextXid \in Int /\ running \subseteq Int /\ \A r \in running : r < nextXid
  BY EventLogAssumption DEF LogTypeOK
<1>2. cursor' = cursor /\ everMarked' = everMarked /\ everDead' = everDead
  BY DEF Writers, ledgerVars
<1>3. cursor \preceq cursor'
  BY <1>2, PositionOrder DEF LedgerTypeOK
<1>4. CASE BeginTx
  BY <1>1, <1>2, <1>3, <1>4 DEF BeginTx, Grows, Settled
<1>5. ASSUME NEW x \in running, InsertEvent(x) PROVE Grows
  BY <1>1, <1>2, <1>3, <1>5 DEF InsertEvent, Grows, Settled
<1>6. ASSUME NEW x \in running, CommitTx(x) PROVE Grows
  BY <1>1, <1>2, <1>3, <1>6 DEF CommitTx, Grows, Settled
<1>7. ASSUME NEW x \in running, AbortTx(x) PROVE Grows
  BY <1>1, <1>2, <1>3, <1>7 DEF AbortTx, Grows, Settled
<1>8. QED
  BY <1>4, <1>5, <1>6, <1>7 DEF Writers

\* The ledger's invariant survives growth while the cursor stands still.
LEMMA LedgerStill ==
    ASSUME LogTypeOK, LogTypeOK', LedgerTypeOK, LedgerTypeOK', Grows, LedgerOK,
           cursor' = cursor, marks' \subseteq everMarked',
           \A e \in Event : fail'[e].dead => e \in everDead'
    PROVE  LedgerOK'
<1>1. cursor \in Event \cup {Origin} /\ cursor.xact \in Nat
  BY EventLogAssumption DEF LedgerTypeOK, Event, Origin
<1>2. Settled(cursor.xact)'
  BY <1>1 DEF Grows, LedgerOK
<1>3. ASSUME NEW e \in log', e \preceq cursor PROVE e \in Resolved'
  <2>1. e \in Event
    BY DEF LogTypeOK
  <2>2. Settled(e.xact)
    BY <1>1, <1>3, <2>1, SettledBelow DEF LedgerOK
  <2>3. e \in log
    BY <2>2 DEF Grows
  <2>4. QED
    BY <1>3, <2>3 DEF LedgerOK, Resolved, Grows
<1>4. QED
  BY <1>2, <1>3 DEF LedgerOK

\* The cursor moves to a resolved event before which all is resolved.
LEMMA LedgerMoves ==
    ASSUME LogTypeOK, LedgerTypeOK, LedgerTypeOK', LedgerOK, UNCHANGED logVars,
           NEW e \in Event, CoveredBefore(e, {}), e \in Resolved,
           cursor' = cursor \/ (cursor' = e /\ Settled(e.xact)),
           UNCHANGED <<marks, everMarked, everDead>>,
           \A f \in Event : fail'[f].dead => fail[f].dead
    PROVE  LedgerOK'
<1>1. \A x : Settled(x) <=> Settled(x)'
  BY DEF Settled, logVars
<1>2. Resolved' = Resolved /\ log' = log
  BY DEF Resolved, logVars
<1>3. marks' \subseteq everMarked' /\ \A f \in Event : fail'[f].dead => f \in everDead'
  BY DEF LedgerOK
<1>4. CASE cursor' = cursor
  BY <1>1, <1>2, <1>3, <1>4 DEF LedgerOK
<1>5. CASE cursor' = e /\ Settled(e.xact)
  <2>1. \A f \in log : f \preceq e => f \in Resolved
    <3>1. TAKE f \in log
    <3>2. f \in Event
      BY DEF LogTypeOK
    <3>3. QED
      BY <3>2, PositionOrder DEF CoveredBefore
  <2>2. QED
    BY <1>1, <1>2, <1>3, <1>5, <2>1 DEF LedgerOK
<1>6. QED
  BY <1>4, <1>5

\* What app_outbox_advance can do to the cursor and to the failure rows.
LEMMA AdvanceEffect ==
    ASSUME LogTypeOK, LedgerTypeOK, NEW held \in BOOLEAN, NEW e \in Event,
           Advance(held, e)
    PROVE  /\ cursor' = cursor \/ (cursor' = e /\ cursor \prec e /\ Settled(e.xact))
           /\ \A f \in Event : fail'[f].dead => fail[f].dead
BY VisibleSettled DEF Advance, MovesCursor, KnownEvent, LedgerTypeOK, Row, NoRow

\* An advance to a resolved event before which all is resolved.
LEMMA AdvanceOK ==
    ASSUME LogTypeOK, LedgerTypeOK, LedgerTypeOK', LedgerOK,
           NEW held \in BOOLEAN, NEW e \in Event, Advance(held, e),
           CoveredBefore(e, {}), e \in Resolved,
           UNCHANGED <<logVars, marks, everMarked, everDead>>
    PROVE  Grows /\ LedgerOK'
<1>1. /\ cursor' = cursor \/ (cursor' = e /\ cursor \prec e /\ Settled(e.xact))
      /\ \A f \in Event : fail'[f].dead => fail[f].dead
  BY AdvanceEffect
<1>2. Grows
  BY <1>1, GrowsQuietly
<1>3. LedgerOK'
  <2>1. UNCHANGED logVars /\ UNCHANGED <<marks, everMarked, everDead>>
    OBVIOUS
  <2>2. cursor' = cursor \/ (cursor' = e /\ Settled(e.xact))
    BY <1>1
  <2>3. QED
    BY <1>1, <2>1, <2>2, LedgerMoves
<1>4. QED
  BY <1>2, <1>3

-----------------------------------------------------------------------------
(* The shared invariant under the environment and the shared steps.        *)

\* A process that holds nothing satisfies the invariant, now and next.
LEMMA IdleCycleOK ==
    CycleOK(Idle) /\ CycleOK(Gone) /\ CycleOK(Idle)' /\ CycleOK(Gone)'
BY DEF CycleOK, Idle, Gone

\* Writers, operators, time: the log grows, the ledger's invariant stays and
\* no process moves.
LEMMA EnvironmentOK ==
    ASSUME SharedTypeOK, SharedTypeOK', LedgerOK, Environment
    PROVE  Grows /\ LedgerOK' /\ w' = w
<1> USE DEF SharedTypeOK
<1>1. CASE Writers
  <2>1. Grows
    BY <1>1, WritersGrow
  <2>2. cursor' = cursor /\ marks' \subseteq everMarked'
    BY <1>1 DEF Writers, ledgerVars, LedgerOK
  <2>3. \A e \in Event : fail'[e].dead => e \in everDead'
    BY <1>1 DEF Writers, ledgerVars, LedgerOK
  <2>4. QED
    BY <1>1, <2>1, <2>2, <2>3, LedgerStill DEF Writers, dispatcherVars
<1>2. ASSUME UNCHANGED <<logVars, cursor, everMarked, everDead, w>>,
             marks' \subseteq marks,
             \A e \in Event : fail'[e].dead => fail[e].dead
      PROVE  Grows /\ LedgerOK' /\ w' = w
  <2>1. Grows
    BY <1>2, GrowsQuietly
  <2>2. marks' \subseteq everMarked' /\ \A e \in Event : fail'[e].dead => e \in everDead'
    BY <1>2 DEF LedgerOK
  <2>3. QED
    BY <1>2, <2>1, <2>2, LedgerStill
<1>3. CASE OperatorRequeues
  <2>1. PICK e \in log : Requeue(e)
    BY <1>3 DEF OperatorRequeues
  <2>2. \A f \in Event : fail'[f].dead => fail[f].dead
    BY <2>1 DEF Requeue, LedgerTypeOK, Row
  <2>3. QED
    BY <1>2, <1>3, <2>1, <2>2 DEF OperatorRequeues, Requeue
<1>4. CASE Maintenance
  <2>1. ASSUME NEW e \in log, BackoffElapses(e)
        PROVE  \A f \in Event : fail'[f].dead => fail[f].dead
    BY <2>1 DEF BackoffElapses, LedgerTypeOK, Row
  <2>2. QED
    BY <1>2, <1>4, <2>1 DEF Maintenance, BackoffElapses, GcProcessed, dispatcherVars
<1>5. CASE LeaseExpires
  BY <1>2, <1>5 DEF LeaseExpires
<1>6. QED
  BY <1>1, <1>3, <1>4, <1>5 DEF Environment

\* Moving on keeps what the process still holds.
LEMMA ResumeOK ==
    ASSUME w \in [Owners -> Local], NEW o \in Owners, Resume(o),
           NEW l \in Local, l = w[o], CycleOK(l)'
    PROVE  CycleOK(w[o])' /\ \A p \in Owners \ {o} : w'[p] = w[p]
<1>1. \A p \in Owners \ {o} : w'[p] = w[p]
  BY DEF Resume
<1>2. CASE l.retries = {}
  <2>1. w'[o] = Idle
    BY <1>2 DEF Resume
  <2>2. QED
    BY <1>1, <2>1, IdleCycleOK
<1>3. CASE l.retries # {}
  <2>1. PICK m : m = [l EXCEPT !.retries = l.retries \ {l.cur},
                               !.pc = IF l.retries = {l.cur} THEN "scan" ELSE "retry"]
    OBVIOUS
  <2>2. w'[o] = m
    BY <1>3, <2>1 DEF Resume
  <2>3. /\ m.batch = l.batch /\ m.pending = l.pending
        /\ m.retries \subseteq l.retries /\ m.pc \in {"scan", "retry"}
    BY <2>1 DEF Local
  <2>4. CycleOK(m)'
    BY <2>3 DEF CycleOK
  <2>5. QED
    BY <1>1, <2>2, <2>4
<1>4. QED
  BY <1>2, <1>3

\* Starting and stopping leave the ledger's cursor and rows alone.
LEMMA LifecycleOK ==
    ASSUME SharedTypeOK, SharedTypeOK', LedgerOK, NEW o \in Owners, Lifecycle(o)
    PROVE  /\ Grows /\ LedgerOK'
           /\ w'[o] \in {Idle, Gone}
           /\ \A p \in Owners \ {o} : w'[p] = w[p]
<1> USE DEF SharedTypeOK
<1>1. UNCHANGED <<logVars, cursor, fail, marks, everMarked, everDead>>
  BY DEF Lifecycle, Start, Crash, Shutdown, Abandon, ledgerVars
<1>2. Grows
  BY <1>1, GrowsQuietly
<1>3. LedgerOK'
  <2>1. marks' \subseteq everMarked' /\ \A e \in Event : fail'[e].dead => e \in everDead'
    BY <1>1 DEF LedgerOK
  <2>2. QED
    BY <1>1, <1>2, <2>1, LedgerStill
<1>4. w'[o] \in {Idle, Gone} /\ \A p \in Owners \ {o} : w'[p] = w[p]
  BY DEF Lifecycle, Start, Crash, Shutdown, Abandon, DispatcherTypeOK
<1>5. QED
  BY <1>2, <1>3, <1>4

\* A prefix of what is readable leaves out nothing unresolved before it.
LEMMA ReadCovered ==
    ASSUME LogTypeOK, LedgerTypeOK, LedgerOK, NEW B, IsPrefix(B, Readable)
    PROVE  \A e \in B : e \in log /\ Settled(e.xact) /\ CoveredBefore(e, B)
<1>1. TAKE e \in B
<1>2. e \in log /\ e \in Event /\ Settled(e.xact)
  BY VisibleSettled DEF IsPrefix, Readable, LogTypeOK
<1>3. ASSUME NEW f \in log, f \prec e PROVE f \in Resolved \cup B
  <2>1. f \in Event /\ cursor \in Event \cup {Origin}
    BY DEF LogTypeOK, LedgerTypeOK
  <2>2. f \preceq e
    BY <1>2, <1>3, <2>1, PositionOrder
  <2>3. Settled(f.xact)
    BY <1>2, <2>1, <2>2, SettledBelow
  <2>4. CASE f \preceq cursor
    BY <2>4 DEF LedgerOK
  <2>5. CASE cursor \prec f
    BY <2>2, <2>3, <2>5 DEF IsPrefix, Readable, Visible
  <2>6. QED
    BY <2>1, <2>4, <2>5, PositionOrder
<1>4. QED
  BY <1>2, <1>3 DEF CoveredBefore

\* The shared steps of a cycle: the ledger's invariant, and that the process
\* that moves holds nothing that is not covered.
LEMMA CycleStepOK ==
    ASSUME SharedTypeOK, SharedTypeOK', LedgerOK, NEW o \in Owners, Cycle(o),
           CycleOK(w[o])
    PROVE  /\ Grows /\ LedgerOK' /\ CycleOK(w[o])'
           /\ \A p \in Owners \ {o} : w'[p] = w[p]
<1> USE DEF SharedTypeOK
<1>1. PICK l \in Local : l = w[o]
  BY DEF DispatcherTypeOK
<1>2. CycleOK(l) /\ w \in [Owners -> Local]
  BY <1>1 DEF DispatcherTypeOK
<1>3. ASSUME UNCHANGED <<logVars, cursor, fail, marks, everMarked, everDead>>
      PROVE  Grows /\ LedgerOK' /\ CycleOK(l)'
  <2>1. Grows
    BY <1>3, GrowsQuietly
  <2>2. marks' \subseteq everMarked' /\ \A e \in Event : fail'[e].dead => e \in everDead'
    BY <1>3 DEF LedgerOK
  <2>3. QED
    BY <1>2, <1>3, <2>1, <2>2, LedgerStill, CycleStable
<1>4. CASE TakeLease(o)
  <2>1. PICK m : m = [l EXCEPT !.pc = "read"]
    OBVIOUS
  <2>2. w'[o] = m /\ \A p \in Owners \ {o} : w'[p] = w[p]
    BY <1>1, <1>2, <1>4, <2>1 DEF TakeLease
  <2>3. CycleOK(l)' /\ Grows /\ LedgerOK'
    BY <1>3, <1>4 DEF TakeLease
  <2>4. CycleOK(m)'
    BY <2>1, <2>3 DEF CycleOK, Local
  <2>5. QED
    BY <2>2, <2>3, <2>4
<1>5. CASE ReadEvents(o)
  <2>1. l.pc = "read"
    BY <1>1, <1>5 DEF ReadEvents
  <2>2. PICK B \in SUBSET Readable :
            IsPrefix(B, Readable) /\ w' = [w EXCEPT ![o].pc = "claim", ![o].batch = B]
    BY <1>5 DEF ReadEvents, IsLimited
  <2>3. \A e \in B : e \in log /\ Settled(e.xact) /\ CoveredBefore(e, B)
    BY <2>2, ReadCovered
  <2>4. PICK m : m = [l EXCEPT !.pc = "claim", !.batch = B]
    OBVIOUS
  <2>5. m \in Local
    BY <2>2, <2>4 DEF Local, PCs, Readable, LogTypeOK
  <2>6. CycleOK(m)
    BY <1>2, <2>3, <2>4 DEF CycleOK, CoveredBefore, Local
  <2>7. Grows /\ LedgerOK'
    BY <1>3, <1>5 DEF ReadEvents, ledgerVars
  <2>8. CycleOK(m)'
    BY <2>5, <2>6, <2>7, CycleStable
  <2>9. w'[o] = m /\ \A p \in Owners \ {o} : w'[p] = w[p]
    BY <1>1, <1>2, <2>2, <2>4
  <2>10. QED
    BY <2>7, <2>8, <2>9
<1>6. CASE ClaimRetries(o)
  <2>1. PICK R \in SUBSET Retriable :
            w' = [w EXCEPT ![o].retries = R,
                           ![o].pc = IF R = {} THEN "scan" ELSE "retry"]
    BY <1>6 DEF ClaimRetries
  <2>2. PICK m : m = [l EXCEPT !.retries = R,
                               !.pc = IF R = {} THEN "scan" ELSE "retry"]
    OBVIOUS
  <2>3. m \in Local
    BY <2>1, <2>2 DEF Local, PCs, Retriable, LogTypeOK
  <2>4. \A e \in R : e \in log /\ e \preceq cursor
    BY <2>1 DEF Retriable
  <2>5. CycleOK(m)
    BY <1>2, <2>2, <2>4 DEF CycleOK, Local
  <2>6. Grows /\ LedgerOK'
    BY <1>3, <1>6 DEF ClaimRetries, ledgerVars
  <2>7. CycleOK(m)'
    BY <2>3, <2>5, <2>6, CycleStable
  <2>8. w'[o] = m /\ \A p \in Owners \ {o} : w'[p] = w[p]
    BY <1>1, <1>2, <2>1, <2>2
  <2>9. QED
    BY <2>6, <2>7, <2>8
<1>7. CASE RetriesLoseLease(o)
  <2>1. PICK m : m = [l EXCEPT !.pc = "scan", !.retries = {}]
    OBVIOUS
  <2>2. w'[o] = m /\ \A p \in Owners \ {o} : w'[p] = w[p]
    BY <1>1, <1>2, <1>7, <2>1 DEF RetriesLoseLease
  <2>3. CycleOK(l)' /\ Grows /\ LedgerOK'
    BY <1>3, <1>7 DEF RetriesLoseLease, ledgerVars
  <2>4. CycleOK(m)'
    BY <2>1, <2>3 DEF CycleOK, Local
  <2>5. QED
    BY <2>2, <2>3, <2>4
<1>8. CASE HandleFailure(o)
  <2> USE DEF RecordAtOnce, RecordChecksLease, RecordLooks, RecordUpserts
  <2>1. l.cur \in log /\ l.cur \in Event /\ l.pc \in {"record", "look", "upsert"}
    BY <1>1, <1>2, <1>8 DEF HandleFailure, CycleOK, LogTypeOK
  <2>2. PICK e \in Event : e = l.cur
    BY <2>1
  <2>3. UNCHANGED <<logVars, cursor, marks, everMarked>>
    BY <1>8 DEF HandleFailure, ledgerVars
  <2>4. Upsert(e) \/ (fail' = fail /\ everDead' = everDead)
    BY <1>1, <1>8, <2>2 DEF HandleFailure, RecordFailure, ledgerVars
  <2>5. Grows
    <3>1. everDead \subseteq everDead'
      BY <2>4 DEF Upsert
    <3>2. QED
      BY <2>3, <3>1, GrowsQuietly
  <2>6. \A f \in Event : fail'[f].dead => f \in everDead'
    <3>1. TAKE f \in Event
    <3>2. fail[f].dead => f \in everDead
      BY DEF LedgerOK
    <3>3. CASE f # e \/ ~Upsert(e)
      BY <2>2, <2>4, <3>2, <3>3 DEF Upsert, LedgerTypeOK
    <3>4. CASE f = e /\ Upsert(e)
      BY <2>2, <3>4 DEF Upsert, LedgerTypeOK
    <3>5. QED
      BY <3>3, <3>4
  <2>7. LedgerOK'
    <3>1. marks' \subseteq everMarked'
      BY <2>3 DEF LedgerOK
    <3>2. QED
      BY <2>3, <2>5, <2>6, <3>1, LedgerStill
  <2>8. CycleOK(l)'
    BY <1>2, <2>5, CycleStable
  <2>9. fail[e].attempts \in Nat /\ MaxAttempts \in Nat \ {0}
    BY LedgerAssumption DEF LedgerTypeOK, Row
  \* A count that reaches the limit is that of a dead letter.
  <2>10. ASSUME NEW n \in Nat, Recorded(o, n), n >= MaxAttempts => e \in everDead'
         PROVE  CycleOK(w[o])' /\ \A p \in Owners \ {o} : w'[p] = w[p]
    <3>1. CASE n >= MaxAttempts
      <4>1. PICK m : m = [l EXCEPT !.pc = "bury"]
        OBVIOUS
      <4>2. w'[o] = m /\ \A p \in Owners \ {o} : w'[p] = w[p]
        BY <1>1, <1>2, <2>10, <3>1, <4>1 DEF Recorded
      <4>3. CycleOK(m)'
        BY <2>1, <2>2, <2>8, <2>10, <3>1, <4>1 DEF CycleOK, Local
      <4>4. QED
        BY <4>2, <4>3
    <3>2. CASE ~(n >= MaxAttempts)
      <4>1. Resume(o)
        BY <2>10, <3>2 DEF Recorded
      <4>2. QED
        BY <1>1, <1>2, <2>8, <4>1, ResumeOK
    <3>3. QED
      BY <3>1, <3>2
  <2>11. ASSUME NEW c \in {"look", "upsert"}, w' = [w EXCEPT ![o].pc = c]
         PROVE  CycleOK(w[o])' /\ \A p \in Owners \ {o} : w'[p] = w[p]
    <3>1. PICK m : m = [l EXCEPT !.pc = c]
      OBVIOUS
    <3>2. w'[o] = m /\ \A p \in Owners \ {o} : w'[p] = w[p]
      BY <1>1, <1>2, <2>11, <3>1
    <3>3. CycleOK(m)'
      BY <2>1, <2>8, <2>11, <3>1 DEF CycleOK, Local
    <3>4. QED
      BY <3>2, <3>3
  <2>12. fail[e].dead => e \in everDead'
    BY <2>5 DEF LedgerOK, Grows
  <2>13. Upsert(e) /\ fail[e].attempts + 1 >= MaxAttempts => e \in everDead'
    BY DEF Upsert, NextRow
  <2>14. ~Recordable(e) /\ fail[e].attempts >= MaxAttempts => fail[e].dead
    BY <2>9 DEF Recordable
  <2>15. CASE RecordAtOnce(o)
    <3>1. PICK n \in Nat : n = RecordedAttempts(o, e)
      BY <2>9 DEF RecordedAttempts
    <3>2. Recorded(o, n) /\ RecordFailure(o, e)
      BY <1>1, <2>2, <2>15, <3>1
    <3>3. n >= MaxAttempts => e \in everDead'
      <4>1. CASE Records(o, e)
        BY <2>13, <3>1, <3>2, <4>1 DEF RecordedAttempts, RecordFailure
      <4>2. CASE ~Records(o, e)
        BY <2>9, <2>12, <2>14, <3>1, <4>2 DEF RecordedAttempts, Records
      <4>3. QED
        BY <4>1, <4>2
    <3>4. QED
      BY <2>5, <2>7, <2>10, <3>2, <3>3
  <2>16. CASE RecordChecksLease(o)
    <3>1. CASE Resume(o)
      BY <1>1, <1>2, <2>5, <2>7, <2>8, <3>1, ResumeOK
    <3>2. CASE w' = [w EXCEPT ![o].pc = "look"]
      BY <2>5, <2>7, <2>11, <3>2
    <3>3. QED
      BY <2>16, <3>1, <3>2
  <2>17. CASE RecordLooks(o)
    <3>1. CASE w' = [w EXCEPT ![o].pc = "upsert"]
      BY <2>5, <2>7, <2>11, <3>1
    <3>2. CASE ~Recordable(e) /\ Recorded(o, fail[e].attempts)
      BY <2>5, <2>7, <2>9, <2>10, <2>12, <2>14, <3>2
    <3>3. QED
      BY <1>1, <2>2, <2>17, <3>1, <3>2
  <2>18. CASE RecordUpserts(o)
    <3>1. PICK n \in Nat : n = fail[e].attempts + 1
      BY <2>9
    <3>2. Upsert(e) /\ Recorded(o, n)
      BY <1>1, <2>2, <2>18, <3>1
    <3>3. QED
      BY <2>5, <2>7, <2>10, <2>13, <3>1, <3>2
  <2>19. QED
    BY <1>8, <2>15, <2>16, <2>17, <2>18 DEF HandleFailure
<1>9. CASE BuryDeadLetter(o)
  <2>1. /\ l.cur \in log /\ l.cur \in Event /\ l.pc = "bury"
        /\ CoveredBefore(l.cur, {}) /\ l.cur \in everDead
    BY <1>1, <1>2, <1>9 DEF BuryDeadLetter, CycleOK, LogTypeOK
  <2>2. PICK e \in Event : e = l.cur
    BY <2>1
  <2>3. Advance(Holds(o), e) /\ UNCHANGED <<logVars, marks, everMarked, everDead>>
    BY <1>1, <1>9, <2>2 DEF BuryDeadLetter
  <2>4. e \in Resolved
    BY <2>1, <2>2 DEF Resolved
  <2>5. Grows /\ LedgerOK'
    BY <2>1, <2>2, <2>3, <2>4, HeldAdvance, AdvanceOK
  <2>6. CycleOK(l)'
    BY <1>2, <2>5, CycleStable
  <2>7. QED
    BY <1>1, <1>2, <1>9, <2>5, <2>6, ResumeOK DEF BuryDeadLetter
<1>10. CASE SkipDeadLetter(o)
  <2>1. /\ l.pc = "skip" /\ l.pending = {} /\ IsLeast(l.cur, l.batch)
        /\ l.cur \in everDead
    BY <1>1, <1>2, <1>10 DEF SkipDeadLetter, CycleOK
  <2>2. l.cur \in l.batch /\ l.cur \in log /\ l.cur \in Event
    BY <1>2, <2>1 DEF IsLeast, CycleOK, LogTypeOK
  <2>3. PICK e \in Event : e = l.cur
    BY <2>2
  <2>4. CoveredBefore(e, {})
    <3>1. ASSUME NEW f \in log, f \prec e PROVE f \in Resolved
      <4>1. f \in Event /\ f \in Resolved \cup l.batch
        BY <1>2, <2>1, <2>2, <2>3, <3>1 DEF CycleOK, CoveredBefore, LogTypeOK
      <4>2. f \notin l.batch
        BY <2>1, <2>3, <3>1, <4>1, PositionOrder DEF IsLeast
      <4>3. QED
        BY <4>1, <4>2
    <3>2. QED
      BY <3>1 DEF CoveredBefore
  <2>5. Advance(Holds(o), e) /\ UNCHANGED <<logVars, marks, everMarked, everDead>>
    BY <1>1, <1>10, <2>3 DEF SkipDeadLetter
  <2>6. e \in Resolved
    BY <2>1, <2>3 DEF Resolved
  <2>7. Grows /\ LedgerOK'
    BY <2>4, <2>5, <2>6, HeldAdvance, AdvanceOK
  <2>8. PICK m : m = [l EXCEPT !.pc = "scan", !.batch = l.batch \ {e}]
    OBVIOUS
  <2>9. m \in Local
    BY <2>8 DEF Local, PCs
  <2>10. CycleOK(m)
    BY <1>2, <2>1, <2>3, <2>8 DEF CycleOK, CoveredBefore, Resolved, Local
  <2>11. CycleOK(m)'
    BY <2>7, <2>9, <2>10, CycleStable
  <2>12. w'[o] = m /\ \A p \in Owners \ {o} : w'[p] = w[p]
    BY <1>1, <1>2, <1>10, <2>3, <2>8 DEF SkipDeadLetter
  <2>13. QED
    BY <2>7, <2>11, <2>12
<1>11. QED
  BY <1>4, <1>5, <1>6, <1>7, <1>8, <1>9, <1>10 DEF Cycle

-----------------------------------------------------------------------------
(* What the shared steps leave alone, and what they find.                  *)

\* The next place in the code promises nothing about deliveries, and the
\* process still holds the same events for delivery.
SamePlans(l, m) ==
    /\ m.pending = l.pending /\ m.chunk = l.chunk /\ m.done = l.done /\ m.left = l.left
    /\ m.pc \in {"read", "claim", "retry", "look", "upsert", "bury", "scan"}

\* Moving on after a retry or a failure.
LEMMA ResumePlace ==
    ASSUME w \in [Owners -> Local], NEW o \in Owners, Resume(o),
           NEW l \in Local, l = w[o]
    PROVE  \E m \in Local : m = w'[o] /\ (m = Idle \/ SamePlans(l, m))
<1>1. CASE l.retries = {}
  <2>1. w'[o] = Idle
    BY <1>1 DEF Resume
  <2>2. QED
    BY <2>1, IdleGone
<1>2. CASE l.retries # {}
  <2>1. PICK m : m = [l EXCEPT !.retries = l.retries \ {l.cur},
                               !.pc = IF l.retries = {l.cur} THEN "scan" ELSE "retry"]
    OBVIOUS
  <2>2. w'[o] = m
    BY <1>2, <2>1 DEF Resume
  <2>3. m \in Local /\ SamePlans(l, m)
    BY <2>1 DEF Local, PCs, SamePlans
  <2>4. QED
    BY <2>2, <2>3
<1>3. QED
  BY <1>1, <1>2

\* The shared steps of a cycle.
LEMMA CyclePlace ==
    ASSUME w \in [Owners -> Local], w' \in [Owners -> Local], NEW o \in Owners, Cycle(o),
           NEW l \in Local, l = w[o]
    PROVE  \E m \in Local : m = w'[o] /\ (m = Idle \/ SamePlans(l, m))
<1>1. ASSUME \/ w'[o] = [l EXCEPT !.pc = "read"]
             \/ w'[o] = [l EXCEPT !.pc = "look"]
             \/ w'[o] = [l EXCEPT !.pc = "upsert"]
             \/ w'[o] = [l EXCEPT !.pc = "bury"]
             \/ w'[o] = [l EXCEPT !.pc = "scan", !.retries = {}]
             \/ w'[o] = [l EXCEPT !.pc = "scan", !.batch = l.batch \ {l.cur}]
             \/ \E B : w'[o] = [l EXCEPT !.pc = "claim", !.batch = B]
             \/ \E R : w'[o] = [l EXCEPT !.retries = R,
                                       !.pc = IF R = {} THEN "scan" ELSE "retry"]
      PROVE  SamePlans(l, w'[o])
  BY <1>1 DEF Local, SamePlans
<1>2. CASE TakeLease(o) \/ RetriesLoseLease(o) \/ SkipDeadLetter(o)
  BY <1>1, <1>2 DEF TakeLease, RetriesLoseLease, SkipDeadLetter
<1>3. CASE ReadEvents(o)
  BY <1>1, <1>3 DEF ReadEvents
<1>4. CASE ClaimRetries(o)
  BY <1>1, <1>4 DEF ClaimRetries
<1>5. CASE HandleFailure(o)
  BY <1>1, <1>5, ResumePlace
     DEF HandleFailure, RecordAtOnce, RecordChecksLease, RecordLooks, RecordUpserts, Recorded
<1>6. CASE BuryDeadLetter(o)
  BY <1>6, ResumePlace DEF BuryDeadLetter
<1>7. QED
  BY <1>2, <1>3, <1>4, <1>5, <1>6 DEF Cycle

\* A requeued event lies at or below the cursor, so all before it is resolved.
LEMMA RetryCovered ==
    ASSUME LogTypeOK, LedgerTypeOK, LedgerOK, NEW e \in log, e \preceq cursor
    PROVE  e \in Event /\ Settled(e.xact) /\ CoveredBefore(e, {})
<1>1. e \in Event /\ cursor \in Event \cup {Origin}
  BY DEF LogTypeOK, LedgerTypeOK
<1>2. Settled(e.xact)
  BY <1>1, SettledBelow DEF LedgerOK
<1>3. ASSUME NEW f \in log, f \prec e PROVE f \in Resolved
  <2>1. f \in Event
    BY <1>1 DEF LogTypeOK
  <2>2. f \preceq cursor
    BY <1>1, <1>3, <2>1, PositionOrder, PositionTrans
  <2>3. QED
    BY <1>1, <2>2 DEF LedgerOK
<1>4. QED
  BY <1>1, <1>2, <1>3 DEF CoveredBefore

\* Before the first event of the batch only what is pending may be open.
LEMMA LeastCovered ==
    ASSUME LogTypeOK, NEW l \in Local, CycleOK(l), NEW e, IsLeast(e, l.batch)
    PROVE  e \in log /\ e \in Event /\ Settled(e.xact) /\ CoveredBefore(e, l.pending)
<1>1. e \in l.batch /\ e \in log /\ e \in Event /\ Settled(e.xact)
  BY DEF IsLeast, CycleOK, LogTypeOK
<1>2. ASSUME NEW f \in log, f \prec e PROVE f \in Resolved \cup l.pending
  <2>1. f \in Event /\ f \in Resolved \cup (l.batch \cup l.pending)
    BY <1>1, <1>2 DEF CycleOK, CoveredBefore, LogTypeOK
  <2>2. f \notin l.batch
    BY <1>1, <1>2, <2>1, PositionOrder DEF IsLeast
  <2>3. QED
    BY <2>1, <2>2
<1>3. QED
  BY <1>1, <1>2 DEF CoveredBefore

=============================================================================
