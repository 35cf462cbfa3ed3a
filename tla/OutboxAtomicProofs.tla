------------------------- MODULE OutboxAtomicProofs -------------------------
(* Proofs about OutboxAtomic, for every number of processes, of events and *)
(* of faults.                                                              *)
EXTENDS OutboxAtomic, OutboxDispatcherProofs

-----------------------------------------------------------------------------
(* What is stable while other processes work.                              *)

\* What a process knows of the event at hand stays true.
LEMMA AttemptStable ==
    ASSUME LogTypeOK, LogTypeOK', Grows, NEW l \in Local, AttemptOK(l)
    PROVE  AttemptOK(l)'
<1>1. l.pc \in {"check", "begin", "commit", "settle"} =>
          l.cur \in log' /\ Settled(l.cur.xact)' /\ CoveredBefore(l.cur, {})'
  <2>1. SUFFICES ASSUME l.pc \in {"check", "begin", "commit", "settle"}
                 PROVE  l.cur \in log' /\ Settled(l.cur.xact)' /\ CoveredBefore(l.cur, {})'
    OBVIOUS
  <2>2. l.cur \in log /\ Settled(l.cur.xact) /\ CoveredBefore(l.cur, {})
    BY <2>1 DEF AttemptOK
  <2>3. l.cur.xact \in Nat
    BY <2>2 DEF LogTypeOK, Event
  <2>4. QED
    BY <2>2, <2>3, CoveredStable DEF Grows
<1>2. QED
  BY <1>1 DEF AttemptOK, Grows, IsLeast

\* A process that has no event at hand.
LEMMA IdleAttemptOK ==
    AttemptOK(Idle) /\ AttemptOK(Gone) /\ AttemptOK(Idle)' /\ AttemptOK(Gone)'
BY DEF AttemptOK, Idle, Gone

\* Only o may gain the lease, and an event ahead of the cursor is buried by
\* the owner of the lease or late.
MovedBy(o) ==
    /\ \A p \in Owners \ {o} : lease'.owner = p => lease.owner = p
    /\ late \subseteq late'
    /\ \A e \in Event : fail'[e].dead /\ cursor \prec e
                           => fail[e].dead \/ lease.owner = o \/ e \in late'
    /\ \A p \in Owners \ {o} : w'[p] = w[p]

\* A step of one process, put together.
LEMMA OneProcess ==
    ASSUME IInv, TypeOK', Grows, LedgerOK', AgreementOK', LateOK',
           NEW o \in Owners, MovedBy(o),
           CycleOK(w[o])', AttemptOK(w[o])', AliveOK(o)'
    PROVE  IInv'
<1>1. LogTypeOK /\ LogTypeOK' /\ LedgerTypeOK /\ LedgerTypeOK'
  BY DEF IInv, TypeOK
<1>2. ASSUME NEW p \in Owners \ {o}
      PROVE  CycleOK(w[p])' /\ AttemptOK(w[p])' /\ AliveOK(p)'
  <2>1. PICK l \in Local : l = w[p]
    BY DEF IInv, TypeOK, DispatcherTypeOK
  <2>2. CycleOK(l) /\ AttemptOK(l) /\ AliveOK(p)
    BY <2>1 DEF IInv
  <2>3. CycleOK(l)' /\ AttemptOK(l)'
    BY <1>1, <2>2, CycleStable, AttemptStable
  <2>4. w'[p] = l
    BY <1>2, <2>1 DEF MovedBy
  <2>5. AliveOK(p)'
    <3>1. SUFFICES ASSUME l.pc \in {"begin", "commit"}, lease'.owner = p,
                          cursor' \prec l.cur
                   PROVE  ~fail'[l.cur].dead \/ l.cur \in late'
      BY <2>4 DEF AliveOK
    <3>2. l.cur \in Event /\ cursor \in Event \cup {Origin} /\ cursor' \in Event \cup {Origin}
      BY <1>1, <2>2, <3>1 DEF AttemptOK, LogTypeOK, LedgerTypeOK
    <3>3. cursor \prec l.cur
      BY <3>1, <3>2, PositionTrans DEF Grows
    <3>4. lease.owner = p
      BY <1>2, <3>1 DEF MovedBy
    <3>5. ~fail[l.cur].dead \/ l.cur \in late
      BY <2>1, <2>2, <3>1, <3>3, <3>4 DEF AliveOK
    <3>6. QED
      BY <1>2, <3>2, <3>3, <3>4, <3>5 DEF MovedBy
  <2>6. QED
    BY <2>3, <2>4, <2>5
<1>3. \A p \in Owners : CycleOK(w[p])' /\ AttemptOK(w[p])' /\ AliveOK(p)'
  BY <1>2
<1>4. QED
  BY <1>3 DEF IInv

\* A step that neither marks nor applies anything: rows are newly skipped only
\* for events without an effect.
LEMMA AgreementStill ==
    ASSUME IInv, TypeOK', Grows, everMarked' = everMarked, applied' = applied,
           late \subseteq late',
           \A e \in Event : fail'[e].skipped =>
               fail[e].skipped \/ (e \preceq cursor' /\ cursor \prec e)
    PROVE  AgreementOK'
<1>1. /\ cursor \in Event \cup {Origin} /\ cursor' \in Event \cup {Origin}
      /\ cursor \preceq cursor' /\ AgreementOK /\ applied \in [Event -> Nat]
  BY DEF IInv, TypeOK, LedgerTypeOK, Grows
<1>2. ASSUME NEW e \in Event
      PROVE  /\ e \notin late' => applied'[e] <= 1
             /\ applied'[e] > 0 => e \preceq cursor'
             /\ e \in everMarked' => applied'[e] > 0
             /\ fail'[e].skipped => e \preceq cursor' /\ (applied'[e] = 0 \/ e \in late')
  <2>1. e \preceq cursor => e \preceq cursor'
    BY <1>1, PositionTrans
  <2>2. cursor \prec e => ~(e \preceq cursor)
    BY <1>1, PositionOrder
  <2>3. applied[e] \in Nat
    BY <1>1
  <2>4. /\ e \notin late => applied[e] <= 1
        /\ applied[e] > 0 => e \preceq cursor
        /\ e \in everMarked => applied[e] > 0
        /\ fail[e].skipped => e \preceq cursor /\ (applied[e] = 0 \/ e \in late)
    BY <1>1 DEF AgreementOK
  <2>5. QED
    BY <2>1, <2>2, <2>3, <2>4
<1>3. QED
  BY <1>2 DEF AgreementOK

\* Moving on never stops inside record_failure.
LEMMA ResumePc ==
    ASSUME w \in [Owners -> Local], NEW o \in Owners, Resume(o)
    PROVE  w'[o].pc \in {"idle", "scan", "retry"}
BY DEF Resume, Idle, Local

\* A step that buries nothing late and does not stop inside record_failure.
LEMMA LateStill ==
    ASSUME IInv, Grows, late' = late, NEW o \in Owners,
           w'[o].pc \notin {"look", "upsert"}, \A p \in Owners \ {o} : w'[p] = w[p]
    PROVE  LateOK'
<1>1. LateOK /\ everDead \subseteq everDead'
  BY DEF IInv, Grows
<1>2. \A p \in Owners : w[p].pc \notin {"look", "upsert"} => w'[p].pc \notin {"look", "upsert"}
  OBVIOUS
<1>3. QED
  BY <1>1, <1>2 DEF LateOK

-----------------------------------------------------------------------------
(* The steps of this mode.                                                 *)

\* Steps that leave the rows, the marks, the cursor and the effects alone.
LEMMA QuietStep ==
    ASSUME IInv, NEW o \in Owners, NEW m \in Local,
           w' = [w EXCEPT ![o] = m],
           UNCHANGED <<logVars, cursor, fail, marks, everMarked, everDead, requeues, applied, late>>,
           faults' = faults, lease' = lease \/ Lease(o),
           m.pc \notin {"look", "upsert"}, CycleOK(m), AttemptOK(m), AliveOK(o)'
    PROVE  IInv'
<1>1. LogTypeOK /\ LedgerTypeOK /\ DispatcherTypeOK /\ LedgerOK
  BY DEF IInv, TypeOK
<1>2. lease' \in [owner : Owners \cup {NoOwner}, live : BOOLEAN]
  BY <1>1, LeaseType DEF LedgerTypeOK
<1>3. TypeOK'
  BY <1>1, <1>2 DEF IInv, TypeOK, LogTypeOK, LedgerTypeOK, DispatcherTypeOK, logVars
<1>4. LogTypeOK' /\ LedgerTypeOK'
  BY <1>3 DEF TypeOK
<1>5. Grows
  BY <1>1, <1>4, GrowsQuietly
<1>6. LedgerOK'
  <2>1. marks' \subseteq everMarked' /\ \A e \in Event : fail'[e].dead => e \in everDead'
    BY <1>1 DEF LedgerOK
  <2>2. QED
    BY <1>1, <1>4, <1>5, <2>1, LedgerStill
<1>7. AgreementOK'
  BY <1>3, <1>5, AgreementStill
<1>8. w'[o] = m /\ MovedBy(o)
  BY <1>1 DEF MovedBy, DispatcherTypeOK, Lease
<1>9. CycleOK(w[o])' /\ AttemptOK(w[o])'
  BY <1>1, <1>4, <1>5, <1>8, CycleStable, AttemptStable
<1>10. LateOK'
  BY <1>5, <1>8, LateStill DEF MovedBy
<1>11. QED
  BY <1>3, <1>5, <1>6, <1>7, <1>8, <1>9, <1>10, OneProcess

\* A retry is at or below the cursor.
LEMMA NextRetryOK ==
    ASSUME IInv, NEW o \in Owners, NextRetry(o, "begin"), UNCHANGED <<applied, late>>
    PROVE  IInv'
<1>1. PICK l \in Local : l = w[o]
  BY DEF IInv, TypeOK, DispatcherTypeOK
<1>2. /\ CycleOK(l) /\ AttemptOK(l) /\ w \in [Owners -> Local]
      /\ LogTypeOK /\ LedgerTypeOK /\ LedgerOK
  BY <1>1 DEF IInv, TypeOK, DispatcherTypeOK
<1>3. PICK e \in l.retries : w' = [w EXCEPT ![o].pc = "begin", ![o].cur = e]
  BY <1>1 DEF NextRetry
<1>4. e \in log /\ e \preceq cursor /\ e \in Event /\ Settled(e.xact) /\ CoveredBefore(e, {})
  BY <1>2, RetryCovered DEF CycleOK
<1>5. PICK m : m = [l EXCEPT !.pc = "begin", !.cur = e]
  OBVIOUS
<1>6. m \in Local /\ w' = [w EXCEPT ![o] = m] /\ w'[o] = m /\ m.pc = "begin"
  BY <1>1, <1>2, <1>3, <1>4, <1>5 DEF Local, PCs
<1>7. CycleOK(m)
  BY <1>2, <1>5 DEF CycleOK, Local
<1>8. AttemptOK(m)
  BY <1>2, <1>4, <1>5 DEF AttemptOK, Local
<1>9. AliveOK(o)'
  <2>1. cursor' = cursor /\ m.cur = e /\ cursor \in Event \cup {Origin}
    BY <1>2, <1>5 DEF NextRetry, Local, LedgerTypeOK
  <2>2. ~(cursor' \prec m.cur)
    BY <1>4, <2>1, PositionOrder
  <2>3. QED
    BY <1>6, <2>2 DEF AliveOK
<1>10. /\ UNCHANGED <<logVars, cursor, fail, marks, everMarked, everDead, requeues, applied, late>>
       /\ faults' = faults /\ Lease(o)
  BY DEF NextRetry
<1>11. QED
  BY <1>6, <1>7, <1>8, <1>9, <1>10, QuietStep

\* The loop over the batch up to the transaction, and a rollback.
LEMMA AttemptStep ==
    ASSUME IInv, NEW o \in Owners,
           \/ ScanEnds(o) \/ ScanLease(o) \/ CheckFailure(o)
           \/ BeginDelivery(o) \/ RollbackDelivery(o),
           UNCHANGED late
    PROVE  IInv'
<1>1. PICK l \in Local : l = w[o]
  BY DEF IInv, TypeOK, DispatcherTypeOK
<1>2. /\ CycleOK(l) /\ AttemptOK(l) /\ AliveOK(o) /\ w \in [Owners -> Local]
      /\ LogTypeOK /\ LedgerTypeOK /\ LedgerOK /\ l.pending = {}
  BY <1>1 DEF IInv, TypeOK, DispatcherTypeOK, AttemptOK
<1>3. /\ UNCHANGED <<logVars, cursor, fail, marks, everMarked, everDead, requeues, applied, late>>
      /\ faults' = faults /\ (lease' = lease \/ Lease(o))
  BY DEF ScanEnds, ScanLease, CheckFailure, BeginDelivery, RollbackDelivery, ledgerVars
<1>4. ASSUME NEW m \in Local, w' = [w EXCEPT ![o] = m], CycleOK(m), AttemptOK(m),
             m.pc \notin {"begin", "commit", "look", "upsert"}
      PROVE  IInv'
  <2>1. AliveOK(o)'
    BY <1>2, <1>4 DEF AliveOK
  <2>2. QED
    BY <1>3, <1>4, <2>1, QuietStep
<1>5. ASSUME w' = [w EXCEPT ![o] = Idle] PROVE IInv'
  <2>1. Idle.pc \notin {"begin", "commit", "look", "upsert"}
    BY DEF Idle
  <2>2. QED
    BY <1>4, <1>5, <2>1, IdleGone, IdleCycleOK, IdleAttemptOK
<1>6. CASE ScanEnds(o)
  BY <1>5, <1>6 DEF ScanEnds
<1>7. CASE ScanLease(o)
  <2>1. PICK e \in l.batch :
            IsLeast(e, l.batch) /\ w' = [w EXCEPT ![o].pc = "check", ![o].cur = e]
    BY <1>1, <1>7 DEF ScanLease
  <2>2. e \in log /\ e \in Event /\ Settled(e.xact) /\ CoveredBefore(e, {})
    BY <1>2, <2>1, LeastCovered
  <2>3. PICK m : m = [l EXCEPT !.pc = "check", !.cur = e]
    OBVIOUS
  <2>4. m \in Local /\ w' = [w EXCEPT ![o] = m] /\ m.pc = "check"
    BY <1>1, <1>2, <2>1, <2>2, <2>3 DEF Local, PCs
  <2>5. CycleOK(m)
    BY <1>2, <2>3 DEF CycleOK, Local
  <2>6. AttemptOK(m)
    <3>1. m.pending = l.pending /\ m.cur = e /\ m.batch = l.batch
      BY <2>3 DEF Local
    <3>2. QED
      BY <1>2, <2>1, <2>2, <2>4, <3>1 DEF AttemptOK
  <2>7. QED
    BY <1>4, <2>4, <2>5, <2>6
<1>8. CASE CheckFailure(o)
  <2>1. l.pc = "check" /\ l.cur \in log /\ l.cur \in Event /\ IsLeast(l.cur, l.batch)
    BY <1>1, <1>2, <1>8 DEF CheckFailure, AttemptOK, LogTypeOK
  <2>2. CASE w' = [w EXCEPT ![o] = Idle]
    BY <1>5, <2>2
  <2>3. CASE fail[l.cur].dead /\ w' = [w EXCEPT ![o].pc = "skip"]
    <3>1. PICK m : m = [l EXCEPT !.pc = "skip"]
      OBVIOUS
    <3>2. m \in Local /\ w' = [w EXCEPT ![o] = m] /\ m.pc = "skip"
      BY <1>1, <1>2, <2>3, <3>1 DEF Local, PCs
    <3>3. CycleOK(m)
      <4>1. /\ m.batch = l.batch /\ m.pending = {} /\ m.retries = l.retries
            /\ m.cur = l.cur /\ l.cur \in everDead
        BY <1>2, <2>1, <2>3, <3>1 DEF Local, LedgerOK
      <4>2. QED
        BY <1>2, <2>1, <3>2, <4>1 DEF CycleOK
    <3>4. AttemptOK(m)
      BY <1>2, <3>1 DEF AttemptOK, Local
    <3>5. QED
      BY <1>4, <3>2, <3>3, <3>4
  <2>4. CASE ~fail[l.cur].dead /\ w' = [w EXCEPT ![o].pc = "begin"]
    <3>1. PICK m : m = [l EXCEPT !.pc = "begin"]
      OBVIOUS
    <3>2. /\ m \in Local /\ w' = [w EXCEPT ![o] = m] /\ w'[o] = m
          /\ m.cur = l.cur /\ m.pc = "begin"
      BY <1>1, <1>2, <2>4, <3>1 DEF Local, PCs
    <3>3. CycleOK(m)
      BY <1>2, <3>1 DEF CycleOK, Local
    <3>4. AttemptOK(m)
      BY <1>2, <2>1, <3>1 DEF AttemptOK, Local
    <3>5. AliveOK(o)'
      BY <1>3, <2>4, <3>2 DEF AliveOK
    <3>6. QED
      BY <1>3, <3>2, <3>3, <3>4, <3>5, QuietStep
  <2>5. QED
    BY <1>1, <1>8, <2>2, <2>3, <2>4 DEF CheckFailure
<1>9. CASE BeginDelivery(o)
  <2>1. PICK h \in BOOLEAN : w' = [w EXCEPT ![o].pc = "commit", ![o].held = h]
    <3>1. Holds(o) \in BOOLEAN
      BY <1>2 DEF Holds, LedgerTypeOK
    <3>2. QED
      BY <1>9, <3>1 DEF BeginDelivery
  <2>2. PICK m : m = [l EXCEPT !.pc = "commit", !.held = h]
    OBVIOUS
  <2>3. /\ m \in Local /\ w' = [w EXCEPT ![o] = m] /\ w'[o] = m
        /\ m.cur = l.cur /\ m.pc = "commit"
    BY <1>1, <1>2, <2>1, <2>2 DEF Local, PCs
  <2>4. CycleOK(m)
    BY <1>2, <2>2 DEF CycleOK, Local
  <2>5. l.pc = "begin" /\ lease' = lease
    BY <1>1, <1>9 DEF BeginDelivery, ledgerVars
  <2>6. AttemptOK(m)
    BY <1>2, <2>2, <2>5 DEF AttemptOK, Local
  <2>7. AliveOK(o)'
    BY <1>1, <1>2, <1>3, <2>3, <2>5 DEF AliveOK
  <2>8. QED
    BY <1>3, <2>3, <2>4, <2>6, <2>7, QuietStep
<1>10. CASE RollbackDelivery(o)
  <2>1. PICK m : m = [l EXCEPT !.pc = "record", !.held = FALSE]
    OBVIOUS
  <2>2. m \in Local /\ w' = [w EXCEPT ![o] = m] /\ m.pc = "record"
    BY <1>1, <1>2, <1>10, <2>1 DEF RollbackDelivery, Local, PCs
  <2>3. l.cur \in log /\ Settled(l.cur.xact) /\ CoveredBefore(l.cur, {})
    BY <1>1, <1>2, <1>10 DEF RollbackDelivery, AttemptOK
  <2>4. CycleOK(m)
    BY <1>2, <2>1, <2>3 DEF CycleOK, Local
  <2>5. AttemptOK(m)
    BY <1>2, <2>1 DEF AttemptOK, Local
  <2>6. QED
    BY <1>4, <2>2, <2>4, <2>5
<1>11. QED
  BY <1>6, <1>7, <1>8, <1>9, <1>10

\* The transaction that marks, applies and advances.
LEMMA CommitOK ==
    ASSUME IInv, NEW o \in Owners, CommitDelivery(o), UNCHANGED late
    PROVE  IInv'
<1>1. PICK l \in Local : l = w[o]
  BY DEF IInv, TypeOK, DispatcherTypeOK
<1>2. /\ CycleOK(l) /\ AttemptOK(l) /\ AliveOK(o) /\ w \in [Owners -> Local]
      /\ LogTypeOK /\ LedgerTypeOK /\ LedgerOK /\ AgreementOK
      /\ applied \in [Event -> Nat] /\ l.pc = "commit"
  BY <1>1 DEF IInv, TypeOK, DispatcherTypeOK, CommitDelivery
<1>3. l.cur \in log /\ l.cur \in Event /\ Settled(l.cur.xact) /\ CoveredBefore(l.cur, {})
  BY <1>2 DEF AttemptOK, LogTypeOK
<1>4. PICK e \in Event : e = l.cur
  BY <1>3
<1>5. PICK h \in BOOLEAN : h = HeldAtBegin(o)
  <2>1. HeldAtBegin(o) \in BOOLEAN
    BY DEF HeldAtBegin
  <2>2. QED
    BY <2>1
<1>6. /\ Accepted(HeldAtBegin(o), e) /\ Advance(HeldAtBegin(o), e)
      /\ MarkProcessed(e)
      /\ applied' = IF e \in marks THEN applied ELSE [applied EXCEPT ![e] = @ + 1]
      /\ UNCHANGED <<logVars, lease, everDead, faults, requeues>>
  BY <1>1, <1>4 DEF CommitDelivery
<1>7. Advance(h, e) /\ (ResolvesRequeue(h, e) \/ MovesCursor(h, e))
  <2>1. CASE HeldAtBegin(o)
    BY <1>5, <1>6, <2>1 DEF Accepted, Advance, ResolvesRequeue, MovesCursor
  <2>2. CASE ~HeldAtBegin(o)
    BY <1>5, <1>6, <2>2 DEF Accepted, Advance, ResolvesRequeue, MovesCursor
  <2>3. QED
    BY <2>1, <2>2
<1>8. h => lease.owner = o
  BY <1>5 DEF HeldAtBegin
<1>9. cursor \in Event \cup {Origin} /\ everMarked' = everMarked \cup {e}
      /\ marks' = marks \cup {e} /\ marks \subseteq everMarked
  BY <1>2, <1>6 DEF LedgerTypeOK, MarkProcessed, LedgerOK
<1>10. /\ e \notin late => applied[e] <= 1
       /\ applied[e] > 0 => e \preceq cursor
       /\ e \in everMarked => applied[e] > 0
       /\ fail[e].skipped => e \preceq cursor /\ (applied[e] = 0 \/ e \in late)
       /\ applied[e] \in Nat
  BY <1>2 DEF AgreementOK
\* Unless it was buried late, the event had no effect before the commit, and
\* afterwards its row is gone or was never skipped.
<1>11. /\ (applied[e] = 0 /\ e \notin marks) \/ e \in late
       /\ e \preceq cursor' /\ (~fail'[e].skipped \/ e \in late)
       /\ cursor' = cursor \/ (cursor' = e /\ cursor \prec e)
  <2>1. CASE ResolvesRequeue(h, e)
    <3>1. e \preceq cursor /\ fail[e].skipped /\ ~(cursor \prec e)
      BY <1>9, <2>1, PositionOrder DEF ResolvesRequeue
    <3>2. fail' = [fail EXCEPT ![e] = NoRow] /\ cursor' = cursor
      BY <1>7, <2>1, <3>1 DEF Advance, MovesCursor
    <3>3. ~fail'[e].skipped
      BY <1>2, <3>2 DEF LedgerTypeOK, NoRow
    <3>4. QED
      BY <1>9, <1>10, <3>1, <3>2, <3>3
  <2>2. CASE ~ResolvesRequeue(h, e) /\ MovesCursor(h, e)
    <3>1. cursor \prec e /\ ~(e \preceq cursor) /\ e \preceq e /\ h
      BY <1>9, <2>2, PositionOrder DEF MovesCursor
    <3>2. ~fail[e].dead \/ e \in late
      BY <1>1, <1>2, <1>4, <1>8, <3>1 DEF AliveOK
    <3>3. cursor' = e /\ (~fail[e].dead => fail' = fail)
      BY <1>7, <2>2 DEF Advance
    <3>4. applied[e] = 0
      BY <1>10, <3>1
    <3>5. QED
      BY <1>9, <1>10, <3>1, <3>2, <3>3, <3>4
  <2>3. QED
    BY <1>7, <2>1, <2>2
<1>12. /\ applied' \in [Event -> Nat] /\ applied'[e] > 0
       /\ e \notin late => applied'[e] = 1
       /\ \A f \in Event : f # e => applied'[f] = applied[f]
  <2>1. CASE e \in marks
    BY <1>2, <1>6, <1>9, <1>10, <1>11, <2>1
  <2>2. CASE e \notin marks
    BY <1>2, <1>6, <1>10, <1>11, <2>2
  <2>3. QED
    BY <2>1, <2>2
<1>13. PICK answer \in {"settle", "record"} :
          w' = [w EXCEPT ![o].pc = answer, ![o].held = FALSE]
  BY DEF CommitDelivery
<1>14. PICK m : m = [l EXCEPT !.pc = answer, !.held = FALSE]
  OBVIOUS
<1>15. m \in Local /\ w'[o] = m /\ w' = [w EXCEPT ![o] = m]
  BY <1>1, <1>2, <1>13, <1>14 DEF Local, PCs
<1>16. TypeOK'
  <2>1. cursor' \in Event \cup {Origin} /\ fail' \in [Event -> Row]
    BY <1>2, <1>7, AdvanceType
  <2>2. marks' \subseteq Event /\ everMarked' \subseteq Event
    BY <1>2, <1>9 DEF LedgerTypeOK
  <2>3. applied' \in [Event -> Nat]
    BY <1>2, <1>12
  <2>4. LogTypeOK'
    BY <1>2, <1>6 DEF LogTypeOK, logVars
  <2>5. LedgerTypeOK'
    BY <1>2, <1>6, <2>1, <2>2 DEF LedgerTypeOK
  <2>6. DispatcherTypeOK'
    BY <1>2, <1>6, <1>15 DEF IInv, TypeOK, DispatcherTypeOK
  <2>7. QED
    BY <2>3, <2>4, <2>5, <2>6 DEF IInv, TypeOK
<1>17. LogTypeOK' /\ LedgerTypeOK'
  BY <1>16 DEF TypeOK
<1>18. Grows
  BY <1>2, <1>6, <1>9, <1>11, <1>17, GrowsQuietly
<1>19. \A f \in Event : fail'[f].dead => fail[f].dead
  BY <1>2, <1>7, AdvanceEffect
<1>20. LedgerOK'
  <2>1. Settled(cursor.xact)'
    <3>1. Settled(cursor'.xact)
      BY <1>2, <1>3, <1>4, <1>11 DEF LedgerOK
    <3>2. nextXid' = nextXid /\ running' = running
      BY <1>6 DEF logVars
    <3>3. QED
      BY <3>1, <3>2 DEF Settled
  <2>2. ASSUME NEW f \in log', f \preceq cursor' PROVE f \in Resolved'
    <3>1. f \in log /\ f \in Event
      BY <1>2, <1>6 DEF LogTypeOK, logVars
    <3>2. f \in Resolved \/ f = e
      <4>1. CASE cursor' = cursor
        BY <1>2, <2>2, <3>1, <4>1 DEF LedgerOK
      <4>2. CASE cursor' = e
        <5>1. f = e \/ f \prec e
          BY <2>2, <3>1, <4>2, PositionOrder
        <5>2. QED
          BY <1>3, <1>4, <3>1, <5>1 DEF CoveredBefore
      <4>3. QED
        BY <1>11, <4>1, <4>2
    <3>3. QED
      BY <1>6, <1>9, <3>2 DEF Resolved
  <2>3. marks' \subseteq everMarked'
    BY <1>9
  <2>4. \A f \in Event : fail'[f].dead => f \in everDead'
    BY <1>2, <1>6, <1>19 DEF LedgerOK
  <2>5. QED
    BY <2>1, <2>2, <2>3, <2>4 DEF LedgerOK
<1>21. AgreementOK'
  <2>1. ASSUME NEW f \in Event, f # e
        PROVE  /\ f \notin late' => applied'[f] <= 1
               /\ applied'[f] > 0 => f \preceq cursor'
               /\ f \in everMarked' => applied'[f] > 0
               /\ fail'[f].skipped => f \preceq cursor' /\ (applied'[f] = 0 \/ f \in late')
    <3>1. applied'[f] = applied[f] /\ (f \in everMarked' => f \in everMarked)
      BY <1>2, <1>9, <1>12, <2>1
    <3>2. fail'[f] = fail[f]
      BY <1>2, <1>7, <2>1 DEF Advance, LedgerTypeOK
    <3>3. f \preceq cursor => f \preceq cursor'
      BY <1>9, <1>18, <1>17, PositionTrans DEF Grows, LedgerTypeOK
    <3>4. QED
      BY <1>2, <3>1, <3>2, <3>3 DEF AgreementOK
  <2>2. QED
    BY <1>11, <1>12, <2>1 DEF AgreementOK
<1>22. MovedBy(o)
  BY <1>2, <1>6, <1>15, <1>19 DEF MovedBy
<1>23. CycleOK(l)' /\ AttemptOK(l)'
  BY <1>2, <1>17, <1>18, CycleStable, AttemptStable
<1>24. /\ m.batch = l.batch /\ m.pending = l.pending /\ m.retries = l.retries
       /\ m.cur = l.cur /\ m.pc = answer
  BY <1>14 DEF Local
<1>25. CycleOK(m)'
  BY <1>2, <1>13, <1>23, <1>24 DEF CycleOK, AttemptOK
<1>26. AttemptOK(m)'
  BY <1>2, <1>4, <1>9, <1>13, <1>23, <1>24 DEF AttemptOK
<1>27. AliveOK(o)'
  BY <1>13, <1>15, <1>24 DEF AliveOK
<1>28. LateOK'
  BY <1>13, <1>15, <1>18, <1>22, <1>24, LateStill DEF MovedBy
<1>29. QED
  BY <1>15, <1>16, <1>18, <1>20, <1>21, <1>22, <1>25, <1>26, <1>27, <1>28, OneProcess

\* After the commit the failure row goes.
LEMMA ClearOK ==
    ASSUME IInv, NEW o \in Owners, ClearDelivered(o), UNCHANGED late
    PROVE  IInv'
<1>1. PICK l \in Local : l = w[o]
  BY DEF IInv, TypeOK, DispatcherTypeOK
<1>2. /\ CycleOK(l) /\ AttemptOK(l) /\ w \in [Owners -> Local]
      /\ LogTypeOK /\ LedgerTypeOK /\ LedgerOK /\ l.pc = "settle"
  BY <1>1 DEF IInv, TypeOK, DispatcherTypeOK, ClearDelivered
<1>3. l.cur \in Event /\ l.cur \in everMarked
  BY <1>2 DEF AttemptOK, LogTypeOK
<1>4. /\ UNCHANGED <<logVars, cursor, lease, marks, everMarked, everDead, faults,
                     requeues, applied, late>>
      /\ fail' = [fail EXCEPT ![l.cur] = NoRow]
  BY <1>1 DEF ClearDelivered, ClearFailure
<1>5. PICK m \in Local : m = w'[o] /\ CycleOK(m)' /\ AttemptOK(m)'
                         /\ m.pc \notin {"begin", "commit", "look", "upsert"}
                         /\ w' \in [Owners -> Local]
                         /\ \A p \in Owners \ {o} : w'[p] = w[p]
  <2>1. LogTypeOK' /\ LedgerTypeOK'
    BY <1>2, <1>4 DEF LogTypeOK, LedgerTypeOK, logVars, Row, NoRow
  <2>2. Grows
    BY <1>2, <1>4, <2>1, GrowsQuietly
  <2>3. CycleOK(l)' /\ AttemptOK(l)'
    BY <1>2, <2>1, <2>2, CycleStable, AttemptStable
  <2>4. CASE l.retries = {}
    <3>1. w' = [w EXCEPT ![o].pc = "scan", ![o].batch = @ \ {l.cur}]
      BY <1>1, <2>4 DEF ClearDelivered
    <3>2. PICK m : m = [l EXCEPT !.pc = "scan", !.batch = l.batch \ {l.cur}]
      OBVIOUS
    <3>3. m \in Local
      BY <3>2 DEF Local, PCs
    <3>4. w'[o] = m /\ w' \in [Owners -> Local] /\ \A p \in Owners \ {o} : w'[p] = w[p]
      BY <1>1, <1>2, <3>1, <3>2, <3>3
    <3>5. /\ m.batch = l.batch \ {l.cur} /\ m.pending = l.pending
          /\ m.retries = l.retries /\ m.pc = "scan"
      BY <3>2 DEF Local
    <3>6. CycleOK(m)'
      <4>1. l.cur \in Resolved'
        BY <1>3, <1>4 DEF Resolved
      <4>2. QED
        BY <2>3, <3>5, <4>1 DEF CycleOK, CoveredBefore
    <3>7. AttemptOK(m)'
      BY <2>3, <3>5 DEF AttemptOK
    <3>8. QED
      BY <3>3, <3>4, <3>5, <3>6, <3>7
  <2>5. CASE l.retries # {}
    <3>1. Resume(o)
      BY <1>1, <2>5 DEF ClearDelivered
    <3>2. PICK m \in Local : /\ m = w'[o] /\ (m = Idle \/ SamePlans(l, m))
                             /\ m.pc \notin {"look", "upsert"}
      BY <1>1, <1>2, <3>1, ResumePlace, ResumePc
    <3>3. CycleOK(w[o])' /\ \A p \in Owners \ {o} : w'[p] = w[p]
      BY <1>1, <1>2, <2>3, <3>1, ResumeOK
    <3>4. AttemptOK(m)' /\ m.pc \notin {"begin", "commit", "look", "upsert"}
      <4>1. CASE m = Idle
        BY <4>1, IdleAttemptOK DEF Idle
      <4>2. CASE SamePlans(l, m)
        BY <2>3, <3>2, <4>2 DEF SamePlans, AttemptOK
      <4>3. QED
        BY <3>2, <4>1, <4>2
    <3>5. w' \in [Owners -> Local]
      BY <1>2, <3>1, ResumeType
    <3>6. QED
      BY <3>2, <3>3, <3>4, <3>5
  <2>6. QED
    BY <2>4, <2>5
<1>6. TypeOK'
  BY <1>2, <1>3, <1>4, <1>5
     DEF IInv, TypeOK, LogTypeOK, LedgerTypeOK, DispatcherTypeOK, logVars, Row, NoRow
<1>7. LogTypeOK' /\ LedgerTypeOK'
  BY <1>6 DEF TypeOK
<1>8. Grows
  BY <1>2, <1>4, <1>7, GrowsQuietly
<1>9. \A e \in Event : /\ fail'[e].dead => fail[e].dead
                       /\ fail'[e].skipped => fail[e].skipped
  BY <1>2, <1>4 DEF LedgerTypeOK, NoRow
<1>10. LedgerOK'
  <2>1. marks' \subseteq everMarked' /\ \A e \in Event : fail'[e].dead => e \in everDead'
    BY <1>2, <1>4, <1>9 DEF LedgerOK
  <2>2. QED
    BY <1>2, <1>4, <1>7, <1>8, <2>1, LedgerStill
<1>11. AgreementOK'
  BY <1>4, <1>6, <1>8, <1>9, AgreementStill
<1>12. MovedBy(o)
  BY <1>4, <1>5, <1>9 DEF MovedBy
<1>13. AliveOK(o)' /\ CycleOK(w[o])' /\ AttemptOK(w[o])'
  BY <1>5 DEF AliveOK
<1>14. LateOK'
  BY <1>4, <1>5, <1>8, LateStill
<1>15. QED
  BY <1>6, <1>8, <1>10, <1>11, <1>12, <1>13, <1>14, OneProcess

\* The shared steps: a row becomes dead only in record_failure, under the lease
\* where there is one writer, and is newly skipped only when the cursor passes it.
LEMMA CycleRows ==
    ASSUME IInv, SharedTypeOK', NEW o \in Owners, Cycle(o)
    PROVE  /\ SingleWriter => \A e \in Event : fail'[e].dead => fail[e].dead \/ lease.owner = o
           /\ SingleWriter => w'[o].pc \notin {"look", "upsert"}
           /\ \A e \in Event : fail'[e].skipped =>
                  fail[e].skipped \/ (e \preceq cursor' /\ cursor \prec e)
           /\ \A p \in Owners \ {o} : lease'.owner = p => lease.owner = p
           /\ everMarked' = everMarked
<1>1. PICK l \in Local : l = w[o]
  BY DEF IInv, TypeOK, DispatcherTypeOK
<1>2. /\ CycleOK(l) /\ LogTypeOK /\ LedgerTypeOK /\ fail \in [Event -> Row]
      /\ w \in [Owners -> Local]
  BY <1>1 DEF IInv, TypeOK, LedgerTypeOK, DispatcherTypeOK
<1>3. ASSUME NEW e \in Event, Advance(Holds(o), e)
      PROVE  \A f \in Event :
                /\ fail'[f].dead => fail[f].dead
                /\ fail'[f].skipped => fail[f].skipped \/ (f \preceq cursor' /\ cursor \prec f)
  <2>1. e \preceq e
    BY PositionOrder
  <2>2. QED
    BY <1>2, <1>3, <2>1 DEF Advance, MovesCursor, Row, NoRow
<1>4. CASE TakeLease(o) \/ ReadEvents(o) \/ ClaimRetries(o) \/ RetriesLoseLease(o)
  <2>1. w'[o].pc \in {"read", "claim", "scan", "retry"}
    <3>1. CASE TakeLease(o) \/ RetriesLoseLease(o)
      BY <1>1, <1>2, <3>1 DEF TakeLease, RetriesLoseLease, Local
    <3>2. CASE ReadEvents(o)
      BY <1>1, <1>2, <3>2 DEF ReadEvents, Local
    <3>3. CASE ClaimRetries(o)
      BY <1>1, <1>2, <3>3 DEF ClaimRetries, Local
    <3>4. QED
      BY <1>4, <3>1, <3>2, <3>3
  <2>2. QED
    BY <1>4, <2>1 DEF TakeLease, ReadEvents, ClaimRetries, RetriesLoseLease, Lease, ledgerVars
<1>5. CASE HandleFailure(o)
  <2> USE DEF RecordAtOnce, RecordChecksLease, RecordLooks, RecordUpserts
  <2>1. l.cur \in Event
    BY <1>1, <1>2, <1>5 DEF HandleFailure, CycleOK, LogTypeOK
  <2>2. /\ fail' = fail \/ fail' = [fail EXCEPT ![l.cur] = NextRow(fail[l.cur])]
        /\ lease' = lease /\ everMarked' = everMarked
    BY <1>1, <1>5 DEF HandleFailure, RecordFailure, Upsert, ledgerVars
  <2>3. NextRow(fail[l.cur]).skipped = fail[l.cur].skipped
    BY DEF NextRow
  <2>4. \A e \in Event : fail'[e].skipped => fail[e].skipped
    BY <1>2, <2>1, <2>2, <2>3
  <2>5. ASSUME SingleWriter
        PROVE  /\ fail' = fail \/ lease.owner = o
               /\ w'[o].pc \notin {"look", "upsert"}
    <3>1. RecordAtOnce(o)
      BY <1>5, <2>5 DEF HandleFailure, IInv, LateOK
    <3>2. fail' = fail \/ lease.owner = o
      BY <3>1 DEF RecordFailure, Records, Holds
    <3>3. CASE Resume(o)
      BY <1>1, <1>2, <3>2, <3>3, ResumePc
    <3>4. CASE w' = [w EXCEPT ![o].pc = "bury"]
      BY <1>1, <1>2, <3>2, <3>4 DEF Local
    <3>5. QED
      BY <3>1, <3>2, <3>3, <3>4 DEF Recorded
  <2>6. QED
    BY <2>2, <2>4, <2>5
<1>6. CASE BuryDeadLetter(o) \/ SkipDeadLetter(o)
  <2>1. l.cur \in Event
    BY <1>1, <1>2, <1>6 DEF BuryDeadLetter, SkipDeadLetter, CycleOK, IsLeast, LogTypeOK
  <2>2. Advance(Holds(o), l.cur) /\ lease' = lease /\ everMarked' = everMarked
    BY <1>1, <1>6 DEF BuryDeadLetter, SkipDeadLetter
  <2>3. w'[o].pc \notin {"look", "upsert"}
    <3>1. CASE Resume(o)
      BY <1>1, <1>2, <3>1, ResumePc
    <3>2. CASE w' = [w EXCEPT ![o].pc = "scan", ![o].batch = @ \ {w[o].cur}]
      BY <1>1, <1>2, <3>2 DEF Local
    <3>3. QED
      BY <1>6, <3>1, <3>2 DEF BuryDeadLetter, SkipDeadLetter
  <2>4. QED
    BY <1>3, <2>1, <2>2, <2>3
<1>7. QED
  BY <1>4, <1>5, <1>6 DEF Cycle

\* Every step keeps the invariant.
LEMMA NextOK ==
    ASSUME IInv, [Next]_atomicVars
    PROVE  IInv'
<1>1. SharedTypeOK /\ LedgerOK /\ w \in [Owners -> Local] /\ fail \in [Event -> Row]
  BY DEF IInv, TypeOK, SharedTypeOK, DispatcherTypeOK, LedgerTypeOK
<1>2. \A o \in Owners : CycleOK(w[o]) /\ AttemptOK(w[o]) /\ AliveOK(o) /\ w[o] \in Local
  BY <1>1 DEF IInv
<1>3. SharedTypeOK' /\ UNCHANGED applied /\ late' \subseteq Event => TypeOK'
  BY DEF IInv, TypeOK, SharedTypeOK
<1>4. CASE Environment /\ UNCHANGED <<applied, late>>
  <2>1. SharedTypeOK' /\ TypeOK'
    BY <1>1, <1>3, <1>4, EnvironmentType DEF IInv, TypeOK
  <2>2. Grows /\ LedgerOK' /\ w' = w
    BY <1>1, <1>4, <2>1, EnvironmentOK
  <2>3. lease'.owner = lease.owner /\ everMarked' = everMarked /\ cursor' = cursor
    BY <1>1, <1>4 DEF Environment, Writers, OperatorRequeues, Requeue, Maintenance,
                BackoffElapses, GcProcessed, LeaseExpires, ledgerVars, SharedTypeOK,
                LedgerTypeOK
  <2>4. \A e \in Event : /\ fail'[e].dead => fail[e].dead
                         /\ fail'[e].skipped => fail[e].skipped
    <3>1. CASE Writers \/ LeaseExpires
      BY <3>1 DEF Writers, LeaseExpires, ledgerVars
    <3>2. CASE OperatorRequeues
      <4>1. PICK f \in log : Requeue(f)
        BY <3>2 DEF OperatorRequeues
      <4>2. QED
        BY <1>1, <4>1 DEF Requeue, Row
    <3>3. CASE Maintenance
      <4>1. PICK f \in log : BackoffElapses(f) \/ GcProcessed(f)
        BY <3>3 DEF Maintenance
      <4>2. QED
        BY <1>1, <4>1 DEF BackoffElapses, GcProcessed, Row
    <3>4. QED
      BY <1>4, <3>1, <3>2, <3>3 DEF Environment
  <2>5. AgreementOK'
    BY <1>4, <2>1, <2>2, <2>3, <2>4, AgreementStill
  <2>6. ASSUME NEW o \in Owners PROVE CycleOK(w[o])' /\ AttemptOK(w[o])' /\ AliveOK(o)'
    <3>1. PICK l \in Local : l = w[o]
      BY <1>2
    <3>2. CycleOK(l)' /\ AttemptOK(l)'
      BY <1>1, <1>2, <2>1, <2>2, <3>1, CycleStable, AttemptStable DEF SharedTypeOK
    <3>3. AliveOK(o)'
      <4>1. l.pc \in {"begin", "commit"} => l.cur \in Event
        BY <1>1, <1>2, <3>1 DEF AttemptOK, SharedTypeOK, LogTypeOK
      <4>2. QED
        BY <1>2, <1>4, <2>2, <2>3, <2>4, <3>1, <4>1 DEF AliveOK
    <3>4. QED
      BY <2>2, <3>1, <3>2, <3>3
  <2>7. LateOK'
    BY <1>4, <2>2 DEF IInv, LateOK, Grows
  <2>8. QED
    BY <2>1, <2>2, <2>5, <2>6, <2>7 DEF IInv
<1>5. ASSUME NEW o \in Owners, Lifecycle(o), UNCHANGED <<applied, late>> PROVE IInv'
  <2>1. SharedTypeOK' /\ TypeOK'
    BY <1>1, <1>3, <1>5, LifecycleType DEF IInv, TypeOK
  <2>2. /\ Grows /\ LedgerOK' /\ w'[o] \in {Idle, Gone}
        /\ \A p \in Owners \ {o} : w'[p] = w[p]
    BY <1>1, <1>5, <2>1, LifecycleOK
  <2>3. UNCHANGED <<everMarked, fail>> /\ (lease' = lease \/ lease' = FreeLease)
    BY <1>5 DEF Lifecycle, Start, Crash, Shutdown, Abandon, Release, ledgerVars
  <2>4. MovedBy(o)
    BY <1>5, <2>2, <2>3, LedgerAssumption DEF MovedBy, FreeLease
  <2>5. AgreementOK'
    BY <1>5, <2>1, <2>2, <2>3, AgreementStill
  <2>6. CycleOK(w[o])' /\ AttemptOK(w[o])' /\ AliveOK(o)'
    <3>1. CASE w'[o] = Idle
      BY <3>1, IdleCycleOK, IdleAttemptOK DEF AliveOK, Idle
    <3>2. CASE w'[o] = Gone
      BY <3>2, IdleCycleOK, IdleAttemptOK DEF AliveOK, Gone, Idle
    <3>3. QED
      BY <2>2, <3>1, <3>2
  <2>7. LateOK'
    BY <1>5, <2>2, LateStill DEF Idle, Gone
  <2>8. QED
    BY <2>1, <2>2, <2>4, <2>5, <2>6, <2>7, OneProcess
<1>6. ASSUME NEW o \in Owners, Cycle(o), UNCHANGED applied,
             late' = late \cup LateBurials(o)
      PROVE  IInv'
  <2>1. w[o].pc \in {"record", "look", "upsert", "bury", "skip"} => w[o].cur \in Event
    BY <1>1, <1>2 DEF CycleOK, IsLeast, SharedTypeOK, LogTypeOK
  <2>2. SharedTypeOK' /\ TypeOK' /\ w' \in [Owners -> Local]
    <3>1. late' \subseteq Event
      BY <1>6 DEF LateBurials, IInv, TypeOK
    <3>2. QED
      BY <1>1, <1>3, <1>6, <2>1, <3>1, CycleType DEF SharedTypeOK, DispatcherTypeOK
  <2>3. /\ Grows /\ LedgerOK' /\ CycleOK(w[o])'
        /\ \A p \in Owners \ {o} : w'[p] = w[p]
    BY <1>1, <1>2, <1>6, <2>2, CycleStepOK
  <2>4. /\ SingleWriter => \A e \in Event : fail'[e].dead => fail[e].dead \/ lease.owner = o
        /\ SingleWriter => w'[o].pc \notin {"look", "upsert"}
        /\ \A e \in Event : fail'[e].skipped =>
               fail[e].skipped \/ (e \preceq cursor' /\ cursor \prec e)
        /\ \A p \in Owners \ {o} : lease'.owner = p => lease.owner = p
        /\ everMarked' = everMarked
    BY <1>6, <2>2, CycleRows
  <2>5. AgreementOK'
    BY <1>6, <2>2, <2>3, <2>4, AgreementStill
  <2>6. PICK l \in Local : l = w[o]
    BY <1>2
  <2>7. AttemptOK(l)'
    BY <1>1, <1>2, <2>2, <2>3, <2>6, AttemptStable DEF SharedTypeOK
  <2>8. PICK m \in Local : m = w'[o] /\ (m = Idle \/ SamePlans(l, m))
    BY <1>1, <1>6, <2>2, <2>6, CyclePlace
  <2>9. AttemptOK(m)' /\ m.pc \notin {"begin", "commit"}
    <3>1. CASE m = Idle
      BY <3>1, IdleAttemptOK DEF Idle
    <3>2. CASE SamePlans(l, m)
      BY <2>7, <3>2 DEF SamePlans, AttemptOK
    <3>3. QED
      BY <2>8, <3>1, <3>2
  <2>10. AttemptOK(w[o])' /\ AliveOK(o)'
    BY <2>8, <2>9 DEF AliveOK
  <2>11. MovedBy(o)
    BY <1>6, <2>3, <2>4 DEF MovedBy, LateBurials
  <2>12. LateOK'
    <3>1. LateBurials(o) \subseteq everDead'
      BY <2>3 DEF LateBurials, LedgerOK
    <3>2. late' \subseteq everDead'
      BY <1>6, <2>3, <3>1 DEF IInv, LateOK, Grows
    <3>3. ASSUME SingleWriter
          PROVE  late' = {} /\ \A p \in Owners : w'[p].pc \notin {"look", "upsert"}
      BY <1>6, <2>3, <2>4, <3>3 DEF LateBurials, IInv, LateOK
    <3>4. QED
      BY <3>2, <3>3 DEF LateOK
  <2>13. QED
    BY <2>2, <2>3, <2>5, <2>10, <2>11, <2>12, OneProcess
<1>7. ASSUME NEW o \in Owners, NextRetry(o, "begin"), UNCHANGED <<applied, late>> PROVE IInv'
  BY <1>7, NextRetryOK
<1>8. ASSUME NEW o \in Owners, Deliver(o), UNCHANGED late PROVE IInv'
  BY <1>8, AttemptStep, CommitOK, ClearOK DEF Deliver
<1>9. CASE UNCHANGED atomicVars
  BY <1>9 DEF atomicVars, vars, logVars, ledgerVars, dispatcherVars, IInv, TypeOK,
              LogTypeOK, LedgerTypeOK, DispatcherTypeOK, LedgerOK, CycleOK, AttemptOK,
              AliveOK, AgreementOK, LateOK, CoveredBefore, Resolved, Settled
<1>10. QED
  BY <1>4, <1>5, <1>6, <1>7, <1>8, <1>9 DEF Next

\* Nothing is held, marked, applied or passed at the start.
LEMMA InitOK == Init => IInv
<1> SUFFICES ASSUME Init PROVE IInv
  OBVIOUS
<1>1. TypeOK
  <2>1. LogTypeOK
    BY EventLogAssumption DEF Init, LogInit, LogTypeOK
  <2>2. LedgerTypeOK
    <3>1. FreeLease \in [owner : Owners \cup {NoOwner}, live : BOOLEAN]
      BY DEF FreeLease
    <3>2. NoRow \in Row
      BY DEF NoRow, Row
    <3>3. QED
      BY <3>1, <3>2 DEF Init, LedgerInit, LedgerTypeOK
  <2>3. DispatcherTypeOK
    BY DispatcherAssumption, IdleGone DEF Init, DispatcherInit, DispatcherTypeOK
  <2>4. QED
    BY <2>1, <2>2, <2>3 DEF Init, TypeOK
<1>2. LedgerOK
  BY DEF Init, LogInit, LedgerInit, LedgerOK, Settled, Origin, NoRow
<1>3. AgreementOK
  BY DEF Init, LedgerInit, AgreementOK, NoRow
<1>4. \A o \in Owners : w[o] = Gone
  BY DEF Init, DispatcherInit
<1>5. \A o \in Owners : CycleOK(w[o]) /\ AttemptOK(w[o]) /\ AliveOK(o)
  BY <1>4, IdleCycleOK, IdleAttemptOK DEF AliveOK, Gone, Idle
<1>6. LateOK
  BY <1>4 DEF Init, LateOK, Gone, Idle
<1>7. QED
  BY <1>1, <1>2, <1>3, <1>5, <1>6 DEF IInv

\* IInv holds in every reachable state.
THEOREM Invariance == Spec => []IInv
<1>1. IInv /\ [Next]_atomicVars => IInv'
  BY NextOK
<1>2. QED
  BY <1>1, InitOK, PTL DEF Spec

-----------------------------------------------------------------------------
(* The theorems.                                                           *)

\* The variables keep their types, through lost answers of a delivery's COMMIT
\* as well.
THEOREM TypeCorrectness == Spec => []TypeOK
<1>1. IInv => TypeOK
  BY DEF IInv
<1>2. QED
  BY <1>1, Invariance, PTL

\* process_notification_event_backend and fan_out_event_backend never apply
\* the effect of an event twice, for any number of dispatchers and crashes,
\* even when its mark was collected long ago, except for an event that was
\* dead-lettered by a process that had lost the lease.
THEOREM AtMostOnce == Spec => []AppliedAtMostOnce
<1>1. IInv => AppliedAtMostOnce
  BY DEF IInv, AgreementOK, AppliedAtMostOnce
<1>2. QED
  BY <1>1, Invariance, PTL

\* The SQLite family records a failure under its writer lock, so there the
\* exception does not arise and no effect is ever applied twice.
THEOREM NeverTwiceLocked == ASSUME SingleWriter PROVE Spec => []NeverTwice
<1>1. IInv => NeverTwice
  BY DEF IInv, AgreementOK, LateOK, NeverTwice
<1>2. QED
  BY <1>1, Invariance, PTL

\* What the cursor has passed without a dead letter was applied.
THEOREM NoneLost == Spec => []PassedIsApplied
<1>1. IInv => PassedIsApplied
  <2>1. SUFFICES ASSUME IInv, NEW e \in log, e \preceq cursor, e \notin everDead
                 PROVE  applied[e] = 1
    BY DEF PassedIsApplied
  <2>2. e \in Event /\ e \in everMarked /\ e \notin late /\ applied[e] \in Nat
    BY <2>1 DEF IInv, TypeOK, LogTypeOK, LedgerOK, LateOK, Resolved
  <2>3. QED
    BY <2>1, <2>2 DEF IInv, AgreementOK
<1>2. QED
  BY <1>1, Invariance, PTL

\* No effect is committed without the cursor: a crash leaves nothing that the
\* next owner would apply again.
THEOREM EffectWithCursor == Spec => []AppliedIsPassed
<1>1. IInv => AppliedIsPassed
  BY DEF IInv, AgreementOK, AppliedIsPassed
<1>2. QED
  BY <1>1, Invariance, PTL

=============================================================================
