------------------------ MODULE OutboxExternalProofs ------------------------
(* Proofs about OutboxExternal, for every number of processes, of events   *)
(* and of faults.                                                          *)
EXTENDS OutboxExternal, OutboxDispatcherProofs

-----------------------------------------------------------------------------
(* Type correctness.                                                       *)

\* An operation of this mode that changes local state, lease, effects, fault
\* counter, marks or failure rows within their types keeps the types.
LEMMA QuietType ==
    ASSUME TypeOK, UNCHANGED <<logVars, cursor, everDead, requeues>>,
           w' \in [Owners -> Local],
           faults' = faults \/ Fault,
           lease' = lease \/ \E o \in Owners : Lease(o),
           fail' \in [Event -> Row],
           marks' \subseteq Event, everMarked' \subseteq Event, effected' \subseteq Event
    PROVE  TypeOK'
<1>1. faults' \in 0..MaxFaults
  BY DispatcherAssumption DEF Fault, TypeOK, DispatcherTypeOK
<1>2. lease' \in [owner : Owners \cup {NoOwner}, live : BOOLEAN]
  <2>1. CASE lease' = lease
    BY <2>1 DEF TypeOK, LedgerTypeOK
  <2>2. CASE \E o \in Owners : Lease(o)
    BY <2>2, LeaseType
  <2>3. QED
    BY <2>1, <2>2
<1>3. QED
  BY <1>1, <1>2 DEF TypeOK, LogTypeOK, LedgerTypeOK, DispatcherTypeOK, logVars

\* Taking retries one by one.
LEMMA RetryType ==
    ASSUME IInv, NEW o \in Owners, Retry(o)
    PROVE  TypeOK'
<1>1. w[o] \in Local /\ w \in [Owners -> Local] /\ TypeOK
  BY DEF IInv, TypeOK, DispatcherTypeOK
<1>2. w[o].retries \subseteq Event
  BY <1>1 DEF Local
<1>3. /\ fail \in [Event -> Row] /\ marks \subseteq Event
      /\ everMarked \subseteq Event /\ effected \subseteq Event
  BY <1>1 DEF TypeOK, LedgerTypeOK
<1>4. w[o].pc \in {"retryDeliver", "retryMark", "retryClear"} => w[o].cur \in Event
  BY <1>2 DEF IInv, DeliveryOK
<1>5. CASE NextRetry(o, "retryDeliver") /\ UNCHANGED effected
  <2> PICK e \in w[o].retries :
          w' = [w EXCEPT ![o].pc = "retryDeliver", ![o].cur = e]
    BY <1>5 DEF NextRetry
  <2>1. w' \in [Owners -> Local]
    BY <1>1, <1>2 DEF Local, PCs
  <2>2. /\ UNCHANGED <<logVars, cursor, everDead, requeues>>
        /\ UNCHANGED <<fail, marks, everMarked, effected, faults>>
        /\ \E p \in Owners : Lease(p)
    BY <1>5 DEF NextRetry
  <2>3. QED
    BY <1>1, <1>3, <2>1, <2>2, QuietType
<1>6. CASE RetrySeesMark(o) \/ RetryDelivers(o) \/ RetryFails(o) \/ RetryLookupFails(o)
  <2>1. w' \in [Owners -> Local]
    BY <1>1, <1>6 DEF RetrySeesMark, RetryDelivers, RetryFails, RetryLookupFails, Local, PCs
  <2>2. effected' \subseteq Event
    BY <1>3, <1>4, <1>6 DEF RetrySeesMark, RetryDelivers, RetryFails, RetryLookupFails
  <2>3. /\ UNCHANGED <<logVars, cursor, everDead, requeues>>
        /\ UNCHANGED <<lease, fail, marks, everMarked>>
        /\ faults' = faults \/ Fault
    BY <1>6 DEF RetrySeesMark, RetryDelivers, RetryFails, RetryLookupFails, ledgerVars
  <2>4. QED
    BY <1>1, <1>3, <2>1, <2>2, <2>3, QuietType
<1>7. CASE RetryMarks(o) \/ RetryMarkFails(o)
  <2>1. w' \in [Owners -> Local]
    BY <1>1, <1>7 DEF RetryMarks, RetryMarkFails, Local, PCs
  <2>2. marks' \subseteq Event /\ everMarked' \subseteq Event
    BY <1>3, <1>4, <1>7 DEF RetryMarks, RetryMarkFails, MarkProcessed
  <2>3. /\ UNCHANGED <<logVars, cursor, everDead, requeues>>
        /\ UNCHANGED <<lease, fail, effected>>
        /\ faults' = faults \/ Fault
    BY <1>7 DEF RetryMarks, RetryMarkFails
  <2>4. QED
    BY <1>1, <1>3, <2>1, <2>2, <2>3, QuietType
<1>8. CASE RetryClears(o)
  <2>1. w' \in [Owners -> Local]
    BY <1>1, <1>8, ResumeType DEF RetryClears
  <2>2. fail' \in [Event -> Row]
    BY <1>3, <1>4, <1>8 DEF RetryClears, ClearFailure, Row, NoRow
  <2>3. QED
    BY <1>1, <1>3, <1>8, <2>1, <2>2, QuietType DEF RetryClears
<1>9. QED
  BY <1>5, <1>6, <1>7, <1>8 DEF Retry

\* Sorting the batch.
LEMMA ScanType ==
    ASSUME IInv, NEW o \in Owners, Scan(o)
    PROVE  TypeOK'
<1>1. w[o] \in Local /\ w \in [Owners -> Local] /\ TypeOK
  BY DEF IInv, TypeOK, DispatcherTypeOK
<1>2. /\ w[o].batch \subseteq Event /\ w[o].pending \subseteq Event
      /\ w[o].cur \in Event \cup {Origin}
  BY <1>1 DEF Local
<1>3. /\ fail \in [Event -> Row] /\ marks \subseteq Event
      /\ everMarked \subseteq Event /\ effected \subseteq Event
  BY <1>1 DEF TypeOK, LedgerTypeOK
<1>4. w[o].pc \in {"scanMark", "pass"} => w[o].cur \in Event
  BY <1>2 DEF IInv, DeliveryOK, IsLeast
<1>5. CASE ScanFailure(o) \/ ScanEnds(o) \/ ScanMark(o)
  <2>1. w' \in [Owners -> Local]
    <3>1. CASE ScanFailure(o)
      <4>1. PICK e \in w[o].batch :
              \/ ToChunks(o, w[o].pending)
              \/ w' = [w EXCEPT ![o].pc = "skip", ![o].cur = e]
              \/ w' = [w EXCEPT ![o].pc = "scanMark", ![o].cur = e,
                                ![o].hadRow = fail[e].attempts > 0]
        BY <3>1 DEF ScanFailure
      <4>2. (fail[e].attempts > 0) \in BOOLEAN
        BY <1>2, <1>3 DEF Row
      <4>3. QED
        BY <1>1, <1>2, <4>1, <4>2 DEF ToChunks, Local, PCs
    <3>2. CASE ScanEnds(o)
      BY <1>1, <1>2, <3>2 DEF ScanEnds, ToChunks, Local, PCs
    <3>3. CASE ScanMark(o)
      <4>1. w[o].cur \in Event
        BY <1>4, <3>3 DEF ScanMark
      <4>2. QED
        BY <1>1, <1>2, <3>3, <4>1 DEF ScanMark, ToChunks, Local, PCs
    <3>4. QED
      BY <1>5, <3>1, <3>2, <3>3
  <2>2. /\ UNCHANGED <<logVars, cursor, everDead, requeues>>
        /\ UNCHANGED <<lease, fail, marks, everMarked, effected, faults>>
    BY <1>5 DEF ScanFailure, ScanEnds, ScanMark, ledgerVars
  <2>3. QED
    BY <1>1, <1>3, <2>1, <2>2, QuietType
<1>6. CASE PassMarked(o)
  <2>1. w[o].cur \in Event
    BY <1>4, <1>6 DEF PassMarked
  <2>2. w' \in [Owners -> Local]
    BY <1>1, <1>2, <1>6, IdleGone DEF PassMarked, Local, PCs
  <2>3. cursor' \in Event \cup {Origin} /\ fail' \in [Event -> Row]
    BY <1>1, <1>6, <2>1, HeldAdvance, AdvanceType DEF PassMarked, TypeOK
  <2>4. QED
    BY <1>1, <1>6, <2>2, <2>3
       DEF PassMarked, TypeOK, LogTypeOK, LedgerTypeOK, DispatcherTypeOK, logVars
<1>7. QED
  BY <1>5, <1>6 DEF Scan

\* The error of a call goes to an event of the chunk.
LEMMA ChargeErrorType ==
    ASSUME w \in [Owners -> Local], NEW o \in Owners, ChargeError(o)
    PROVE  w' \in [Owners -> Local]
<1>1. w[o] \in Local /\ w[o].chunk \subseteq Event
  BY DEF Local
<1>2. CASE w[o].chunk \ w[o].done = {}
  BY <1>2, IdleGone DEF ChargeError
<1>3. CASE w[o].chunk \ w[o].done # {}
  <2>1. PICK e \in w[o].chunk \ w[o].done :
            w' = [w EXCEPT ![o].pc = "record", ![o].cur = e]
    BY <1>3 DEF ChargeError
  <2>2. QED
    BY <1>1, <2>1 DEF Local, PCs
<1>4. QED
  BY <1>2, <1>3

\* Delivering chunks.
LEMMA DeliverType ==
    ASSUME IInv, NEW o \in Owners, Deliver(o)
    PROVE  TypeOK'
<1>1. w[o] \in Local /\ w \in [Owners -> Local] /\ TypeOK
  BY DEF IInv, TypeOK, DispatcherTypeOK
<1>2. /\ w[o].pending \subseteq Event /\ w[o].done \subseteq Event
      /\ w[o].left \subseteq Event
  BY <1>1 DEF Local
<1>3. /\ fail \in [Event -> Row] /\ marks \subseteq Event
      /\ everMarked \subseteq Event /\ effected \subseteq Event
  BY <1>1 DEF TypeOK, LedgerTypeOK
<1>4. CASE ChunksEnd(o) \/ LostAfterMarks(o) \/ ChunkDone(o)
  <2>1. w' \in [Owners -> Local]
    <3>1. CASE ChunksEnd(o) \/ LostAfterMarks(o)
      BY <1>1, <3>1, IdleGone DEF ChunksEnd, LostAfterMarks
    <3>2. CASE ChunkDone(o) /\ w[o].err
      BY <1>1, <3>2, ChargeErrorType DEF ChunkDone
    <3>3. CASE ChunkDone(o) /\ ~w[o].err
      BY <1>1, <1>2, <3>3, IdleGone DEF ChunkDone, Local, PCs
    <3>4. QED
      BY <1>4, <3>1, <3>2, <3>3
  <2>2. /\ UNCHANGED <<logVars, cursor, everDead, requeues>>
        /\ UNCHANGED <<lease, fail, marks, everMarked, effected, faults>>
    BY <1>4 DEF ChunksEnd, LostAfterMarks, ChunkDone, ledgerVars
  <2>3. QED
    BY <1>1, <1>3, <2>1, <2>2, QuietType
<1>5. CASE ChunkLease(o) \/ RenewAfterMarks(o)
  <2>1. w' \in [Owners -> Local]
    <3>1. CASE ChunkLease(o)
      BY <1>1, <3>1 DEF ChunkLease, Local, PCs
    <3>2. CASE RenewAfterMarks(o) /\ (w[o].done # {} \/ ~w[o].err)
      BY <1>1, <3>2, IdleGone DEF RenewAfterMarks, Local, PCs
    <3>3. CASE RenewAfterMarks(o) /\ w[o].done = {} /\ w[o].err
      BY <1>1, <3>3, ChargeErrorType DEF RenewAfterMarks
    <3>4. QED
      BY <1>5, <3>1, <3>2, <3>3
  <2>2. /\ UNCHANGED <<logVars, cursor, everDead, requeues>>
        /\ UNCHANGED <<fail, marks, everMarked, effected, faults>>
        /\ \E p \in Owners : Lease(p)
    BY <1>5 DEF ChunkLease, RenewAfterMarks
  <2>3. QED
    BY <1>1, <1>3, <2>1, <2>2, QuietType
<1>6. CASE DeliverBatch(o)
  <2>1. PICK c \in SUBSET w[o].pending : \E d, s \in SUBSET c, er \in BOOLEAN :
            DeliversChunk(o, c, d, s, er)
    BY <1>6 DEF DeliverBatch
  <2>2. PICK d \in SUBSET c, s \in SUBSET c, er \in BOOLEAN :
            DeliversChunk(o, c, d, s, er)
    BY <2>1
  <2>3. w' \in [Owners -> Local] /\ effected' \subseteq Event
    <3>1. c \subseteq Event /\ d \subseteq Event /\ s \subseteq Event
      BY <1>2, <2>1, <2>2
    <3>2. QED
      BY <1>1, <1>3, <2>2, <3>1 DEF DeliversChunk, Local, PCs
  <2>4. /\ UNCHANGED <<logVars, cursor, everDead, requeues>>
        /\ UNCHANGED <<lease, fail, marks, everMarked>>
        /\ faults' = faults \/ Fault
    BY <1>6, <2>2 DEF DeliverBatch, DeliversChunk, ledgerVars
  <2>5. QED
    BY <1>1, <1>3, <2>3, <2>4, QuietType
<1>7. CASE MarkDone(o)
  <2>1. PICK e \in w[o].left : MarkProcessed(e) /\ w' = [w EXCEPT ![o].left = @ \ {e}]
    BY <1>7 DEF MarkDone
  <2>2. /\ w' \in [Owners -> Local]
        /\ marks' \subseteq Event /\ everMarked' \subseteq Event
    BY <1>1, <1>2, <1>3, <2>1 DEF Local, PCs, MarkProcessed
  <2>3. /\ UNCHANGED <<logVars, cursor, everDead, requeues>>
        /\ UNCHANGED <<lease, fail, effected, faults>>
    BY <1>7 DEF MarkDone
  <2>4. QED
    BY <1>1, <1>3, <2>2, <2>3, QuietType
<1>8. CASE ClearDone(o)
  <2>1. PICK e \in w[o].left : ClearFailure(e) /\ w' = [w EXCEPT ![o].left = @ \ {e}]
    BY <1>8 DEF ClearDone
  <2>2. w' \in [Owners -> Local] /\ fail' \in [Event -> Row]
    BY <1>1, <1>2, <1>3, <2>1 DEF Local, PCs, ClearFailure, Row, NoRow
  <2>3. /\ UNCHANGED <<logVars, cursor, everDead, requeues>>
        /\ UNCHANGED <<lease, marks, everMarked, effected, faults>>
    BY <1>8 DEF ClearDone
  <2>4. QED
    BY <1>1, <1>3, <2>2, <2>3, QuietType
<1>9. CASE AdvanceDone(o)
  <2>1. PICK e \in w[o].done :
            /\ Advance(Holds(o), e)
            /\ \/ w' = [w EXCEPT ![o].pc = "clear", ![o].left = w[o].done]
               \/ w' = [w EXCEPT ![o] = Idle]
    BY <1>9 DEF AdvanceDone
  <2>2. w' \in [Owners -> Local]
    BY <1>1, <1>2, <2>1, IdleGone DEF Local, PCs
  <2>3. cursor' \in Event \cup {Origin} /\ fail' \in [Event -> Row]
    BY <1>1, <1>2, <2>1, HeldAdvance, AdvanceType DEF TypeOK
  <2>4. QED
    BY <1>1, <1>9, <2>2, <2>3
       DEF AdvanceDone, TypeOK, LogTypeOK, LedgerTypeOK, DispatcherTypeOK, logVars
<1>10. QED
  BY <1>4, <1>5, <1>6, <1>7, <1>8, <1>9 DEF Deliver

-----------------------------------------------------------------------------
(* The inductive invariant.                                                *)

\* What a process holds for delivery stays covered while the others work.
LEMMA DeliveryStable ==
    ASSUME LogTypeOK, LogTypeOK', Grows, effected \subseteq effected',
           NEW l \in Local, CycleOK(l), DeliveryOK(l)
    PROVE  DeliveryOK(l)'
<1>1. \A e \in l.pending : CoveredBefore(e, l.pending)'
  BY CoveredStable DEF CycleOK, DeliveryOK
<1>2. \A e \in l.chunk : CoveredBefore(e, l.chunk)'
  BY CoveredStable DEF CycleOK, DeliveryOK
<1>3. QED
  BY <1>1, <1>2 DEF DeliveryOK, Grows, IsPrefix, IsLeast

\* A process that holds nothing for delivery.
LEMMA IdleDeliveryOK ==
    DeliveryOK(Idle) /\ DeliveryOK(Gone) /\ DeliveryOK(Idle)' /\ DeliveryOK(Gone)'
BY DEF DeliveryOK, Idle, Gone, IsPrefix

\* Moving to a place in the code that promises nothing about deliveries.
LEMMA SameDelivery ==
    ASSUME NEW l, NEW m, DeliveryOK(l)',
           m.pending = l.pending, m.chunk = l.chunk, m.done = l.done, m.left = l.left,
           m.pc \in {"read", "claim", "retry", "record", "look", "upsert", "bury", "skip",
                     "scan", "chunk", "deliver"}
    PROVE  DeliveryOK(m)'
BY DEF DeliveryOK

\* Moving on after a retry or a failure.
LEMMA ResumeDelivery ==
    ASSUME w \in [Owners -> Local], NEW o \in Owners, Resume(o),
           NEW l \in Local, l = w[o], DeliveryOK(l)'
    PROVE  DeliveryOK(w[o])'
<1>1. PICK m \in Local : m = w'[o] /\ (m = Idle \/ SamePlans(l, m))
  BY ResumePlace
<1>2. CASE m = Idle
  BY <1>1, <1>2, IdleDeliveryOK
<1>3. CASE SamePlans(l, m)
  BY <1>1, <1>3, SameDelivery DEF SamePlans
<1>4. QED
  BY <1>1, <1>2, <1>3

\* The shared steps of a cycle deliver nothing.
LEMMA CycleDelivery ==
    ASSUME w \in [Owners -> Local], w' \in [Owners -> Local], NEW o \in Owners, Cycle(o),
           NEW l \in Local, l = w[o], DeliveryOK(l)'
    PROVE  DeliveryOK(w[o])'
<1>1. PICK m \in Local : m = w'[o] /\ (m = Idle \/ SamePlans(l, m))
  BY CyclePlace
<1>2. CASE m = Idle
  BY <1>1, <1>2, IdleDeliveryOK
<1>3. CASE SamePlans(l, m)
  BY <1>1, <1>3, SameDelivery DEF SamePlans
<1>4. QED
  BY <1>1, <1>2, <1>3

\* The cursor stays and no row becomes dead.
LEMMA StillLedger ==
    ASSUME IInv, TypeOK', UNCHANGED <<logVars, cursor, everDead>>,
           everMarked \subseteq everMarked', marks' \subseteq everMarked',
           \A e \in Event : fail'[e].dead => fail[e].dead
    PROVE  Grows /\ LedgerOK'
<1>1. LogTypeOK /\ LogTypeOK' /\ LedgerTypeOK /\ LedgerTypeOK' /\ LedgerOK
  BY DEF IInv, TypeOK
<1>2. UNCHANGED logVars /\ cursor' = cursor /\ everDead' = everDead
  OBVIOUS
<1>3. Grows
  BY <1>1, <1>2, GrowsQuietly
<1>4. \A e \in Event : fail'[e].dead => e \in everDead'
  BY <1>1, <1>2 DEF LedgerOK
<1>5. QED
  BY <1>1, <1>2, <1>3, <1>4, LedgerStill

\* A step of one process, put together.
LEMMA OneProcess ==
    ASSUME IInv, TypeOK', Grows, LedgerOK',
           effected \subseteq effected', everMarked' \subseteq effected',
           NEW o \in Owners, CycleOK(w[o])', DeliveryOK(w[o])',
           \A p \in Owners \ {o} : w'[p] = w[p]
    PROVE  IInv'
<1>1. LogTypeOK /\ LogTypeOK' /\ LedgerTypeOK /\ LedgerTypeOK'
  BY DEF IInv, TypeOK
<1>2. ASSUME NEW p \in Owners \ {o} PROVE CycleOK(w[p])' /\ DeliveryOK(w[p])'
  <2>1. PICK l \in Local : l = w[p]
    BY DEF IInv, TypeOK, DispatcherTypeOK
  <2>2. CycleOK(l) /\ DeliveryOK(l)
    BY <2>1 DEF IInv
  <2>3. CycleOK(l)' /\ DeliveryOK(l)'
    BY <1>1, <2>2, CycleStable, DeliveryStable
  <2>4. w'[p] = l
    BY <2>1
  <2>5. QED
    BY <2>3, <2>4
<1>3. \A p \in Owners : CycleOK(w[p])' /\ DeliveryOK(w[p])'
  BY <1>2
<1>4. QED
  BY <1>3 DEF IInv

\* Delivering a requeued event again.
LEMMA RetryOK ==
    ASSUME IInv, NEW o \in Owners, Retry(o)
    PROVE  IInv'
<1>1. PICK l \in Local : l = w[o]
  BY DEF IInv, TypeOK, DispatcherTypeOK
<1>2. /\ CycleOK(l) /\ DeliveryOK(l) /\ w \in [Owners -> Local] /\ TypeOK'
      /\ everMarked \subseteq effected /\ LedgerOK
  BY <1>1, RetryType DEF IInv, TypeOK, DispatcherTypeOK
<1>3. l.pc = "retryMark" => l.cur \in effected
  BY <1>2 DEF DeliveryOK
<1>4. /\ UNCHANGED <<logVars, cursor, everDead>>
      /\ effected \subseteq effected'
      /\ everMarked \subseteq everMarked'
      /\ marks' \subseteq everMarked'
      /\ everMarked' \subseteq effected'
      /\ \A p \in Owners \ {o} : w'[p] = w[p]
  <2>1. CASE NextRetry(o, "retryDeliver") /\ UNCHANGED effected
    BY <1>2, <2>1 DEF NextRetry, LedgerOK
  <2>2. CASE RetrySeesMark(o) \/ RetryDelivers(o) \/ RetryFails(o) \/ RetryLookupFails(o)
    BY <1>2, <2>2
       DEF RetrySeesMark, RetryDelivers, RetryFails, RetryLookupFails, ledgerVars, LedgerOK
  <2>3. CASE RetryMarks(o) \/ RetryMarkFails(o)
    BY <1>1, <1>2, <1>3, <2>3 DEF RetryMarks, RetryMarkFails, MarkProcessed, LedgerOK
  <2>4. CASE RetryClears(o)
    BY <1>2, <2>4 DEF RetryClears, Resume, LedgerOK
  <2>5. QED
    BY <2>1, <2>2, <2>3, <2>4 DEF Retry
<1>5. \A e \in Event : fail'[e].dead => fail[e].dead
  <2>1. CASE RetryClears(o)
    BY <2>1 DEF RetryClears, ClearFailure, NoRow, IInv, TypeOK, LedgerTypeOK
  <2>2. CASE ~RetryClears(o)
    BY <2>2 DEF Retry, NextRetry, RetrySeesMark, RetryDelivers, RetryFails, RetryMarks,
                RetryLookupFails, RetryMarkFails, ledgerVars
  <2>3. QED
    BY <2>1, <2>2
<1>6. Grows /\ LedgerOK'
  BY <1>2, <1>4, <1>5, StillLedger
<1>7. CycleOK(l)' /\ DeliveryOK(l)'
  BY <1>2, <1>4, <1>6, CycleStable, DeliveryStable DEF IInv, TypeOK
<1>8. CycleOK(w[o])' /\ DeliveryOK(w[o])'
  <2>1. CASE NextRetry(o, "retryDeliver")
    <3>1. PICK e \in l.retries : w' = [w EXCEPT ![o].pc = "retryDeliver", ![o].cur = e]
      BY <1>1, <2>1 DEF NextRetry
    <3>2. PICK m : m = [l EXCEPT !.pc = "retryDeliver", !.cur = e]
      OBVIOUS
    <3>3. w'[o] = m
      BY <1>1, <1>2, <3>1, <3>2
    <3>4. CycleOK(m)'
      BY <1>7, <3>2 DEF CycleOK, Local
    <3>5. DeliveryOK(m)'
      BY <1>7, <3>1, <3>2 DEF DeliveryOK, Local
    <3>6. QED
      BY <3>3, <3>4, <3>5
  <2>2. CASE RetrySeesMark(o) \/ RetryMarks(o)
    <3>1. PICK m : m = [l EXCEPT !.pc = "retryClear"]
      OBVIOUS
    <3>2. w'[o] = m /\ l.pc \in {"retryDeliver", "retryMark"}
      BY <1>1, <1>2, <2>2, <3>1 DEF RetrySeesMark, RetryMarks
    <3>3. CycleOK(m)'
      BY <1>7, <3>1 DEF CycleOK, Local
    <3>4. DeliveryOK(m)'
      BY <1>7, <3>1, <3>2 DEF DeliveryOK, Local
    <3>5. QED
      BY <3>2, <3>3, <3>4
  <2>3. CASE RetryDelivers(o)
    <3>1. PICK m : m = [l EXCEPT !.pc = "retryMark"]
      OBVIOUS
    <3>2. w'[o] = m /\ l.pc = "retryDeliver" /\ l.cur \in effected'
      BY <1>1, <1>2, <2>3, <3>1 DEF RetryDelivers
    <3>3. CycleOK(m)'
      BY <1>7, <3>1 DEF CycleOK, Local
    <3>4. DeliveryOK(m)'
      BY <1>7, <3>1, <3>2 DEF DeliveryOK, Local
    <3>5. QED
      BY <3>2, <3>3, <3>4
  <2>4. CASE RetryFails(o) \/ RetryLookupFails(o) \/ RetryMarkFails(o)
    <3>1. PICK m : m = [l EXCEPT !.pc = "record"]
      OBVIOUS
    <3>2. w'[o] = m /\ l.pc \in {"retryDeliver", "retryMark"}
      BY <1>1, <1>2, <2>4, <3>1 DEF RetryFails, RetryLookupFails, RetryMarkFails
    <3>3. l.cur \in l.retries
      BY <1>2, <3>2 DEF DeliveryOK
    <3>4. l.cur \in log /\ l.cur \preceq cursor
      BY <1>2, <3>3 DEF CycleOK
    <3>5. Settled(l.cur.xact) /\ CoveredBefore(l.cur, {})
      BY <1>2, <3>4, RetryCovered DEF IInv, TypeOK
    <3>6. m \in Local /\ CycleOK(m)
      BY <1>2, <3>1, <3>4, <3>5 DEF CycleOK, Local, PCs
    <3>7. CycleOK(m)'
      BY <1>2, <1>6, <3>6, CycleStable DEF IInv, TypeOK
    <3>8. DeliveryOK(m)'
      BY <1>7, <3>1 DEF DeliveryOK, Local
    <3>9. QED
      BY <3>2, <3>7, <3>8
  <2>5. CASE RetryClears(o)
    BY <1>1, <1>2, <1>7, <2>5, ResumeOK, ResumeDelivery DEF RetryClears
  <2>6. QED
    BY <2>1, <2>2, <2>3, <2>4, <2>5 DEF Retry
<1>9. QED
  BY <1>2, <1>4, <1>6, <1>8, OneProcess

\* Sorting the batch.
LEMMA ScanOK ==
    ASSUME IInv, NEW o \in Owners, Scan(o)
    PROVE  IInv'
<1>1. PICK l \in Local : l = w[o]
  BY DEF IInv, TypeOK, DispatcherTypeOK
<1>2. /\ CycleOK(l) /\ DeliveryOK(l) /\ w \in [Owners -> Local] /\ TypeOK'
      /\ everMarked \subseteq effected /\ LedgerOK /\ LogTypeOK
  BY <1>1, ScanType DEF IInv, TypeOK, DispatcherTypeOK
<1>3. l.pc \in {"scanMark", "pass"} => IsLeast(l.cur, l.batch)
  BY <1>2 DEF DeliveryOK
<1>4. /\ UNCHANGED <<logVars, everDead>> /\ UNCHANGED <<marks, everMarked>>
      /\ effected' = effected
      /\ \A p \in Owners \ {o} : w'[p] = w[p]
  BY <1>2 DEF Scan, ScanFailure, ScanEnds, ScanMark, PassMarked, ToChunks, ledgerVars
<1>5. ASSUME NEW m \in Local, CycleOK(m), DeliveryOK(m), w'[o] = m, Grows, LedgerOK'
      PROVE  IInv'
  <2>1. CycleOK(m)' /\ DeliveryOK(m)'
    BY <1>2, <1>4, <1>5, CycleStable, DeliveryStable DEF IInv, TypeOK
  <2>2. everMarked' \subseteq effected' /\ effected \subseteq effected'
    BY <1>2, <1>4
  <2>3. QED
    BY <1>2, <1>4, <1>5, <2>1, <2>2, OneProcess
<1>6. ASSUME ScanFailure(o) \/ ScanEnds(o) \/ ScanMark(o)
      PROVE  Grows /\ LedgerOK'
  <2>1. UNCHANGED <<logVars, cursor, everDead>> /\ UNCHANGED <<fail, marks, everMarked>>
    BY <1>6 DEF ScanFailure, ScanEnds, ScanMark, ledgerVars
  <2>2. QED
    BY <1>2, <2>1, StillLedger DEF LedgerOK
<1>7. ASSUME ToChunks(o, l.pending), Grows, LedgerOK' PROVE IInv'
  <2>1. PICK m : m = [l EXCEPT !.pc = "chunk", !.batch = {}]
    OBVIOUS
  <2>2. w'[o] = m
    BY <1>1, <1>2, <1>7, <2>1 DEF ToChunks, Local
  <2>3. m \in Local
    BY <2>1 DEF Local, PCs
  <2>4. CycleOK(m)
    BY <1>2, <2>1 DEF CycleOK, Local
  <2>5. DeliveryOK(m)
    BY <1>2, <2>1 DEF DeliveryOK, Local
  <2>6. QED
    BY <1>5, <1>7, <2>2, <2>3, <2>4, <2>5
<1>8. CASE ScanFailure(o)
  <2>1. PICK e \in l.batch :
          /\ IsLeast(e, l.batch)
          /\ \/ ToChunks(o, l.pending)
             \/ /\ fail[e].dead /\ l.pending = {}
                /\ w' = [w EXCEPT ![o].pc = "skip", ![o].cur = e]
             \/ w' = [w EXCEPT ![o].pc = "scanMark", ![o].cur = e,
                               ![o].hadRow = fail[e].attempts > 0]
    BY <1>1, <1>8 DEF ScanFailure
  <2>2. e \in Event
    BY <1>2, <2>1, LeastCovered
  <2>3. CASE ToChunks(o, l.pending)
    BY <1>6, <1>7, <1>8, <2>3
  <2>4. CASE /\ fail[e].dead /\ l.pending = {}
             /\ w' = [w EXCEPT ![o].pc = "skip", ![o].cur = e]
    <3>1. PICK m : m = [l EXCEPT !.pc = "skip", !.cur = e]
      OBVIOUS
    <3>2. w'[o] = m /\ e \in everDead
      BY <1>1, <1>2, <2>2, <2>4, <3>1 DEF LedgerOK
    <3>3. m \in Local
      BY <2>2, <3>1 DEF Local, PCs
    <3>4. CycleOK(m)
      <4>1. /\ m.batch = l.batch /\ m.pending = {} /\ l.pending = {}
            /\ m.retries = l.retries /\ m.cur = e /\ m.pc = "skip"
            /\ IsLeast(e, l.batch)
        BY <2>1, <2>4, <3>1 DEF Local
      <4>2. QED
        BY <1>2, <3>2, <4>1 DEF CycleOK
    <3>5. DeliveryOK(m)
      BY <1>2, <3>1 DEF DeliveryOK, Local
    <3>6. QED
      BY <1>5, <1>6, <1>8, <3>2, <3>3, <3>4, <3>5
  <2>5. CASE w' = [w EXCEPT ![o].pc = "scanMark", ![o].cur = e,
                            ![o].hadRow = fail[e].attempts > 0]
    <3>1. PICK m : m = [l EXCEPT !.pc = "scanMark", !.cur = e,
                                 !.hadRow = fail[e].attempts > 0]
      OBVIOUS
    <3>2. w'[o] = m
      BY <1>1, <1>2, <2>5, <3>1
    <3>3. m \in Local
      <4>1. (fail[e].attempts > 0) \in BOOLEAN
        BY <2>2 DEF IInv, TypeOK, LedgerTypeOK, Row
      <4>2. QED
        BY <2>2, <3>1, <4>1 DEF Local, PCs
    <3>4. CycleOK(m)
      BY <1>2, <3>1 DEF CycleOK, Local
    <3>5. DeliveryOK(m)
      BY <1>2, <2>1, <3>1 DEF DeliveryOK, Local
    <3>6. QED
      BY <1>5, <1>6, <1>8, <3>2, <3>3, <3>4, <3>5
  <2>6. QED
    BY <2>1, <2>3, <2>4, <2>5
<1>9. CASE ScanEnds(o)
  BY <1>1, <1>6, <1>7, <1>9 DEF ScanEnds
<1>10. CASE ScanMark(o)
  <2>1. IsLeast(l.cur, l.batch) /\ l.pc = "scanMark"
    BY <1>1, <1>3, <1>10 DEF ScanMark
  <2>2. /\ l.cur \in log /\ l.cur \in Event /\ Settled(l.cur.xact)
        /\ CoveredBefore(l.cur, l.pending) /\ l.cur \in l.batch
    BY <1>2, <2>1, LeastCovered DEF IsLeast
  <2>3. \/ ToChunks(o, l.pending)
        \/ /\ l.cur \in marks /\ l.pending = {}
           /\ w' = [w EXCEPT ![o].pc = "pass"]
        \/ l.pending = {} /\ ToChunks(o, {l.cur})
        \/ w' = [w EXCEPT ![o].pc = "scan", ![o].batch = @ \ {l.cur},
                          ![o].pending = @ \cup {l.cur}]
    BY <1>1, <1>10 DEF ScanMark
  <2>4. CASE ToChunks(o, l.pending)
    BY <1>6, <1>7, <1>10, <2>4
  <2>5. CASE /\ l.cur \in marks /\ l.pending = {}
             /\ w' = [w EXCEPT ![o].pc = "pass"]
    <3>1. PICK m : m = [l EXCEPT !.pc = "pass"]
      OBVIOUS
    <3>2. w'[o] = m /\ l.cur \in everMarked
      BY <1>1, <1>2, <2>5, <3>1 DEF LedgerOK
    <3>3. m \in Local
      BY <3>1 DEF Local, PCs
    <3>4. CycleOK(m)
      BY <1>2, <3>1 DEF CycleOK, Local
    <3>5. DeliveryOK(m)
      BY <1>2, <2>1, <2>5, <3>1, <3>2 DEF DeliveryOK, Local
    <3>6. QED
      BY <1>5, <1>6, <1>10, <3>2, <3>3, <3>4, <3>5
  <2>6. CASE l.pending = {} /\ ToChunks(o, {l.cur})
    <3>1. PICK m : m = [l EXCEPT !.pc = "chunk", !.batch = {}, !.pending = {l.cur}]
      OBVIOUS
    <3>2. w'[o] = m
      BY <1>1, <1>2, <2>6, <3>1 DEF ToChunks
    <3>3. m \in Local
      BY <2>2, <3>1 DEF Local, PCs
    <3>4. CycleOK(m)
      BY <1>2, <2>2, <3>1 DEF CycleOK, Local
    <3>5. CoveredBefore(l.cur, {l.cur})
      BY <2>2, <2>6 DEF CoveredBefore
    <3>6. DeliveryOK(m)
      BY <1>2, <2>6, <3>1, <3>5 DEF DeliveryOK, Local
    <3>7. QED
      BY <1>5, <1>6, <1>10, <3>2, <3>3, <3>4, <3>6
  <2>7. CASE w' = [w EXCEPT ![o].pc = "scan", ![o].batch = @ \ {l.cur},
                            ![o].pending = @ \cup {l.cur}]
    <3>1. PICK m : m = [l EXCEPT !.pc = "scan", !.batch = l.batch \ {l.cur},
                                 !.pending = l.pending \cup {l.cur}]
      OBVIOUS
    <3>2. w'[o] = m
      BY <1>1, <1>2, <2>7, <3>1
    <3>3. m \in Local
      BY <2>2, <3>1 DEF Local, PCs
    <3>4. m.batch \cup m.pending = l.batch \cup l.pending
      BY <2>2, <3>1 DEF Local
    <3>5. CycleOK(m)
      BY <1>2, <3>1, <3>4 DEF CycleOK, Local
    <3>6. \A e \in m.pending : CoveredBefore(e, m.pending)
      BY <1>2, <2>2, <3>1 DEF DeliveryOK, CoveredBefore, Local
    <3>7. DeliveryOK(m)
      BY <1>2, <3>1, <3>6 DEF DeliveryOK, Local
    <3>8. QED
      BY <1>5, <1>6, <1>10, <3>2, <3>3, <3>5, <3>7
  <2>8. QED
    BY <2>3, <2>4, <2>5, <2>6, <2>7
<1>11. CASE PassMarked(o)
  <2>1. IsLeast(l.cur, l.batch) /\ l.pending = {} /\ l.cur \in everMarked
    BY <1>1, <1>2, <1>11 DEF PassMarked, DeliveryOK
  <2>2. PICK e \in Event : e = l.cur
    BY <1>2, <2>1, LeastCovered
  <2>3. CoveredBefore(e, {}) /\ e \in Resolved
    BY <1>2, <2>1, <2>2, LeastCovered DEF Resolved
  <2>4. Advance(Holds(o), e)
    BY <1>1, <1>11, <2>2 DEF PassMarked
  <2>5. Grows /\ LedgerOK'
    BY <1>2, <1>4, <2>3, <2>4, HeldAdvance, AdvanceOK DEF IInv, TypeOK
  <2>6. CASE w' = [w EXCEPT ![o] = Idle]
    BY <1>2, <1>5, <2>5, <2>6, IdleGone, IdleCycleOK, IdleDeliveryOK
  <2>7. CASE w' = [w EXCEPT ![o].pc = "scan", ![o].batch = @ \ {l.cur}]
    <3>1. PICK m : m = [l EXCEPT !.pc = "scan", !.batch = l.batch \ {l.cur}]
      OBVIOUS
    <3>2. w'[o] = m
      BY <1>1, <1>2, <2>7, <3>1
    <3>3. m \in Local
      BY <3>1 DEF Local, PCs
    <3>4. CycleOK(m)
      BY <1>2, <2>1, <2>2, <2>3, <3>1 DEF CycleOK, CoveredBefore, Local
    <3>5. DeliveryOK(m)
      BY <1>2, <3>1 DEF DeliveryOK, Local
    <3>6. QED
      BY <1>5, <2>5, <3>2, <3>3, <3>4, <3>5
  <2>8. QED
    BY <1>1, <1>11, <2>6, <2>7 DEF PassMarked
<1>12. QED
  BY <1>8, <1>9, <1>10, <1>11 DEF Scan

\* The first event that is not done has nothing open before it.
LEMMA ChargedCovered ==
    ASSUME LogTypeOK, NEW l \in Local, CycleOK(l), DeliveryOK(l),
           l.done \subseteq everMarked, NEW e, IsLeast(e, l.chunk \ l.done)
    PROVE  e \in log /\ e \in Event /\ Settled(e.xact) /\ CoveredBefore(e, {})
<1>1. e \in l.chunk /\ e \in log /\ e \in Event /\ Settled(e.xact)
  BY DEF IsLeast, CycleOK, DeliveryOK, LogTypeOK
<1>2. ASSUME NEW f \in log, f \prec e PROVE f \in Resolved
  <2>1. f \in Event /\ f \in Resolved \cup l.chunk
    BY <1>1, <1>2 DEF DeliveryOK, CoveredBefore, LogTypeOK
  <2>2. f \notin l.chunk \ l.done
    BY <1>1, <1>2, <2>1, PositionOrder DEF IsLeast
  <2>3. QED
    BY <2>1, <2>2 DEF Resolved
<1>3. QED
  BY <1>1, <1>2 DEF CoveredBefore

\* The last event done and all before it are resolved.
LEMMA DoneCovered ==
    ASSUME LogTypeOK, NEW l \in Local, CycleOK(l), DeliveryOK(l),
           l.done \subseteq everMarked, NEW e \in l.done
    PROVE  e \in log /\ e \in Event /\ CoveredBefore(e, {}) /\ e \in Resolved
<1>1. e \in l.chunk /\ e \in log /\ e \in Event /\ e \in Resolved
  BY DEF CycleOK, DeliveryOK, IsPrefix, LogTypeOK, Resolved
<1>2. ASSUME NEW f \in log, f \prec e PROVE f \in Resolved
  <2>1. f \in Event /\ f \in Resolved \cup l.chunk
    BY <1>1, <1>2 DEF DeliveryOK, CoveredBefore, LogTypeOK
  <2>2. f \in l.chunk => f \in l.done
    BY <1>1, <1>2, <2>1, PositionOrder DEF DeliveryOK, IsPrefix
  <2>3. QED
    BY <2>1, <2>2 DEF Resolved
<1>3. QED
  BY <1>1, <1>2 DEF CoveredBefore

\* Charging the error of a call once what it did report is marked.
LEMMA ChargeErrorOK ==
    ASSUME IInv, LogTypeOK', LedgerTypeOK', Grows, effected \subseteq effected',
           NEW o \in Owners, NEW l \in Local, l = w[o], l.done \subseteq everMarked,
           ChargeError(o)
    PROVE  CycleOK(w[o])' /\ DeliveryOK(w[o])'
<1>1. /\ CycleOK(l) /\ DeliveryOK(l) /\ w \in [Owners -> Local]
      /\ LogTypeOK /\ LedgerTypeOK
  BY DEF IInv, TypeOK, DispatcherTypeOK
<1>2. CASE w' = [w EXCEPT ![o] = Idle]
  <2>1. w'[o] = Idle
    BY <1>1, <1>2
  <2>2. QED
    BY <2>1, IdleCycleOK, IdleDeliveryOK
<1>3. CASE \E e \in l.chunk \ l.done :
              /\ IsLeast(e, l.chunk \ l.done)
              /\ w' = [w EXCEPT ![o].pc = "record", ![o].cur = e]
  <2>1. PICK e \in l.chunk \ l.done :
              /\ IsLeast(e, l.chunk \ l.done)
              /\ w' = [w EXCEPT ![o].pc = "record", ![o].cur = e]
    BY <1>3
  <2>2. e \in log /\ e \in Event /\ Settled(e.xact) /\ CoveredBefore(e, {})
    BY <1>1, <2>1, ChargedCovered
  <2>3. PICK m : m = [l EXCEPT !.pc = "record", !.cur = e]
    OBVIOUS
  <2>4. w'[o] = m
    BY <1>1, <2>1, <2>3
  <2>5. m \in Local
    BY <2>2, <2>3 DEF Local, PCs
  <2>6. CycleOK(m)
    <3>1. /\ m.batch = l.batch /\ m.pending = l.pending /\ m.retries = l.retries
          /\ m.pc = "record" /\ m.cur = e
      BY <2>3 DEF Local
    <3>2. QED
      BY <1>1, <2>2, <3>1 DEF CycleOK
  <2>7. DeliveryOK(m)
    BY <1>1, <2>3 DEF DeliveryOK, Local
  <2>8. CycleOK(m)' /\ DeliveryOK(m)'
    BY <1>1, <2>5, <2>6, <2>7, CycleStable, DeliveryStable
  <2>9. QED
    BY <2>4, <2>8
<1>4. QED
  BY <1>2, <1>3 DEF ChargeError

\* Delivering chunks.
LEMMA DeliverOK ==
    ASSUME IInv, NEW o \in Owners, Deliver(o)
    PROVE  IInv'
<1>1. PICK l \in Local : l = w[o]
  BY DEF IInv, TypeOK, DispatcherTypeOK
<1>2. /\ CycleOK(l) /\ DeliveryOK(l) /\ w \in [Owners -> Local] /\ TypeOK'
      /\ everMarked \subseteq effected /\ LedgerOK /\ TypeOK
  BY <1>1, DeliverType DEF IInv, TypeOK, DispatcherTypeOK
<1>3. LogTypeOK /\ LogTypeOK' /\ LedgerTypeOK /\ LedgerTypeOK'
  BY <1>2 DEF TypeOK
<1>4. l.left \subseteq l.done /\ l.done \subseteq effected
  BY <1>2 DEF DeliveryOK
<1>5. ASSUME UNCHANGED <<logVars, cursor, everDead>>,
             UNCHANGED <<marks, everMarked>>, effected \subseteq effected',
             \A e \in Event : fail'[e].dead => fail[e].dead,
             \A p \in Owners \ {o} : w'[p] = w[p],
             CycleOK(l)' /\ DeliveryOK(l)' => CycleOK(w[o])' /\ DeliveryOK(w[o])'
      PROVE  IInv'
  <2>1. marks' \subseteq everMarked' /\ everMarked' \subseteq effected'
    BY <1>2, <1>5 DEF LedgerOK
  <2>2. Grows /\ LedgerOK'
    BY <1>2, <1>5, <2>1, StillLedger
  <2>3. CycleOK(l)' /\ DeliveryOK(l)'
    BY <1>2, <1>3, <1>5, <2>2, CycleStable, DeliveryStable
  <2>4. QED
    BY <1>2, <1>5, <2>1, <2>2, <2>3, OneProcess
<1>6. ASSUME w'[o] = Idle PROVE CycleOK(w[o])' /\ DeliveryOK(w[o])'
  BY <1>6, IdleCycleOK, IdleDeliveryOK
<1>7. CASE ChunksEnd(o) \/ LostAfterMarks(o)
  <2>1. /\ UNCHANGED <<logVars, cursor, everDead>> /\ UNCHANGED <<marks, everMarked>>
        /\ effected' = effected /\ fail' = fail /\ w' = [w EXCEPT ![o] = Idle]
    BY <1>7 DEF ChunksEnd, LostAfterMarks, ledgerVars
  <2>2. w'[o] = Idle /\ \A p \in Owners \ {o} : w'[p] = w[p]
    BY <1>2, <2>1
  <2>3. QED
    BY <1>5, <1>6, <2>1, <2>2
<1>8. CASE ChunkLease(o)
  <2>1. /\ UNCHANGED <<logVars, cursor, everDead>> /\ UNCHANGED <<marks, everMarked>>
        /\ effected' = effected /\ fail' = fail /\ w' = [w EXCEPT ![o].pc = "deliver"]
    BY <1>8 DEF ChunkLease
  <2>2. PICK m : m = [l EXCEPT !.pc = "deliver"]
    OBVIOUS
  <2>3. w'[o] = m /\ \A p \in Owners \ {o} : w'[p] = w[p]
    BY <1>1, <1>2, <2>1, <2>2
  <2>4. CycleOK(l)' => CycleOK(m)'
    BY <2>2 DEF CycleOK, Local
  <2>5. DeliveryOK(l)' => DeliveryOK(m)'
    BY <2>2 DEF DeliveryOK, Local
  <2>6. QED
    BY <1>5, <2>1, <2>3, <2>4, <2>5
<1>9. CASE DeliverBatch(o)
  <2>1. PICK c \in SUBSET l.pending : \E d, s \in SUBSET c, er \in BOOLEAN :
            DeliversChunk(o, c, d, s, er)
    BY <1>1, <1>9 DEF DeliverBatch
  <2>2. PICK d \in SUBSET c, s \in SUBSET c, er \in BOOLEAN :
            DeliversChunk(o, c, d, s, er)
    BY <2>1
  <2>3. /\ UNCHANGED <<logVars, cursor, everDead>> /\ UNCHANGED <<marks, everMarked>>
        /\ fail' = fail
    BY <1>9 DEF DeliverBatch, ledgerVars
  <2>4. /\ effected \subseteq effected' /\ d \subseteq effected'
        /\ IsPrefix(c, l.pending) /\ IsPrefix(d, c)
        /\ w' = [w EXCEPT ![o].pc = "mark", ![o].chunk = c, ![o].done = d,
                          ![o].left = d, ![o].err = er]
    BY <1>1, <2>2 DEF DeliversChunk, IsLimited
  <2>5. PICK m : m = [l EXCEPT !.pc = "mark", !.chunk = c, !.done = d,
                               !.left = d, !.err = er]
    OBVIOUS
  <2>6. w'[o] = m /\ \A p \in Owners \ {o} : w'[p] = w[p]
    BY <1>1, <1>2, <2>4, <2>5
  <2>7. \A e \in c : CoveredBefore(e, c)
    <3>1. TAKE e \in c
    <3>2. e \in Event /\ CoveredBefore(e, l.pending)
      BY <1>2, <1>3, <2>1 DEF DeliveryOK, CycleOK, LogTypeOK
    <3>3. ASSUME NEW f \in log, f \prec e PROVE f \in Resolved \cup c
      <4>1. f \in Event /\ f \in Resolved \cup l.pending
        BY <1>3, <3>2, <3>3 DEF CoveredBefore, LogTypeOK
      <4>2. f \in l.pending => f \in c
        BY <2>4, <3>2, <3>3, <4>1, PositionOrder DEF IsPrefix
      <4>3. QED
        BY <4>1, <4>2
    <3>4. QED
      BY <3>3 DEF CoveredBefore
  <2>8. \A e \in c : CoveredBefore(e, c)'
    BY <2>3, <2>7 DEF CoveredBefore, Resolved, logVars
  <2>9. CycleOK(l)' => CycleOK(m)'
    BY <2>5 DEF CycleOK, Local
  <2>10. DeliveryOK(l)' => DeliveryOK(m)'
    <3>1. /\ m.pending = l.pending /\ m.chunk = c /\ m.done = d /\ m.left = d
          /\ m.pc = "mark"
      BY <2>5 DEF Local
    <3>2. QED
      BY <2>1, <2>4, <2>8, <3>1 DEF DeliveryOK, IsPrefix
  <2>11. QED
    BY <1>5, <2>3, <2>4, <2>6, <2>9, <2>10
<1>10. CASE MarkDone(o)
  <2>1. PICK e \in l.left : MarkProcessed(e) /\ w' = [w EXCEPT ![o].left = @ \ {e}]
    BY <1>1, <1>10 DEF MarkDone
  <2>2. /\ UNCHANGED <<logVars, cursor, everDead>> /\ fail' = fail
        /\ effected' = effected /\ l.pc = "mark"
    BY <1>1, <1>10 DEF MarkDone
  <2>3. /\ everMarked' = everMarked \cup {e} /\ marks' = marks \cup {e}
        /\ e \in effected
    BY <1>4, <2>1 DEF MarkProcessed
  <2>4. /\ everMarked \subseteq everMarked' /\ marks' \subseteq everMarked'
        /\ everMarked' \subseteq effected'
    BY <1>2, <2>2, <2>3 DEF LedgerOK
  <2>5. Grows /\ LedgerOK'
    BY <1>2, <2>2, <2>4, StillLedger
  <2>6. CycleOK(l)' /\ DeliveryOK(l)'
    BY <1>2, <1>3, <2>2, <2>5, CycleStable, DeliveryStable
  <2>7. PICK m : m = [l EXCEPT !.left = l.left \ {e}]
    OBVIOUS
  <2>8. w'[o] = m /\ \A p \in Owners \ {o} : w'[p] = w[p]
    BY <1>1, <1>2, <2>1, <2>7
  <2>9. CycleOK(m)'
    BY <2>6, <2>7 DEF CycleOK, Local
  <2>10. DeliveryOK(m)'
    <3>1. /\ m.pending = l.pending /\ m.chunk = l.chunk /\ m.done = l.done
          /\ m.left = l.left \ {e} /\ m.pc = "mark"
      BY <2>2, <2>7 DEF Local
    <3>2. m.done \ m.left \subseteq everMarked'
      BY <2>2, <2>3, <2>6, <3>1 DEF DeliveryOK
    <3>3. QED
      BY <2>6, <3>1, <3>2 DEF DeliveryOK
  <2>11. QED
    BY <1>2, <2>2, <2>4, <2>5, <2>8, <2>9, <2>10, OneProcess
<1>11. CASE RenewAfterMarks(o)
  <2>1. /\ UNCHANGED <<logVars, cursor, everDead>> /\ UNCHANGED <<marks, everMarked>>
        /\ effected' = effected /\ fail' = fail /\ l.pc = "mark" /\ l.left = {}
    BY <1>1, <1>11 DEF RenewAfterMarks
  <2>2. l.done \subseteq everMarked
    BY <1>2, <2>1 DEF DeliveryOK
  <2>3. \A p \in Owners \ {o} : w'[p] = w[p]
    BY <1>2, <1>11 DEF RenewAfterMarks, ChargeError
  <2>4. Grows
    BY <1>2, <2>1, StillLedger DEF LedgerOK
  <2>5. CASE w' = [w EXCEPT ![o].pc = "advance"]
    <3>1. PICK m : m = [l EXCEPT !.pc = "advance"]
      OBVIOUS
    <3>2. w'[o] = m
      BY <1>1, <1>2, <2>5, <3>1
    <3>3. CycleOK(l)' => CycleOK(m)'
      BY <3>1 DEF CycleOK, Local
    <3>4. DeliveryOK(l)' => DeliveryOK(m)'
      BY <2>1, <2>2, <3>1 DEF DeliveryOK, Local
    <3>5. QED
      BY <1>5, <2>1, <2>3, <3>2, <3>3, <3>4
  <2>6. CASE ChargeError(o)
    <3>1. CycleOK(w[o])' /\ DeliveryOK(w[o])'
      BY <1>1, <1>3, <2>1, <2>2, <2>4, <2>6, ChargeErrorOK
    <3>2. QED
      BY <1>5, <2>1, <2>3, <3>1
  <2>7. CASE w' = [w EXCEPT ![o] = Idle]
    BY <1>2, <1>5, <1>6, <2>1, <2>3, <2>7
  <2>8. QED
    BY <1>11, <2>5, <2>6, <2>7 DEF RenewAfterMarks
<1>12. CASE AdvanceDone(o)
  <2>1. PICK e \in l.done :
            /\ Advance(Holds(o), e)
            /\ \/ w' = [w EXCEPT ![o].pc = "clear", ![o].left = l.done]
               \/ w' = [w EXCEPT ![o] = Idle]
    BY <1>1, <1>12 DEF AdvanceDone
  <2>2. /\ UNCHANGED <<logVars, marks, everMarked, everDead>>
        /\ effected' = effected /\ l.pc = "advance"
    BY <1>1, <1>12 DEF AdvanceDone
  <2>3. l.done \subseteq everMarked
    BY <1>2, <2>2 DEF DeliveryOK
  <2>4. e \in Event /\ CoveredBefore(e, {}) /\ e \in Resolved
    BY <1>2, <1>3, <2>1, <2>3, DoneCovered
  <2>5. Grows /\ LedgerOK'
    BY <1>2, <1>3, <2>1, <2>2, <2>4, HeldAdvance, AdvanceOK
  <2>6. CycleOK(l)' /\ DeliveryOK(l)'
    BY <1>2, <1>3, <2>2, <2>5, CycleStable, DeliveryStable
  <2>7. CycleOK(w[o])' /\ DeliveryOK(w[o])'
    <3>1. CASE w' = [w EXCEPT ![o] = Idle]
      BY <1>2, <1>6, <3>1
    <3>2. CASE w' = [w EXCEPT ![o].pc = "clear", ![o].left = l.done]
      <4>1. PICK m : m = [l EXCEPT !.pc = "clear", !.left = l.done]
        OBVIOUS
      <4>2. w'[o] = m
        BY <1>1, <1>2, <3>2, <4>1
      <4>3. CycleOK(m)'
        BY <2>6, <4>1 DEF CycleOK, Local
      <4>4. DeliveryOK(m)'
        BY <2>2, <2>3, <2>6, <4>1 DEF DeliveryOK, Local
      <4>5. QED
        BY <4>2, <4>3, <4>4
    <3>3. QED
      BY <2>1, <3>1, <3>2
  <2>8. \A p \in Owners \ {o} : w'[p] = w[p]
    BY <1>2, <2>1
  <2>9. everMarked' \subseteq effected' /\ effected \subseteq effected'
    BY <1>2, <2>2
  <2>10. QED
    BY <1>2, <2>5, <2>7, <2>8, <2>9, OneProcess
<1>13. CASE ClearDone(o)
  <2>1. PICK e \in l.left : ClearFailure(e) /\ w' = [w EXCEPT ![o].left = @ \ {e}]
    BY <1>1, <1>13 DEF ClearDone
  <2>2. /\ UNCHANGED <<logVars, cursor, everDead>> /\ UNCHANGED <<marks, everMarked>>
        /\ effected' = effected /\ l.pc = "clear"
    BY <1>1, <1>13 DEF ClearDone
  <2>3. \A f \in Event : fail'[f].dead => fail[f].dead
    BY <1>3, <2>1 DEF ClearFailure, NoRow, LedgerTypeOK
  <2>4. PICK m : m = [l EXCEPT !.left = l.left \ {e}]
    OBVIOUS
  <2>5. w'[o] = m /\ \A p \in Owners \ {o} : w'[p] = w[p]
    BY <1>1, <1>2, <2>1, <2>4
  <2>6. CycleOK(l)' => CycleOK(m)'
    BY <2>4 DEF CycleOK, Local
  <2>7. DeliveryOK(l)' => DeliveryOK(m)'
    BY <2>2, <2>4 DEF DeliveryOK, Local
  <2>8. QED
    BY <1>5, <2>2, <2>3, <2>5, <2>6, <2>7
<1>14. CASE ChunkDone(o)
  <2>1. /\ UNCHANGED <<logVars, cursor, everDead>> /\ UNCHANGED <<marks, everMarked>>
        /\ effected' = effected /\ fail' = fail /\ l.pc = "clear" /\ l.left = {}
    BY <1>1, <1>14 DEF ChunkDone, ledgerVars
  <2>2. l.done \subseteq everMarked
    BY <1>2, <2>1 DEF DeliveryOK
  <2>3. \A p \in Owners \ {o} : w'[p] = w[p]
    BY <1>2, <1>14 DEF ChunkDone, ChargeError
  <2>4. Grows
    BY <1>2, <2>1, StillLedger DEF LedgerOK
  <2>5. CASE ChargeError(o)
    <3>1. CycleOK(w[o])' /\ DeliveryOK(w[o])'
      BY <1>1, <1>3, <2>1, <2>2, <2>4, <2>5, ChargeErrorOK
    <3>2. QED
      BY <1>5, <2>1, <2>3, <3>1
  <2>6. CASE w' = [w EXCEPT ![o] = Idle]
    BY <1>2, <1>5, <1>6, <2>1, <2>3, <2>6
  <2>7. CASE w' = [w EXCEPT ![o].pc = "chunk", ![o].pending = @ \ w[o].done,
                            ![o].chunk = {}, ![o].done = {}]
    <3>1. PICK m : m = [l EXCEPT !.pc = "chunk", !.pending = l.pending \ l.done,
                                 !.chunk = {}, !.done = {}]
      OBVIOUS
    <3>2. w'[o] = m
      BY <1>1, <1>2, <2>7, <3>1
    <3>3. /\ m.batch = l.batch /\ m.pending = l.pending \ l.done /\ m.chunk = {}
          /\ m.done = {} /\ m.left = {} /\ m.pc = "chunk" /\ m.retries = l.retries
      BY <2>1, <3>1 DEF Local
    <3>4. l.done \subseteq Resolved'
      BY <2>1, <2>2 DEF Resolved
    <3>5. CycleOK(l)' => CycleOK(m)'
      BY <3>3, <3>4 DEF CycleOK, CoveredBefore
    <3>6. DeliveryOK(l)' => DeliveryOK(m)'
      BY <3>3, <3>4 DEF DeliveryOK, CoveredBefore, IsPrefix
    <3>7. QED
      BY <1>5, <2>1, <2>3, <3>2, <3>5, <3>6
  <2>8. QED
    BY <1>14, <2>5, <2>6, <2>7 DEF ChunkDone
<1>15. QED
  BY <1>7, <1>8, <1>9, <1>10, <1>11, <1>12, <1>13, <1>14 DEF Deliver

\* Every step keeps the invariant, and a step that adds to the log adds only
\* events of transactions that were not settled.
LEMMA NextOK ==
    ASSUME IInv, [Next]_externalVars
    PROVE  IInv' /\ \A e \in log' \ log : ~Settled(e.xact)
<1>1. SharedTypeOK /\ LedgerOK /\ everMarked \subseteq effected /\ w \in [Owners -> Local]
  BY DEF IInv, TypeOK, SharedTypeOK, DispatcherTypeOK
<1>2. \A o \in Owners : CycleOK(w[o]) /\ DeliveryOK(w[o]) /\ w[o] \in Local
  BY <1>1 DEF IInv
<1>3. SharedTypeOK' /\ UNCHANGED effected => TypeOK'
  BY DEF IInv, TypeOK, SharedTypeOK
<1>4. CASE Environment /\ UNCHANGED effected
  <2>1. SharedTypeOK' /\ TypeOK'
    BY <1>1, <1>3, <1>4, EnvironmentType
  <2>2. Grows /\ LedgerOK' /\ w' = w
    BY <1>1, <1>4, <2>1, EnvironmentOK
  <2>3. everMarked' = everMarked
    BY <1>4 DEF Environment, Writers, OperatorRequeues, Requeue, Maintenance,
                BackoffElapses, GcProcessed, LeaseExpires, ledgerVars
  <2>4. ASSUME NEW o \in Owners PROVE CycleOK(w[o])' /\ DeliveryOK(w[o])'
    <3>1. PICK l \in Local : l = w[o]
      BY <1>2
    <3>2. CycleOK(l)' /\ DeliveryOK(l)'
      BY <1>1, <1>2, <1>4, <2>1, <2>2, <3>1, CycleStable, DeliveryStable DEF SharedTypeOK
    <3>3. QED
      BY <2>2, <3>1, <3>2
  <2>5. IInv'
    BY <1>1, <1>4, <2>1, <2>2, <2>3, <2>4 DEF IInv
  <2>6. QED
    BY <2>2, <2>5 DEF Grows
<1>5. ASSUME NEW o \in Owners, Lifecycle(o), UNCHANGED effected
      PROVE  IInv' /\ \A e \in log' \ log : ~Settled(e.xact)
  <2>1. SharedTypeOK' /\ TypeOK'
    BY <1>1, <1>3, <1>5, LifecycleType
  <2>2. /\ Grows /\ LedgerOK' /\ w'[o] \in {Idle, Gone}
        /\ \A p \in Owners \ {o} : w'[p] = w[p]
    BY <1>1, <1>5, <2>1, LifecycleOK
  <2>3. everMarked' = everMarked
    BY <1>5 DEF Lifecycle, Start, Crash, Shutdown, Abandon, ledgerVars
  <2>4. CycleOK(w[o])' /\ DeliveryOK(w[o])'
    <3>1. CASE w'[o] = Idle
      BY <3>1, IdleCycleOK, IdleDeliveryOK
    <3>2. CASE w'[o] = Gone
      BY <3>2, IdleCycleOK, IdleDeliveryOK
    <3>3. QED
      BY <2>2, <3>1, <3>2
  <2>5. everMarked' \subseteq effected' /\ effected \subseteq effected'
    BY <1>1, <1>5, <2>3
  <2>6. IInv'
    BY <2>1, <2>2, <2>4, <2>5, OneProcess
  <2>7. QED
    BY <2>2, <2>6 DEF Grows
<1>6. ASSUME NEW o \in Owners, Cycle(o), UNCHANGED effected
      PROVE  IInv' /\ \A e \in log' \ log : ~Settled(e.xact)
  <2>1. w[o].pc \in {"record", "look", "upsert", "bury", "skip"} => w[o].cur \in Event
    BY <1>1, <1>2 DEF CycleOK, IsLeast, SharedTypeOK, LogTypeOK
  <2>2. SharedTypeOK' /\ TypeOK'
    BY <1>1, <1>3, <1>6, <2>1, CycleType
  <2>3. /\ Grows /\ LedgerOK' /\ CycleOK(w[o])'
        /\ \A p \in Owners \ {o} : w'[p] = w[p]
    BY <1>1, <1>2, <1>6, <2>2, CycleStepOK
  <2>4. everMarked' = everMarked
    BY <1>6 DEF Cycle, TakeLease, ReadEvents, ClaimRetries, RetriesLoseLease,
                HandleFailure, RecordAtOnce, RecordChecksLease, RecordLooks,
                RecordUpserts, BuryDeadLetter, SkipDeadLetter, ledgerVars
  <2>5. everMarked' \subseteq effected' /\ effected \subseteq effected'
    BY <1>1, <1>6, <2>4
  <2>6. PICK l \in Local : l = w[o]
    BY <1>2
  <2>7. DeliveryOK(l)'
    BY <1>1, <1>2, <2>2, <2>3, <2>5, <2>6, DeliveryStable DEF SharedTypeOK
  <2>8. DeliveryOK(w[o])'
    BY <1>1, <1>6, <2>2, <2>6, <2>7, CycleDelivery DEF SharedTypeOK, DispatcherTypeOK
  <2>9. IInv'
    BY <2>2, <2>3, <2>5, <2>8, OneProcess
  <2>10. QED
    BY <2>3, <2>9 DEF Grows
<1>7. ASSUME NEW o \in Owners, Retry(o) \/ Scan(o) \/ Deliver(o)
      PROVE  IInv' /\ log' = log
  <2>1. IInv'
    BY <1>7, RetryOK, ScanOK, DeliverOK
  <2>2. CASE Retry(o)
    BY <2>1, <2>2 DEF Retry, NextRetry, RetrySeesMark, RetryDelivers, RetryFails, RetryMarks,
                RetryLookupFails, RetryMarkFails, RetryClears, logVars
  <2>3. CASE Scan(o)
    BY <2>1, <2>3 DEF Scan, ScanFailure, ScanEnds, ScanMark, PassMarked, logVars
  <2>4. CASE Deliver(o)
    BY <2>1, <2>4 DEF Deliver, ChunksEnd, ChunkLease, DeliverBatch, MarkDone, RenewAfterMarks,
                LostAfterMarks, AdvanceDone, ClearDone, ChunkDone, logVars
  <2>5. QED
    BY <1>7, <2>2, <2>3, <2>4
<1>8. CASE UNCHANGED externalVars
  BY <1>8 DEF externalVars, vars, logVars, ledgerVars, dispatcherVars, IInv, TypeOK,
              LogTypeOK, LedgerTypeOK, DispatcherTypeOK, LedgerOK, CycleOK, DeliveryOK,
              CoveredBefore, Resolved, Settled
<1>9. QED
  BY <1>4, <1>5, <1>6, <1>7, <1>8 DEF Next

\* Nothing is held, marked or passed at the start.
LEMMA InitOK == Init => IInv
<1> SUFFICES ASSUME Init PROVE IInv
  OBVIOUS
<1>1. TypeOK
  <2>1. LogTypeOK
    BY EventLogAssumption DEF Init, LogInit, LogTypeOK
  <2>2. LedgerTypeOK
    <3>1. FreeLease \in [owner : Owners \cup {NoOwner}, live : BOOLEAN]
      BY DEF FreeLease
    <3>2. NoRow \in Row
      BY DEF NoRow, Row
    <3>3. QED
      BY <3>1, <3>2 DEF Init, LedgerInit, LedgerTypeOK
  <2>3. DispatcherTypeOK
    BY DispatcherAssumption, IdleGone DEF Init, DispatcherInit, DispatcherTypeOK
  <2>4. QED
    BY <2>1, <2>2, <2>3 DEF Init, TypeOK
<1>2. LedgerOK
  BY DEF Init, LogInit, LedgerInit, LedgerOK, Settled, Origin, NoRow
<1>3. \A o \in Owners : w[o] = Gone
  BY DEF Init, DispatcherInit
<1>4. \A o \in Owners : CycleOK(w[o]) /\ DeliveryOK(w[o])
  BY <1>3, IdleCycleOK, IdleDeliveryOK
<1>5. QED
  BY <1>1, <1>2, <1>4 DEF Init, LedgerInit, IInv

\* IInv holds in every reachable state.
THEOREM Invariance == Spec => []IInv
<1>1. IInv /\ [Next]_externalVars => IInv'
  BY NextOK
<1>2. QED
  BY <1>1, InitOK, PTL DEF Spec

-----------------------------------------------------------------------------
(* The theorems.                                                           *)

\* The variables keep their types, whatever the processes do.
THEOREM TypeCorrectness == Spec => []TypeOK
<1>1. IInv => TypeOK
  BY DEF IInv
<1>2. QED
  BY <1>1, Invariance, PTL

\* app_outbox_advance is never called so that the cursor passes an event which
\* the consumer has neither reported done nor seen dead-lettered, however many
\* dispatchers work on stale reads.
THEOREM CursorSafety == Spec => []CursorPassesOnlyResolved
<1>1. IInv => CursorPassesOnlyResolved
  BY DEF IInv, LedgerOK, CursorPassesOnlyResolved, Resolved
<1>2. QED
  BY <1>1, Invariance, PTL

\* What process_external_events lets the cursor pass without a dead letter has
\* had its effect outside.
THEOREM Delivery == Spec => []AtLeastOnce
<1>1. IInv => AtLeastOnce
  BY DEF IInv, LedgerOK, AtLeastOnce, Resolved
<1>2. QED
  BY <1>1, Invariance, PTL

\* The xmin filters of app_outbox_read and app_outbox_advance keep the cursor
\* below every transaction that is still to commit.
THEOREM CommitsAhead == Spec => NoCommitBehindCursor
<1>1. IInv /\ [Next]_externalVars => [\A e \in log' \ log : cursor \prec e]_externalVars
  <2> SUFFICES ASSUME IInv, [Next]_externalVars, NEW e \in log' \ log
               PROVE  cursor \prec e
    OBVIOUS
  <2>1. ~Settled(e.xact) /\ IInv'
    BY NextOK
  <2>2. e \in Event /\ cursor \in Event \cup {Origin} /\ LogTypeOK
    BY <2>1 DEF IInv, TypeOK, LogTypeOK, LedgerTypeOK
  <2>3. ~(e \preceq cursor)
    BY <2>1, <2>2, SettledBelow DEF IInv, LedgerOK
  <2>4. QED
    BY <2>2, <2>3, PositionOrder
<1>2. QED
  BY <1>1, Invariance, PTL DEF Spec, NoCommitBehindCursor

\* deliver_batch and the retries never produce an effect while an earlier
\* event is open: the consumer sees events in (xact, seq) order.
THEOREM Order == Spec => EffectsInOrder
<1> DEFINE InOrder == \A e \in effected' \ effected : \A f \in log :
                          f \prec e => f \in effected' \cup everDead
<1>1. IInv /\ [Next]_externalVars => [InOrder]_externalVars
  <2> SUFFICES ASSUME IInv, Next,
                      NEW e \in effected' \ effected, NEW f \in log, f \prec e
               PROVE  f \in effected' \cup everDead
    OBVIOUS
  <2>1. effected # effected'
    OBVIOUS
  <2>2. Resolved \subseteq effected \cup everDead
    BY DEF IInv, Resolved
  <2>3. PICK o \in Owners : RetryDelivers(o) \/ RetryFails(o) \/ DeliverBatch(o)
    BY <2>1 DEF Next, Retry, Scan, Deliver, RetrySeesMark, RetryMarks,
                RetryLookupFails, RetryMarkFails, RetryClears, ScanFailure, ScanEnds, ScanMark, PassMarked, ChunksEnd,
                ChunkLease, MarkDone, RenewAfterMarks, LostAfterMarks, AdvanceDone,
                ClearDone, ChunkDone
  <2>4. PICK l \in Local : l = w[o]
    BY DEF IInv, TypeOK, DispatcherTypeOK
  <2>5. CycleOK(l) /\ DeliveryOK(l) /\ LogTypeOK
    BY <2>4 DEF IInv, TypeOK
  <2>6. CASE RetryDelivers(o) \/ RetryFails(o)
    <3>1. e = l.cur /\ l.pc = "retryDeliver" /\ effected \subseteq effected'
      BY <2>4, <2>6 DEF RetryDelivers, RetryFails
    <3>2. e \in log /\ e \preceq cursor
      BY <2>5, <3>1 DEF DeliveryOK, CycleOK
    <3>3. f \in Resolved
      BY <3>2, RetryCovered DEF IInv, TypeOK, CoveredBefore
    <3>4. QED
      BY <2>2, <3>1, <3>3
  <2>7. CASE DeliverBatch(o)
    <3>1. PICK c \in SUBSET l.pending : \E d, s \in SUBSET c, er \in BOOLEAN :
              DeliversChunk(o, c, d, s, er)
      BY <2>4, <2>7 DEF DeliverBatch
    <3>2. PICK d \in SUBSET c, s \in SUBSET c, er \in BOOLEAN :
              DeliversChunk(o, c, d, s, er)
      BY <3>1
    <3>3. effected' = effected \cup s /\ IsPrefix(c, l.pending) /\ IsPrefix(s, c)
      BY <2>4, <3>2 DEF DeliversChunk, IsLimited
    <3>4. e \in s /\ e \in c /\ e \in l.pending /\ e \in Event /\ f \in Event
      BY <2>5, <3>1, <3>2, <3>3 DEF CycleOK, LogTypeOK
    <3>5. f \preceq e /\ f \in Resolved \cup l.pending
      BY <2>5, <3>4, PositionOrder DEF DeliveryOK, CoveredBefore
    <3>6. f \in l.pending => f \in s
      BY <3>3, <3>4, <3>5 DEF IsPrefix
    <3>7. QED
      BY <2>2, <3>3, <3>5, <3>6
  <2>8. QED
    BY <2>3, <2>6, <2>7
<1>2. QED
  BY <1>1, Invariance, PTL DEF Spec, EffectsInOrder

=============================================================================
