---------------------- MODULE AttachmentPreviewProofs ----------------------
(***************************************************************************)
(* Proofs about AttachmentPreview, for any number of workers, any lease    *)
(* time and any bound on attempts.                                         *)
(*                                                                         *)
(* The published key has its object because of time, not of a lock: a key  *)
(* is journaled with more time left than its lease has (KeySafe), both run *)
(* down together, a publication needs a live lease, and the drain takes    *)
(* only keys that are due (DrainSafe).  So a key the drain is at is never  *)
(* one that may still be published, even when the drain's lock is lost.    *)
(***************************************************************************)
EXTENDS AttachmentPreview, TLAPS

\* The columns of the row, which is not None.
LEMMA AttFields ==
    ASSUME NEW r \in Att
    PROVE  /\ r.status \in {"pending", "ok", "failed"}
           /\ r.token \in Claims \cup {NoClaim}
           /\ r.attempts \in 0 .. MaxAttempts
           /\ r.preview \in Claims \cup {NoClaim}
           /\ r # None
BY NoneAssumption DEF Att

\* Claims are positive numbers; None is no number.
LEMMA Numbers ==
    /\ Claims \subseteq Nat
    /\ NoClaim \in Nat /\ NoClaim \notin Claims
    /\ None \notin Nat
    /\ \A n \in Nat : n \in Claims <=> 1 <= n /\ n <= MaxAttempts + MaxFaults
BY PreviewAssumption, NoneAssumption DEF Claims, NoClaim

\* A claim takes a key that nobody knows, within the bound on claims
\* (app_claim_attachment_preview).
LEMMA ClaimOK == ASSUME IInv, NEW w \in Workers, Claim(w) PROVE IInv'
<1>a. att \in Att /\ att.attempts < MaxAttempts /\ att.status = "pending"
  BY DEF IInv, TypeOK, Claim, Pending
<1>0. PICK k \in Claims : k = claims + 1 /\ claims' = k
  <2> claims \in Nat /\ claims + 1 \in Claims /\ claims' = claims + 1
    BY <1>a, AttFields, Numbers, PreviewAssumption
    DEF IInv, TypeOK, ClaimsCounted, Claim
  <2> QED
    OBVIOUS
<1>c. /\ att' \in Att /\ att'.status = att.status /\ att'.preview = att.preview
      /\ att'.token = k /\ att'.attempts = att.attempts + 1
  <2>1. att.attempts + 1 \in 0 .. MaxAttempts
    BY <1>a, AttFields, PreviewAssumption
  <2>2. att' = [att EXCEPT !.token = k, !.attempts = att.attempts + 1]
    BY <1>0 DEF Claim
  <2> QED
    BY <1>a, <2>1, <2>2 DEF Att
<1>1. TypeOK'
  BY <1>0, <1>c, PreviewAssumption DEF IInv, TypeOK, Claim, Place
<1>2. ClaimsCounted'
  BY <1>a, <1>0, <1>c, AttFields, Numbers DEF IInv, TypeOK, ClaimsCounted, Claim, At
<1>3. \A j \in Claims : KeyFresh(j) => KeyFresh(j)'
  BY <1>a, <1>c, AttFields DEF Claim, KeyFresh, Referenced
<1>4. ASSUME NEW v \in Workers PROVE KeySafe(v)'
  <2>1. CASE v = w
    <3>1. job'[w].claim = k /\ job'[w].at = "claimed"
      BY <1>0 DEF IInv, TypeOK, Claim
    <3>2. KeyFresh(k)
      BY <1>0, Numbers DEF IInv, TypeOK
    <3> QED
      BY <2>1, <3>1, <3>2, <1>3 DEF KeySafe, At
  <2>2. CASE v # w
    <3>1. job'[v] = job[v]
      BY <2>2 DEF Claim, IInv, TypeOK
    <3>2. ~At(v, "idle") => job[v].claim \in Claims /\ job[v].claim # k
      BY <1>0, PreviewAssumption DEF IInv, TypeOK, ClaimsCounted, Claims
    <3> QED
      BY <3>1, <3>2, <1>a, <1>c, <1>3, AttFields
      DEF IInv, TypeOK, KeySafe, At, Referenced, Place, Claim
  <2> QED
    BY <2>1, <2>2
<1>5. DrainSafe' /\ PublishedExists' /\ KeysAccounted'
  BY <1>a, <1>c, AttFields DEF IInv, Claim, Referenced, DrainSafe, PublishedExists, KeysAccounted
<1> QED
  BY <1>0, <1>1, <1>2, <1>3, <1>4, <1>5, Numbers DEF IInv, TypeOK

-----------------------------------------------------------------------------
(* Steps that make no new claim and leave the journal and the lease alone.  *)

\* The row keeps its published key; at most its lease is given up.
RowKept ==
    \/ att' = att /\ faults' \in {faults, faults + 1}
    \/ /\ att \in Att /\ att' \in Att
       /\ att'.preview = att.preview
       /\ att'.status = "ok" <=> att.status = "ok"
       /\ att'.token = NoClaim
       /\ att'.attempts + faults' >= att.attempts + faults

\* A worker goes on with its claim or drops it.
JobKept(w) ==
    \/ job'[w] = NoJob
    \/ job'[w] = job[w]
    \/ /\ job'[w].claim = job[w].claim
       /\ \/ job[w].at = "claimed" /\ job'[w].at = "loaded"
          \/ /\ job[w].at = "journaled" /\ job'[w].at = "stored"
             /\ job[w].claim \in objects'

\* A worker at most writes the key that it has journaled.
KeysWritten ==
    /\ objects \subseteq objects' /\ late \subseteq late'
    /\ \A k \in objects' \ objects :
        /\ \E w \in Workers : At(w, "journaled") /\ job[w].claim = k
        /\ Late(k) => k \in late'

\* The drain drops its key or its lock.
DrainKept ==
    \/ drain' = drain
    \/ drain'.key = NoClaim /\ ~drain'.purged
    \/ drain'.key = drain.key /\ drain'.purged = drain.purged

\* Such a step keeps the invariant: with the journal and the lease as they
\* were, only the key of a worker that has journaled it may be written.
LEMMA QuietStep ==
    ASSUME IInv, TypeOK', RowKept, \A w \in Workers : JobKept(w),
           KeysWritten, DrainKept, UNCHANGED <<left, journal, claims>>
    PROVE  IInv'
<1>1. att \in Att \cup {None} /\ att' \in Att \cup {None}
  BY DEF IInv, TypeOK
<1>2. \A k : Referenced(k)' <=> Referenced(k)
  BY <1>1, AttFields DEF RowKept, Referenced
<1>3. ClaimsCounted'
  <2>1. att' # None => /\ claims <= att'.attempts + faults'
                       /\ att'.token <= claims
                       /\ att'.preview <= claims
                       /\ att'.preview # NoClaim <=> att'.status = "ok"
    <3>0. claims \in Nat /\ faults \in Nat /\ faults' \in Nat
      BY PreviewAssumption DEF IInv, TypeOK, Claims
    <3>1. CASE att' = att
      <4>1. faults' >= faults
        <5>1. att.attempts \in Nat \/ att \notin Att
          BY AttFields, PreviewAssumption
        <5> QED
          BY <3>0, <3>1, <5>1 DEF RowKept
      <4> QED
        BY <1>1, <3>0, <3>1, <4>1, AttFields, PreviewAssumption
        DEF IInv, ClaimsCounted
    <3>2. CASE att' # att /\ att \in Att /\ att' \in Att
      <4>1. att # None /\ claims <= att.attempts + faults /\ att.preview <= claims
        BY <3>2, AttFields DEF IInv, ClaimsCounted
      <4> QED
        BY <3>0, <3>2, <4>1, AttFields, PreviewAssumption
        DEF IInv, ClaimsCounted, RowKept, NoClaim
    <3> QED
      BY <3>1, <3>2, <1>1 DEF RowKept
  <2>2. \A w \in Workers : job'[w].at # "idle" =>
            job[w].at # "idle" /\ job'[w].claim = job[w].claim
    BY DEF JobKept, NoJob
  <2> QED
    BY <2>1, <2>2 DEF IInv, ClaimsCounted, At
<1>4. ASSUME NEW k \in Claims, KeyFresh(k),
             \A w \in Workers : At(w, "journaled") => job[w].claim # k
      PROVE  KeyFresh(k)'
  BY <1>2, <1>4, Numbers DEF KeyFresh, KeysWritten, DrainKept
<1>5. ASSUME NEW w \in Workers PROVE KeySafe(w)'
  <2>1. CASE job'[w] = NoJob
    BY <2>1 DEF KeySafe, At, NoJob
  <2>2. CASE job'[w].claim = job[w].claim /\ job[w].at \in {"claimed", "loaded"}
             /\ job'[w].at \in {"claimed", "loaded"}
    <3>1. job[w].claim \in Claims
      BY <2>2, PreviewAssumption DEF IInv, TypeOK, ClaimsCounted, At, Claims
    <3>2. KeyFresh(job[w].claim)
      BY <2>2 DEF IInv, KeySafe, At
    <3>3. \A v \in Workers : At(v, "journaled") => job[v].claim # job[w].claim
      BY <2>2 DEF IInv, ClaimsCounted, At
    <3> QED
      BY <2>2, <3>1, <3>2, <3>3, <1>4 DEF KeySafe, At
  <2>3. CASE /\ job'[w].claim = job[w].claim
             /\ job[w].at \in {"journaled", "stored"}
             /\ \/ job'[w].at = job[w].at
                \/ job'[w].at = "stored" /\ job[w].claim \in objects'
    <3>1. att' # None /\ att'.token = job[w].claim
          => att # None /\ att.token = job[w].claim
      BY <2>3, <1>1, AttFields, Numbers DEF RowKept, IInv, ClaimsCounted, At, NoClaim
    <3> QED
      BY <2>3, <1>2, <3>1 DEF IInv, KeySafe, At, KeysWritten
  <2>4. CASE job'[w] = job[w] /\ job[w].at = "idle"
    BY <2>4 DEF KeySafe, At
  <2>5. job[w].at \in Place
    BY DEF IInv, TypeOK
  <2>6. JobKept(w)
    OBVIOUS
  <2>7. CASE job'[w] = job[w]
    BY <2>2, <2>3, <2>4, <2>5, <2>7 DEF Place
  <2>8. CASE job'[w] # job[w] /\ job'[w] # NoJob
    BY <2>2, <2>3, <2>6, <2>8 DEF JobKept
  <2> QED
    BY <2>1, <2>7, <2>8
<1>6. \A k \in Claims : k > claims => \A w \in Workers : At(w, "journaled") => job[w].claim # k
  BY PreviewAssumption DEF IInv, TypeOK, ClaimsCounted, At, Claims
<1>7. DrainSafe'
  BY <1>2, Numbers DEF IInv, DrainSafe, DrainKept
<1>8. PublishedExists'
  BY <1>1, AttFields, Numbers DEF IInv, PublishedExists, RowKept, KeysWritten
<1>9. KeysAccounted'
  BY <1>2 DEF IInv, KeysAccounted, KeysWritten, Late
<1> QED
  BY <1>3, <1>4, <1>5, <1>6, <1>7, <1>8, <1>9 DEF IInv

\* A worker at work has a claim.
LEMMA ClaimInRange ==
    ASSUME TypeOK, ClaimsCounted, NEW w \in Workers, ~At(w, "idle")
    PROVE  job[w].claim \in Claims
BY PreviewAssumption DEF TypeOK, ClaimsCounted, Claims

\* Giving up a row whose attempts are spent.
LEMMA ClaimExhaustedOK == ASSUME IInv, ClaimExhausted PROVE IInv'
<1>1. att \in Att /\ att.status = "pending"
  BY DEF IInv, TypeOK, ClaimExhausted, Pending
<1>2. /\ att' \in Att /\ att'.preview = att.preview /\ att'.token = NoClaim
      /\ att'.status = "failed" /\ att'.attempts = att.attempts
  BY <1>1 DEF ClaimExhausted, Att
<1>3. att.attempts + faults \in Nat
  BY <1>1, AttFields, PreviewAssumption DEF IInv, TypeOK
<1>4. RowKept
  BY <1>1, <1>2, <1>3 DEF RowKept, ClaimExhausted
<1>5. TypeOK'
  BY <1>2 DEF IInv, TypeOK, ClaimExhausted
<1> QED
  BY <1>4, <1>5, QuietStep DEF ClaimExhausted, JobKept, KeysWritten, DrainKept

\* load_attachment_preview: the worker goes on or leaves.
LEMMA LoadOK == ASSUME IInv, NEW w \in Workers, Load(w) PROVE IInv'
<1>1. TypeOK'
  BY DEF IInv, TypeOK, Load, Goto, Leave, NoJob, NoClaim, Place
<1>2. \A v \in Workers : JobKept(v)
  BY DEF IInv, TypeOK, Load, Goto, Leave, At, JobKept
<1> QED
  BY <1>1, <1>2, QuietStep DEF Load, RowKept, KeysWritten, DrainKept

\* fail_attachment_preview: the row gives up its lease.
LEMMA FailOK == ASSUME IInv, NEW w \in Workers, Fail(w) PROVE IInv'
<1>1. RowKept /\ att' \in Att \cup {None}
  <2>1. CASE Holds(w)
    <3>1. att \in Att /\ att.status = "pending"
      BY <2>1 DEF IInv, TypeOK, Holds, Pending
    <3>2. /\ att' \in Att /\ att'.preview = att.preview /\ att'.token = NoClaim
          /\ att'.status = "failed" /\ att'.attempts = att.attempts
      BY <2>1, <3>1 DEF Fail, Att
    <3>3. att.attempts + faults \in Nat
      BY <3>1, AttFields, PreviewAssumption DEF IInv, TypeOK
    <3> QED
      BY <3>1, <3>2, <3>3 DEF RowKept, Fail
  <2>2. CASE ~Holds(w)
    BY <2>2 DEF Fail, RowKept, IInv, TypeOK
  <2> QED
    BY <2>1, <2>2
<1>2. TypeOK'
  BY <1>1 DEF IInv, TypeOK, Fail, Leave, NoJob, NoClaim, Place
<1>3. \A v \in Workers : JobKept(v)
  BY DEF IInv, TypeOK, Fail, Leave, JobKept
<1> QED
  BY <1>1, <1>2, <1>3, QuietStep DEF Fail, KeysWritten, DrainKept

\* The put writes the journaled key.
LEMMA PutOK == ASSUME IInv, NEW w \in Workers, Put(w) PROVE IInv'
<1>0. job[w].claim \in Claims
  BY ClaimInRange DEF IInv, Put, At
<1>1. TypeOK'
  BY <1>0 DEF IInv, TypeOK, Put, Written, Goto, Place
<1>2. KeysWritten
  BY DEF Put, Written, KeysWritten, At
<1>3. \A v \in Workers : JobKept(v)
  BY DEF IInv, TypeOK, Put, Written, Goto, At, JobKept
<1> QED
  BY <1>1, <1>2, <1>3, QuietStep DEF Put, RowKept, DrainKept

\* A release at shutdown: the attempt taken back is counted by the fault.
LEMMA CancelOK == ASSUME IInv, NEW w \in Workers, Cancel(w) PROVE IInv'
<1>0. job[w].claim \in Claims
  BY ClaimInRange DEF IInv, Cancel, At
<1>1. RowKept /\ att' \in Att \cup {None}
  <2>1. CASE Holds(w)
    <3>1. att \in Att
      BY <2>1 DEF IInv, TypeOK, Holds, Pending
    <3>2. PICK n \in 0 .. MaxAttempts :
              n >= att.attempts - 1
              /\ att' = [att EXCEPT !.token = NoClaim, !.attempts = n]
      <4>1. /\ (IF att.attempts > 0 THEN att.attempts - 1 ELSE 0) \in 0 .. MaxAttempts
            /\ (IF att.attempts > 0 THEN att.attempts - 1 ELSE 0) >= att.attempts - 1
        BY <3>1, AttFields, PreviewAssumption
      <4>2. att' = [att EXCEPT !.token = NoClaim,
                      !.attempts = IF att.attempts > 0 THEN att.attempts - 1 ELSE 0]
        BY <2>1 DEF Cancel
      <4> QED
        BY <4>1, <4>2
    <3>3. /\ att' \in Att /\ att'.preview = att.preview /\ att'.token = NoClaim
          /\ att'.status = att.status /\ att'.attempts = n
      BY <3>1, <3>2 DEF Att
    <3>4. n + faults' >= att.attempts + faults
      BY <3>1, <3>2, AttFields, PreviewAssumption DEF IInv, TypeOK, Cancel
    <3> QED
      BY <3>1, <3>3, <3>4 DEF RowKept
  <2>2. CASE ~Holds(w)
    BY <2>2 DEF Cancel, RowKept, IInv, TypeOK
  <2> QED
    BY <2>1, <2>2
<1>2. objects' \subseteq Claims /\ late' \subseteq Claims
  BY <1>0 DEF IInv, TypeOK, Cancel, Written
<1>3. TypeOK'
  BY <1>1, <1>2, PreviewAssumption DEF IInv, TypeOK, Cancel, Leave, NoJob, NoClaim, Place
<1>4. KeysWritten
  BY DEF Cancel, Written, KeysWritten, At
<1>5. \A v \in Workers : JobKept(v)
  BY DEF IInv, TypeOK, Cancel, Leave, JobKept
<1> QED
  BY <1>1, <1>3, <1>4, <1>5, QuietStep DEF Cancel, DrainKept

\* A worker that dies leaves its lease; its put may have been done.
LEMMA WorkerDiesOK == ASSUME IInv, NEW w \in Workers, WorkerDies(w) PROVE IInv'
<1>0. job[w].claim \in Claims
  BY ClaimInRange DEF IInv, WorkerDies
<1>2. objects' \subseteq Claims /\ late' \subseteq Claims
  BY <1>0 DEF IInv, TypeOK, WorkerDies, Written
<1>3. TypeOK'
  BY <1>2, PreviewAssumption DEF IInv, TypeOK, WorkerDies, Leave, NoJob, NoClaim, Place
<1>4. KeysWritten
  BY DEF WorkerDies, Written, KeysWritten, At
<1>5. \A v \in Workers : JobKept(v)
  BY DEF IInv, TypeOK, WorkerDies, Leave, JobKept
<1> QED
  BY <1>3, <1>4, <1>5, QuietStep DEF WorkerDies, RowKept, DrainKept

\* The drain fails, or goes on without its lock.
LEMMA DrainFaultOK == ASSUME IInv, DrainFails \/ DrainLosesLock PROVE IInv'
<1>1. UNCHANGED <<att, parentLive, left, journal, objects, late, job, claims, trash>>
      /\ faults' = faults + 1 /\ faults < MaxFaults
  BY DEF DrainFails, DrainLosesLock
<1>2. drain \in [key : Claims \cup {NoClaim}, purged : BOOLEAN, locked : BOOLEAN]
  BY DEF IInv, TypeOK
<1>3. drain' = Idle \/ drain' = [drain EXCEPT !.locked = FALSE]
  BY DEF DrainFails, DrainLosesLock
<1>4. /\ drain' \in [key : Claims \cup {NoClaim}, purged : BOOLEAN, locked : BOOLEAN]
      /\ DrainKept
  <2>1. CASE drain' = Idle
    BY <2>1 DEF Idle, DrainKept
  <2>2. CASE drain' = [drain EXCEPT !.locked = FALSE]
    BY <1>2, <2>2 DEF DrainKept
  <2> QED
    BY <1>3, <2>1, <2>2
<1>5. TypeOK'
  BY <1>1, <1>4, PreviewAssumption DEF IInv, TypeOK
<1> QED
  BY <1>1, <1>4, <1>5, QuietStep DEF RowKept, KeysWritten, JobKept

\* The parent is moved to the trash or back.
LEMMA MoveParentOK == ASSUME IInv, MoveParent PROVE IInv'
<1>1. TypeOK'
  BY PreviewAssumption DEF IInv, TypeOK, MoveParent
<1> QED
  BY <1>1, QuietStep DEF MoveParent, RowKept, KeysWritten, JobKept, DrainKept

-----------------------------------------------------------------------------
(* Steps that change the journal.                                          *)

\* journal_attachment_preview: the key is due later than the lease ends.
LEMMA JournalOK == ASSUME IInv, NEW w \in Workers, Journal(w) PROVE IInv'
<1>1. CASE ~HoldsLive(w)
  <2>1. TypeOK'
    BY <1>1 DEF IInv, TypeOK, Journal, Leave, NoJob, NoClaim, Place
  <2>2. \A v \in Workers : JobKept(v)
    BY <1>1 DEF IInv, TypeOK, Journal, Leave, JobKept
  <2> QED
    BY <1>1, <2>1, <2>2, QuietStep DEF Journal, RowKept, KeysWritten, DrainKept
<1>2. CASE HoldsLive(w)
  <2>0. PICK k \in Claims : k = job[w].claim
    BY ClaimInRange DEF IInv, Journal, At
  <2>1. /\ journal' = [journal EXCEPT ![k] = 2 * LeaseTime]
        /\ job' = [job EXCEPT ![w].at = "journaled"]
        /\ job'[w].at = "journaled" /\ job'[w].claim = k
        /\ \A v \in Workers : v # w => job'[v] = job[v]
        /\ job[w].at = "loaded"
        /\ UNCHANGED <<att, parentLive, left, objects, late, claims, drain, faults, trash>>
    BY <1>2, <2>0 DEF Journal, Goto, IInv, TypeOK, At
  <2>2. KeyFresh(k)
    BY <2>0, <2>1 DEF IInv, KeySafe, At
  <2>3. TypeOK'
    BY <2>1, PreviewAssumption DEF IInv, TypeOK, Place
  <2>4. ClaimsCounted'
    BY <2>1, <2>0 DEF IInv, ClaimsCounted, At
  <2>5. \A j \in Claims : j # k => journal'[j] = journal[j]
    BY <2>1 DEF IInv, TypeOK
  <2>6. journal'[k] = 2 * LeaseTime /\ journal'[k] # None
    BY <2>1, Numbers, PreviewAssumption DEF IInv, TypeOK
  <2>7. \A j \in Claims : (j # k /\ KeyFresh(j)) => KeyFresh(j)'
    BY <2>1, <2>5 DEF KeyFresh, Referenced
  <2>8. ASSUME NEW v \in Workers PROVE KeySafe(v)'
    <3>1. CASE v = w
      <4>1. left < 2 * LeaseTime
        BY PreviewAssumption DEF IInv, TypeOK
      <4> QED
        BY <3>1, <4>1, <2>1, <2>2, <2>6 DEF KeySafe, At, KeyFresh, Referenced
    <3>2. CASE v # w /\ ~At(v, "idle")
      <4>1. job[v].claim \in Claims /\ job[v].claim # k
        BY <3>2, <2>0, <2>1, ClaimInRange DEF IInv, ClaimsCounted, At
      <4> QED
        BY <3>2, <4>1, <2>1, <2>5, <2>7 DEF IInv, KeySafe, At, Referenced
    <3>3. CASE v # w /\ At(v, "idle")
      BY <3>3, <2>1 DEF KeySafe, At
    <3> QED
      BY <3>1, <3>2, <3>3
  <2>9. \A j \in Claims : j > claims => j # k
    <3>1. k <= claims /\ claims \in Nat
      BY <2>0, <2>1, PreviewAssumption DEF IInv, TypeOK, ClaimsCounted, At, Claims
    <3> QED
      BY <3>1, Numbers
  <2>10. DrainSafe'
    <3>1. drain.key # k /\ drain.key \in Claims \cup {NoClaim}
      BY <2>2 DEF KeyFresh, IInv, TypeOK
    <3> QED
      BY <3>1, <2>1, <2>5 DEF IInv, DrainSafe, Referenced
  <2>11. PublishedExists' /\ KeysAccounted'
    BY <2>1, <2>5, <2>6 DEF IInv, TypeOK, PublishedExists, KeysAccounted, Referenced
  <2> QED
    BY <2>1, <2>3, <2>4, <2>7, <2>8, <2>9, <2>10, <2>11 DEF IInv
<1> QED
  BY <1>1, <1>2

\* A publication happens within the lease, when the key is not due.
LEMMA PublishOK == ASSUME IInv, NEW w \in Workers, Publish(w) PROVE IInv'
<1>0. PICK k \in Claims : k = job[w].claim
  BY ClaimInRange DEF IInv, Publish, At
<1>01. /\ job'[w] = NoJob
       /\ \A v \in Workers : v # w => job'[v] = job[v]
       /\ job[w].at = "stored"
       /\ job' \in [Workers -> [at : Place, claim : Claims \cup {NoClaim}]]
       /\ UNCHANGED <<parentLive, left, objects, late, claims, drain, faults, trash>>
  BY DEF Publish, Leave, IInv, TypeOK, At, NoJob, NoClaim, Place
<1>1. CASE ~(journal[k] # None /\ HoldsLive(w) /\ att.preview = NoClaim)
  <2>1. UNCHANGED <<att, journal>>
    BY <1>0, <1>1 DEF Publish
  <2>2. TypeOK'
    BY <1>01, <2>1 DEF IInv, TypeOK
  <2>3. \A v \in Workers : JobKept(v)
    BY <1>01 DEF JobKept
  <2> QED
    BY <1>01, <2>1, <2>2, <2>3, QuietStep DEF RowKept, KeysWritten, DrainKept
<1>2. CASE journal[k] # None /\ HoldsLive(w) /\ att.preview = NoClaim
  <2>0. att \in Att /\ att.token = k /\ att.status = "pending" /\ left > 0
    BY <1>0, <1>2 DEF HoldsLive, Holds, Pending, IInv, TypeOK
  <2>1. /\ journal' = [journal EXCEPT ![k] = None]
        /\ att' = [att EXCEPT !.status = "ok", !.token = NoClaim, !.preview = k]
    BY <1>0, <1>2 DEF Publish
  <2>2. /\ att' \in Att /\ att'.status = "ok" /\ att'.token = NoClaim
        /\ att'.preview = k /\ att'.attempts = att.attempts
    BY <2>0, <2>1 DEF Att
  <2>3. k \in objects /\ journal[k] > left /\ journal[k] # 0 /\ journal[k] # None
    BY <1>0, <1>01, <2>0, AttFields DEF IInv, TypeOK, KeySafe, At
  <2>4. TypeOK'
    BY <1>01, <2>1, <2>2 DEF IInv, TypeOK
  <2>5. k <= claims /\ claims \in Nat /\ claims >= 0
    BY <1>0, <1>01, PreviewAssumption DEF IInv, TypeOK, ClaimsCounted, At, Claims
  <2>6. ClaimsCounted'
    <3>1. claims <= att.attempts + faults
      BY <2>0, AttFields DEF IInv, ClaimsCounted
    <3>2. \A v \in Workers : job'[v].at # "idle" => v # w /\ job'[v] = job[v]
      BY <1>01 DEF NoJob
    <3> QED
      BY <1>01, <2>2, <2>5, <3>1, <3>2, Numbers DEF IInv, ClaimsCounted, At, NoClaim
  <2>7. \A j \in Claims : j # k => journal'[j] = journal[j]
    BY <2>1 DEF IInv, TypeOK
  <2>8. \A j \in Claims : (j # k /\ KeyFresh(j)) => KeyFresh(j)'
    BY <1>01, <2>2, <2>7 DEF KeyFresh, Referenced
  <2>9. ASSUME NEW v \in Workers PROVE KeySafe(v)'
    <3>1. CASE v = w
      BY <3>1, <1>01 DEF KeySafe, At, NoJob
    <3>2. CASE v # w /\ ~At(v, "idle")
      <4>1. job[v].claim \in Claims /\ job[v].claim # k
        BY <3>2, <1>0, <1>01, ClaimInRange DEF IInv, ClaimsCounted, At
      <4>2. att'.token # job[v].claim
        BY <2>2, <4>1, Numbers
      <4> QED
        BY <3>2, <4>1, <4>2, <1>01, <2>2, <2>7, <2>8
        DEF IInv, KeySafe, At, Referenced
    <3>3. CASE v # w /\ At(v, "idle")
      BY <3>3, <1>01 DEF KeySafe, At
    <3> QED
      BY <3>1, <3>2, <3>3
  <2>10. \A j \in Claims : j > claims => j # k
    BY <2>5, Numbers
  <2>11. DrainSafe'
    <3>1. drain.key # k /\ drain.key \in Claims \cup {NoClaim}
      BY <2>3, Numbers DEF IInv, DrainSafe, TypeOK
    <3> QED
      BY <3>1, <1>01, <2>2, <2>7 DEF IInv, DrainSafe, Referenced
  <2>12. PublishedExists' /\ KeysAccounted'
    <3>1. \A j \in Claims : ~Referenced(j)
      BY <1>2, Numbers DEF Referenced
    <3>2. PublishedExists'
      BY <1>01, <2>2, <2>3 DEF PublishedExists
    <3>3. ASSUME NEW j \in objects PROVE journal'[j] # None \/ Referenced(j)' \/ j \in late
      <4>1. j \in Claims /\ (journal[j] # None \/ j \in late)
        BY <3>1 DEF IInv, TypeOK, KeysAccounted
      <4>2. Referenced(k)'
        BY <2>2, AttFields DEF Referenced
      <4> QED
        BY <4>1, <4>2, <2>7
    <3> QED
      BY <3>2, <3>3, <1>01 DEF KeysAccounted
  <2> QED
    BY <1>01, <2>4, <2>6, <2>8, <2>9, <2>10, <2>11, <2>12 DEF IInv
<1> QED
  BY <1>1, <1>2

\* The drain takes a due key, which is not published, or drops the entry of
\* one that is.
LEMMA DrainBeginOK == ASSUME IInv, NEW k \in Claims, DrainBegin(k) PROVE IInv'
<1>1. /\ drain = Idle /\ journal[k] = 0
      /\ UNCHANGED <<att, parentLive, left, objects, late, job, claims, faults, trash>>
      /\ \A j \in Claims : Referenced(j)' = Referenced(j)
  BY DEF DrainBegin, Referenced
<1>2. CASE Referenced(k)
  <2>1. journal' = [journal EXCEPT ![k] = None] /\ drain' = drain
    BY <1>2 DEF DrainBegin
  <2>2. TypeOK'
    BY <1>1, <2>1 DEF IInv, TypeOK
  <2>3. \A j \in Claims : j # k => journal'[j] = journal[j]
    BY <2>1 DEF IInv, TypeOK
  <2>4. journal'[k] = None
    BY <2>1 DEF IInv, TypeOK
  <2>5. ClaimsCounted' /\ PublishedExists'
    BY <1>1 DEF IInv, ClaimsCounted, At, PublishedExists
  <2>6. \A j \in Claims : KeyFresh(j) => KeyFresh(j)'
    BY <1>1, <2>1, <2>3, <2>4 DEF KeyFresh, Referenced
  <2>7. ASSUME NEW w \in Workers PROVE KeySafe(w)'
    <3>1. CASE At(w, "idle")
      BY <3>1, <1>1 DEF KeySafe, At
    <3>2. CASE ~At(w, "idle")
      <4>1. job[w].claim \in Claims /\ job[w].at \in Place
        BY <3>2, ClaimInRange DEF IInv, TypeOK
      <4>2. job[w].claim # k
        BY <3>2, <4>1, <1>2 DEF IInv, KeySafe, KeyFresh, At, Place
      <4> QED
        BY <4>1, <4>2, <1>1, <2>3, <2>6 DEF IInv, KeySafe, At, Referenced
    <3> QED
      BY <3>1, <3>2
  <2>8. DrainSafe'
    BY <1>1, <2>1, Numbers DEF DrainSafe, Idle
  <2>9. KeysAccounted'
    BY <1>1, <1>2, <2>3 DEF IInv, TypeOK, KeysAccounted
  <2> QED
    BY <1>1, <2>2, <2>5, <2>6, <2>7, <2>8, <2>9 DEF IInv
<1>3. CASE ~Referenced(k)
  <2>1. drain' = [key |-> k, purged |-> FALSE, locked |-> TRUE] /\ journal' = journal
    BY <1>3 DEF DrainBegin
  <2>2. drain' \in [key : Claims \cup {NoClaim}, purged : BOOLEAN, locked : BOOLEAN]
    BY <2>1
  <2>3. drain'.key = k /\ drain'.purged = FALSE
    BY <2>1
  <2>4. TypeOK'
    BY <1>1, <2>1, <2>2 DEF IInv, TypeOK
  <2>5. ClaimsCounted' /\ PublishedExists' /\ KeysAccounted'
    BY <1>1, <2>1 DEF IInv, ClaimsCounted, At, PublishedExists, KeysAccounted, Referenced
  <2>6. \A j \in Claims : KeyFresh(j) => KeyFresh(j)'
    <3>1. ASSUME NEW j \in Claims, KeyFresh(j) PROVE j # k
      BY <3>1, <1>1, Numbers DEF KeyFresh
    <3> QED
      BY <3>1, <1>1, <2>1, <2>3 DEF KeyFresh
  <2>7. ASSUME NEW w \in Workers PROVE KeySafe(w)'
    <3>1. CASE At(w, "idle")
      BY <3>1, <1>1 DEF KeySafe, At
    <3>2. CASE ~At(w, "idle")
      <4>1. job[w].claim \in Claims
        BY <3>2, ClaimInRange DEF IInv
      <4> QED
        BY <4>1, <1>1, <2>1, <2>6 DEF IInv, KeySafe, At, Referenced
    <3> QED
      BY <3>1, <3>2
  <2>8. DrainSafe'
    BY <1>1, <1>3, <2>1, <2>3 DEF DrainSafe
  <2> QED
    BY <1>1, <2>4, <2>5, <2>6, <2>7, <2>8 DEF IInv
<1> QED
  BY <1>2, <1>3

\* What the drain purges is due, so that nobody may publish it any more.
LEMMA DrainPurgeOK == ASSUME IInv, DrainPurge PROVE IInv'
<1>0. PICK k \in Claims : k = drain.key
  BY DEF IInv, TypeOK, DrainPurge
<1>1. /\ objects' = objects \ {k}
      /\ UNCHANGED <<att, parentLive, left, journal, late, job, claims, faults, trash>>
      /\ \A j \in Claims : Referenced(j)' = Referenced(j)
  BY <1>0 DEF DrainPurge, Referenced
<1>2. /\ drain' \in [key : Claims \cup {NoClaim}, purged : BOOLEAN, locked : BOOLEAN]
      /\ drain'.key = k
  <2>1. drain \in [key : Claims \cup {NoClaim}, purged : BOOLEAN, locked : BOOLEAN]
    BY DEF IInv, TypeOK
  <2> QED
    BY <1>0, <2>1 DEF DrainPurge
<1>3. journal[k] \in {None, 0} /\ ~Referenced(k)
  BY <1>0, Numbers DEF IInv, DrainSafe
<1>4. TypeOK'
  BY <1>1, <1>2 DEF IInv, TypeOK
<1>5. ClaimsCounted'
  BY <1>1 DEF IInv, ClaimsCounted, At
<1>6. \A j \in Claims : KeyFresh(j) => KeyFresh(j)'
  BY <1>0, <1>1, <1>2 DEF KeyFresh
<1>7. ASSUME NEW w \in Workers PROVE KeySafe(w)'
  <2>1. CASE At(w, "idle")
    BY <2>1, <1>1 DEF KeySafe, At
  <2>2. CASE ~At(w, "idle")
    <3>1. job[w].claim \in Claims
      BY <2>2, ClaimInRange DEF IInv
    <3>2. ASSUME left >= 0, journal[job[w].claim] # None,
                 journal[job[w].claim] > left
          PROVE  job[w].claim # k
      <4>1. left \in Int
        BY PreviewAssumption DEF IInv, TypeOK
      <4> QED
        BY <3>2, <4>1, <1>3
    <3> QED
      BY <3>1, <3>2, <1>1, <1>6 DEF IInv, KeySafe, At, Referenced
  <2> QED
    BY <2>1, <2>2
<1>8. DrainSafe'
  BY <1>1, <1>2, <1>3, Numbers DEF DrainSafe
<1>9. PublishedExists'
  BY <1>1, <1>3 DEF IInv, PublishedExists, Referenced
<1>10. KeysAccounted'
  BY <1>1 DEF IInv, TypeOK, KeysAccounted
<1> QED
  BY <1>1, <1>4, <1>5, <1>6, <1>7, <1>8, <1>9, <1>10 DEF IInv

\* The entry goes only when the key has no object.
LEMMA DrainEndOK == ASSUME IInv, DrainEnd PROVE IInv'
<1>0. PICK k \in Claims : k = drain.key
  BY DEF IInv, TypeOK, DrainEnd, DrainSafe
<1>1. /\ UNCHANGED <<att, parentLive, left, objects, late, job, claims, faults, trash>>
      /\ \A j \in Claims : Referenced(j)' = Referenced(j)
      /\ drain' = Idle
  BY DEF DrainEnd, Referenced
<1>2. drain' \in [key : Claims \cup {NoClaim}, purged : BOOLEAN, locked : BOOLEAN]
  BY <1>1 DEF Idle
<1>3. journal' \in [Claims -> {None} \cup 0 .. 2 * LeaseTime]
  BY <1>0 DEF DrainEnd, IInv, TypeOK
<1>4. \A j \in Claims : \/ journal'[j] = journal[j]
                        \/ j = k /\ journal'[j] = None /\ j \notin objects
  BY <1>0 DEF DrainEnd, IInv, TypeOK
<1>5. journal[k] \in {None, 0}
  BY <1>0, Numbers DEF IInv, DrainSafe
<1>6. TypeOK'
  BY <1>1, <1>2, <1>3 DEF IInv, TypeOK
<1>7. ClaimsCounted' /\ PublishedExists'
  BY <1>1 DEF IInv, ClaimsCounted, At, PublishedExists
<1>8. \A j \in Claims : KeyFresh(j) => KeyFresh(j)'
  BY <1>1, <1>4, Numbers DEF KeyFresh, Idle
<1>9. ASSUME NEW w \in Workers PROVE KeySafe(w)'
  <2>1. CASE At(w, "idle")
    BY <2>1, <1>1 DEF KeySafe, At
  <2>2. CASE ~At(w, "idle")
    <3>1. job[w].claim \in Claims
      BY <2>2, ClaimInRange DEF IInv
    <3>2. ASSUME left >= 0, journal[job[w].claim] # None,
                 journal[job[w].claim] > left
          PROVE  journal'[job[w].claim] = journal[job[w].claim]
      <4>1. left \in Int
        BY PreviewAssumption DEF IInv, TypeOK
      <4> QED
        BY <3>1, <3>2, <4>1, <1>4, <1>5
    <3> QED
      BY <3>1, <3>2, <1>1, <1>8 DEF IInv, KeySafe, At, Referenced
  <2> QED
    BY <2>1, <2>2
<1>10. DrainSafe'
  BY <1>1, Numbers DEF DrainSafe, Idle
<1>11. KeysAccounted'
  BY <1>1, <1>4 DEF IInv, TypeOK, KeysAccounted
<1> QED
  BY <1>1, <1>6, <1>7, <1>8, <1>9, <1>10, <1>11 DEF IInv

\* The published key is due at once, and no worker holds it.
LEMMA DeleteAttachmentOK == ASSUME IInv, DeleteAttachment PROVE IInv'
<1>1. /\ UNCHANGED <<parentLive, left, objects, late, job, claims, drain, faults, trash>>
      /\ att \in Att /\ att # None /\ att' = None
      /\ \A j : ~Referenced(j)'
  BY DEF DeleteAttachment, Referenced, IInv, TypeOK
<1>2. journal' \in [Claims -> {None} \cup 0 .. 2 * LeaseTime]
  <2>1. 0 \in 0 .. 2 * LeaseTime
    BY PreviewAssumption
  <2>2. journal \in [Claims -> {None} \cup 0 .. 2 * LeaseTime]
    BY DEF IInv, TypeOK
  <2>3. journal' = journal \/ journal' = [journal EXCEPT ![att.preview] = 0]
    BY DEF DeleteAttachment
  <2> QED
    BY <2>1, <2>2, <2>3
<1>3. \A j \in Claims : \/ journal'[j] = journal[j] /\ ~Referenced(j)
                        \/ journal'[j] = 0 /\ Referenced(j)
  BY <1>1, AttFields, Numbers DEF DeleteAttachment, IInv, TypeOK, Referenced
<1>4. TypeOK'
  BY <1>1, <1>2 DEF IInv, TypeOK
<1>5. ClaimsCounted' /\ PublishedExists'
  BY <1>1 DEF IInv, ClaimsCounted, At, PublishedExists
<1>6. \A j \in Claims : KeyFresh(j) => KeyFresh(j)'
  BY <1>1, <1>3 DEF KeyFresh
<1>7. ASSUME NEW w \in Workers PROVE KeySafe(w)'
  <2>1. CASE At(w, "idle")
    BY <2>1, <1>1 DEF KeySafe, At
  <2>2. CASE ~At(w, "idle")
    <3>1. job[w].claim \in Claims
      BY <2>2, ClaimInRange DEF IInv
    <3> QED
      BY <3>1, <1>1, <1>6 DEF IInv, KeySafe, At
  <2> QED
    BY <2>1, <2>2
<1>8. DrainSafe'
  BY <1>1, <1>3, Numbers DEF IInv, TypeOK, DrainSafe
<1>9. KeysAccounted'
  BY <1>1, <1>3, Numbers DEF IInv, TypeOK, KeysAccounted
<1> QED
  BY <1>1, <1>4, <1>5, <1>6, <1>7, <1>8, <1>9 DEF IInv

\* A key's due time and the lease come closer at the same pace.
LEMMA TickOK == ASSUME IInv, Tick PROVE IInv'
<1>1. /\ UNCHANGED <<att, parentLive, objects, late, job, claims, drain, faults, trash>>
      /\ \A j : Referenced(j)' = Referenced(j)
      /\ left' = IF left >= 0 THEN left - 1 ELSE left
  BY DEF Tick, Referenced
<1>2. \A j \in Claims : journal[j] = None \/ journal[j] \in 0 .. 2 * LeaseTime
  BY DEF IInv, TypeOK
<1>3. \A j \in Claims :
          /\ journal[j] = None => journal'[j] = None
          /\ journal[j] # None =>
              journal'[j] = IF journal[j] > 0 THEN journal[j] - 1 ELSE 0
  BY DEF Tick
<1>4. \A j \in Claims : /\ journal[j] = None <=> journal'[j] = None
                        /\ journal[j] = 0 => journal'[j] = 0
                        /\ journal'[j] \in {None} \cup 0 .. 2 * LeaseTime
  BY <1>2, <1>3, Numbers, PreviewAssumption
<1>5. left \in -1 .. LeaseTime /\ left' \in -1 .. LeaseTime
  BY <1>1, PreviewAssumption DEF IInv, TypeOK
<1>6. TypeOK'
  <2>1. journal' \in [Claims -> {None} \cup 0 .. 2 * LeaseTime]
    BY <1>4 DEF Tick
  <2> QED
    BY <1>1, <1>5, <2>1 DEF IInv, TypeOK
<1>7. ClaimsCounted' /\ PublishedExists'
  BY <1>1 DEF IInv, ClaimsCounted, At, PublishedExists
<1>8. \A j \in Claims : KeyFresh(j) => KeyFresh(j)'
  BY <1>1, <1>4 DEF KeyFresh
<1>9. ASSUME NEW j \in Claims, left' >= 0,
             left >= 0 => journal[j] # None /\ journal[j] > left
      PROVE  left >= 0 /\ journal'[j] # None /\ journal'[j] > left'
  BY <1>1, <1>2, <1>3, <1>4, <1>5, <1>9, PreviewAssumption
<1>10. ASSUME NEW w \in Workers PROVE KeySafe(w)'
  <2>1. CASE At(w, "idle")
    BY <2>1, <1>1 DEF KeySafe, At
  <2>2. CASE ~At(w, "idle")
    <3>1. job[w].claim \in Claims
      BY <2>2, ClaimInRange DEF IInv
    <3> QED
      BY <3>1, <1>1, <1>8, <1>9 DEF IInv, KeySafe, At
  <2> QED
    BY <2>1, <2>2
<1>11. DrainSafe' /\ KeysAccounted'
  BY <1>1, <1>4, Numbers DEF IInv, TypeOK, DrainSafe, KeysAccounted
<1> QED
  BY <1>1, <1>6, <1>7, <1>8, <1>10, <1>11 DEF IInv

-----------------------------------------------------------------------------
(* The invariant holds of the specification.                               *)

\* A new row: no claim, no key.
LEMMA InitOK == Init => IInv
<1> SUFFICES ASSUME Init PROVE IInv
  OBVIOUS
<1>1. att \in Att /\ att.status = "pending" /\ att.preview = 0 /\ att.token = 0
      /\ att.attempts = 0
  BY PreviewAssumption DEF Init, Att, NoClaim
<1>2. drain \in [key : Claims \cup {NoClaim}, purged : BOOLEAN, locked : BOOLEAN]
      /\ drain.key = NoClaim /\ drain.purged = FALSE
  BY DEF Init, Idle
<1>3. \A w \in Workers : job[w].at = "idle"
  BY DEF Init, NoJob
<1>4. TypeOK
  BY <1>1, <1>2, PreviewAssumption DEF Init, TypeOK, NoJob, NoClaim, Place
<1>5. ClaimsCounted
  BY <1>1, <1>3 DEF Init, ClaimsCounted, At, NoClaim
<1>6. \A k \in Claims : KeyFresh(k)
  BY <1>1, <1>2, Numbers DEF Init, KeyFresh, Referenced, NoClaim
<1>7. \A w \in Workers : KeySafe(w)
  BY <1>3 DEF KeySafe, At
<1>8. DrainSafe /\ PublishedExists /\ KeysAccounted
  BY <1>1, <1>2 DEF Init, DrainSafe, PublishedExists, KeysAccounted
<1> QED
  BY <1>4, <1>5, <1>6, <1>7, <1>8 DEF IInv

\* A step that changes nothing.
LEMMA StutterOK == IInv /\ UNCHANGED vars => IInv'
BY DEF vars, IInv, TypeOK, ClaimsCounted, KeyFresh, KeySafe, DrainSafe,
       PublishedExists, KeysAccounted, Referenced, At

\* Every action keeps the invariant.
LEMMA NextOK == IInv /\ [Next]_vars => IInv'
<1> SUFFICES ASSUME IInv, [Next]_vars PROVE IInv'
  OBVIOUS
<1>1. ASSUME NEW w \in Workers,
             \/ Claim(w) \/ Step(w) \/ Fail(w) \/ Cancel(w) \/ WorkerDies(w)
      PROVE  IInv'
  BY <1>1, ClaimOK, LoadOK, JournalOK, PutOK, PublishOK, FailOK, CancelOK,
     WorkerDiesOK DEF Step
<1>2. ASSUME NEW k \in Claims, DrainBegin(k) PROVE IInv'
  BY <1>2, DrainBeginOK
<1>3. CASE DrainStep \/ DrainFails \/ DrainLosesLock
  BY <1>3, DrainPurgeOK, DrainEndOK, DrainFaultOK DEF DrainStep
<1>4. CASE ClaimExhausted \/ MoveParent \/ DeleteAttachment \/ Tick
  BY <1>4, ClaimExhaustedOK, MoveParentOK, DeleteAttachmentOK, TickOK
<1>5. CASE UNCHANGED vars
  BY <1>5, StutterOK
<1> QED
  BY <1>1, <1>2, <1>3, <1>4, <1>5 DEF Next

\* The inductive invariant holds in every state of the preview job.
THEOREM Invariance == Spec => []IInv
<1> QED
  BY InitOK, NextOK, PTL DEF Spec

\* The published preview of an attachment has its object: the drain purges
\* only keys that no live lease can publish any more.
THEOREM PublishedHaveObjects == Spec => []PublishedExists
<1>1. IInv => PublishedExists
  BY DEF IInv
<1> QED
  BY <1>1, Invariance, PTL

\* Every stored key is published, journaled or was written late: the
\* journal, written before the put, is dropped only by the publication and
\* by a drain that saw no object.
THEOREM KeysAreAccounted == Spec => []KeysAccounted
<1>1. IInv => KeysAccounted
  BY DEF IInv
<1> QED
  BY <1>1, Invariance, PTL
=============================================================================
