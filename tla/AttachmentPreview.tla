-------------------------- MODULE AttachmentPreview --------------------------
(***************************************************************************)
(* The preview job of one stored image (src/attachments/preview_job.rs,    *)
(* src/db/attachment_preview.rs): workers of several servers lease the     *)
(* row, render outside any transaction, write the preview at a fresh key   *)
(* and publish it, while the journal drain, the trash and the deletion of  *)
(* the attachment go on.                                                   *)
(*                                                                         *)
(* Time is kept as what is left of each deadline, so that it never ends:   *)
(* a lease with 0 left is neither live (expires_at > now) nor takeable     *)
(* (expires_at < now).  The key of a worker is the number of its claim,    *)
(* which is fresh, like its lease token.                                   *)
(***************************************************************************)
EXTENDS Integers, FiniteSets

CONSTANTS
    Workers,        \* preview workers, one per server
    None,           \* no attachment, no journal entry
    LeaseTime,      \* PREVIEW_LEASE_SECS in ticks
    MaxAttempts,    \* claims of a row, 3 in the code
    MaxFaults,      \* bound on crashes, failed calls and shutdowns
    MaxTrash        \* bound on moves of the parent to the trash and back

ASSUME PreviewAssumption ==
    /\ LeaseTime \in Nat \ {0}
    /\ MaxAttempts \in Nat \ {0}
    /\ MaxFaults \in Nat /\ MaxTrash \in Nat

Claims == 1 .. (MaxAttempts + MaxFaults)
NoClaim == 0

VARIABLES
    att,        \* the preview columns of the row
    parentLive, \* neither parent nor workspace is in the trash
    left,       \* what is left of the lease
    journal,    \* attachment_object_cleanups: time left until due, by key
    objects,    \* keys with bytes in storage
    late,       \* keys written when they were already due
    job,        \* where each worker is, and its claim
    claims,     \* claims made so far
    drain,      \* the journal drain: the key it is at and its row lock
    faults, trash

vars == <<att, parentLive, left, journal, objects, late, job, claims, drain,
          faults, trash>>

Att == [status : {"pending", "ok", "failed"}, token : Claims \cup {NoClaim},
        attempts : 0 .. MaxAttempts, preview : Claims \cup {NoClaim}]
Place == {"idle", "claimed", "loaded", "journaled", "stored"}
NoJob == [at |-> "idle", claim |-> NoClaim]
Idle == [key |-> NoClaim, purged |-> FALSE, locked |-> FALSE]

ASSUME NoneAssumption == None \notin Att /\ None \notin Nat

\* The types of every variable.
TypeOK ==
    /\ att \in Att \cup {None}
    /\ parentLive \in BOOLEAN
    /\ left \in -1 .. LeaseTime
    /\ journal \in [Claims -> {None} \cup 0 .. 2 * LeaseTime]
    /\ objects \subseteq Claims
    /\ late \subseteq Claims
    /\ job \in [Workers -> [at : Place, claim : Claims \cup {NoClaim}]]
    /\ claims \in Claims \cup {0}
    /\ drain \in [key : Claims \cup {NoClaim}, purged : BOOLEAN,
                  locked : BOOLEAN]
    /\ faults \in 0 .. MaxFaults
    /\ trash \in 0 .. MaxTrash

Init ==
    /\ att = [status |-> "pending", token |-> NoClaim, attempts |-> 0,
              preview |-> NoClaim]
    /\ parentLive = TRUE
    /\ left = -1
    /\ journal = [k \in Claims |-> None]
    /\ objects = {}
    /\ late = {}
    /\ job = [w \in Workers |-> NoJob]
    /\ claims = 0
    /\ drain = Idle
    /\ faults = 0
    /\ trash = 0

-----------------------------------------------------------------------------
(* Guards of the statements.                                               *)

Pending == att # None /\ att.status = "pending"
Expired == att.token # NoClaim /\ left = -1

\* Variant: a lease is never taken over.
TakeableFree == att.token = NoClaim

Takeable == att.token = NoClaim \/ Expired

\* preview_attachment_is_live: the claim has the row and the parent is there.
Holds(w) == Pending /\ att.token = job[w].claim /\ parentLive

\* Variant: the token alone is compared.
HoldsToken(w) == Pending /\ att.token = job[w].claim /\ parentLive

\* Everything but failing and releasing also asks for an unexpired lease.
HoldsLive(w) == Holds(w) /\ left > 0

At(w, place) == job[w].at = place
Goto(w, place) == job' = [job EXCEPT ![w].at = place]
Leave(w) == job' = [job EXCEPT ![w] = NoJob]

-----------------------------------------------------------------------------
(* app_claim_attachment_preview                                            *)

\* A row whose last lease ran out unreleased is given up.
ClaimExhausted ==
    /\ Pending
    /\ att.attempts >= MaxAttempts
    /\ Expired
    /\ att' = [att EXCEPT !.status = "failed", !.token = NoClaim]
    /\ UNCHANGED <<parentLive, left, journal, objects, late, job, claims,
                   drain, faults, trash>>

Claim(w) ==
    /\ At(w, "idle")
    /\ Pending
    /\ parentLive
    /\ att.attempts < MaxAttempts
    /\ Takeable
    /\ claims' = claims + 1
    /\ att' = [att EXCEPT !.token = claims', !.attempts = @ + 1]
    /\ left' = LeaseTime
    /\ job' = [job EXCEPT ![w] = [at |-> "claimed", claim |-> claims']]
    /\ UNCHANGED <<parentLive, journal, objects, late, drain, faults, trash>>

-----------------------------------------------------------------------------
(* process_one_preview_backend                                             *)

\* load_attachment_preview
Load(w) ==
    /\ At(w, "claimed")
    /\ IF HoldsLive(w) THEN Goto(w, "loaded") ELSE Leave(w)
    /\ UNCHANGED <<att, parentLive, left, journal, objects, late, claims,
                   drain, faults, trash>>

\* fail_attachment_preview, for images the helper rejects
Fail(w) ==
    /\ At(w, "loaded")
    /\ att' = IF Holds(w)
              THEN [att EXCEPT !.status = "failed", !.token = NoClaim]
              ELSE att
    /\ Leave(w)
    /\ UNCHANGED <<parentLive, left, journal, objects, late, claims, drain,
                   faults, trash>>

\* Variant: the entry is due when the lease may still publish the key.
JournalForOneLease(w) ==
    /\ At(w, "loaded")
    /\ IF HoldsLive(w)
       THEN /\ journal' = [journal EXCEPT ![job[w].claim] = left]
            /\ Goto(w, "journaled")
       ELSE UNCHANGED journal /\ Leave(w)
    /\ UNCHANGED <<att, parentLive, left, objects, late, claims, drain,
                   faults, trash>>

\* journal_attachment_preview: due at GREATEST(now + 2 leases, expires_at),
\* which is the former.
Journal(w) ==
    /\ At(w, "loaded")
    /\ IF HoldsLive(w)
       THEN /\ journal' = [journal EXCEPT ![job[w].claim] = 2 * LeaseTime]
            /\ Goto(w, "journaled")
       ELSE UNCHANGED journal /\ Leave(w)
    /\ UNCHANGED <<att, parentLive, left, objects, late, claims, drain,
                   faults, trash>>

\* A key that is due, or was, may already have been drained.
Late(k) == journal[k] \in {None, 0}
Written(k) ==
    /\ objects' = objects \cup {k}
    /\ late' = IF Late(k) THEN late \cup {k} ELSE late

Put(w) ==
    /\ At(w, "journaled")
    /\ Written(job[w].claim)
    /\ Goto(w, "stored")
    /\ UNCHANGED <<att, parentLive, left, journal, claims, drain, faults,
                   trash>>

\* publish_attachment_preview waits for the drain's row lock.
Publish(w) ==
    /\ At(w, "stored")
    /\ LET k == job[w].claim IN
       /\ ~(drain.locked /\ drain.key = k)
       /\ IF journal[k] # None /\ HoldsLive(w) /\ att.preview = NoClaim
          THEN /\ att' = [att EXCEPT !.status = "ok", !.token = NoClaim,
                                     !.preview = k]
               /\ journal' = [journal EXCEPT ![k] = None]
          ELSE UNCHANGED <<att, journal>>
    /\ Leave(w)
    /\ UNCHANGED <<parentLive, left, objects, late, claims, drain, faults,
                   trash>>

\* A shutdown gives the claim back (release_attachment_preview); a put it
\* interrupts may have written the key.
Cancel(w) ==
    /\ job[w].at \in {"loaded", "journaled", "stored"}
    /\ faults < MaxFaults
    /\ faults' = faults + 1
    /\ att' = IF Holds(w)
              THEN [att EXCEPT !.token = NoClaim,
                               !.attempts = IF @ > 0 THEN @ - 1 ELSE 0]
              ELSE att
    /\ \/ UNCHANGED <<objects, late>>
       \/ At(w, "journaled") /\ Written(job[w].claim)
    /\ Leave(w)
    /\ UNCHANGED <<parentLive, left, journal, claims, drain, trash>>

\* A crash, or an error that leaves the lease to run out.
WorkerDies(w) ==
    /\ ~At(w, "idle")
    /\ faults < MaxFaults
    /\ faults' = faults + 1
    /\ \/ UNCHANGED <<objects, late>>
       \/ At(w, "journaled") /\ Written(job[w].claim)
    /\ Leave(w)
    /\ UNCHANGED <<att, parentLive, left, journal, claims, drain, trash>>

-----------------------------------------------------------------------------
(* reclaim_one_object for keys of previews: the journal row is locked from *)
(* the look at it to its deletion.                                         *)

Referenced(k) == att # None /\ att.preview = k

DrainBegin(k) ==
    /\ drain = Idle
    /\ journal[k] = 0
    /\ IF Referenced(k)
       THEN journal' = [journal EXCEPT ![k] = None] /\ UNCHANGED drain
       ELSE /\ drain' = [key |-> k, purged |-> FALSE, locked |-> TRUE]
            /\ UNCHANGED journal
    /\ UNCHANGED <<att, parentLive, left, objects, late, job, claims, faults,
                   trash>>

DrainPurge ==
    /\ drain.key # NoClaim
    /\ ~drain.purged
    /\ objects' = objects \ {drain.key}
    /\ drain' = [drain EXCEPT !.purged = TRUE]
    /\ UNCHANGED <<att, parentLive, left, journal, late, job, claims, faults,
                   trash>>

\* The entry goes when storage reports no object; otherwise, and without
\* the connection, it stays for another round.
DrainEnd ==
    /\ drain.purged
    /\ journal' = IF drain.locked /\ drain.key \notin objects
                  THEN [journal EXCEPT ![drain.key] = None] ELSE journal
    /\ drain' = Idle
    /\ UNCHANGED <<att, parentLive, left, objects, late, job, claims, faults,
                   trash>>

\* The purge fails or the process dies.
DrainFails ==
    /\ drain # Idle
    /\ faults < MaxFaults
    /\ faults' = faults + 1
    /\ drain' = Idle
    /\ UNCHANGED <<att, parentLive, left, journal, objects, late, job,
                   claims, trash>>

\* The drain's connection and its row lock are lost; the purge goes on.
DrainLosesLock ==
    /\ drain.locked
    /\ faults < MaxFaults
    /\ faults' = faults + 1
    /\ drain' = [drain EXCEPT !.locked = FALSE]
    /\ UNCHANGED <<att, parentLive, left, journal, objects, late, job,
                   claims, trash>>

-----------------------------------------------------------------------------
(* The attachment and time.                                                *)

MoveParent ==
    /\ trash < MaxTrash
    /\ trash' = trash + 1
    /\ parentLive' = ~parentLive
    /\ UNCHANGED <<att, left, journal, objects, late, job, claims, drain,
                   faults>>

\* Variant: the trigger journals the original only.
DeleteOriginal ==
    /\ att # None
    /\ att' = None
    /\ UNCHANGED <<parentLive, left, journal, objects, late, job, claims,
                   drain, faults, trash>>

\* The delete trigger journals the published key.
DeleteAttachment ==
    /\ att # None
    /\ journal' = IF att.preview = NoClaim THEN journal
                  ELSE [journal EXCEPT ![att.preview] = 0]
    /\ att' = None
    /\ UNCHANGED <<parentLive, left, objects, late, job, claims, drain,
                   faults, trash>>

Tick ==
    /\ left' = IF left >= 0 THEN left - 1 ELSE left
    /\ journal' = [k \in Claims |->
                      IF journal[k] = None THEN None
                      ELSE IF journal[k] > 0 THEN journal[k] - 1 ELSE 0]
    /\ UNCHANGED <<att, parentLive, objects, late, job, claims, drain,
                   faults, trash>>

-----------------------------------------------------------------------------
Step(w) == Load(w) \/ Journal(w) \/ Put(w) \/ Publish(w)
DrainStep == DrainPurge \/ DrainEnd

Next ==
    \/ ClaimExhausted
    \/ \E w \in Workers : \/ Claim(w) \/ Step(w) \/ Fail(w) \/ Cancel(w)
                          \/ WorkerDies(w)
    \/ \E k \in Claims : DrainBegin(k)
    \/ DrainStep \/ DrainFails \/ DrainLosesLock
    \/ MoveParent \/ DeleteAttachment \/ Tick

Spec == Init /\ [][Next]_vars

\* The job loops poll, started work ends, the drain comes round, and time
\* passes.
FairSpec ==
    /\ Spec
    /\ WF_vars(ClaimExhausted)
    /\ \A w \in Workers : WF_vars(Claim(w)) /\ WF_vars(Step(w))
    /\ \A k \in Claims : SF_vars(DrainBegin(k))
    /\ WF_vars(DrainStep)
    /\ WF_vars(Tick)

-----------------------------------------------------------------------------
(* Properties.                                                             *)

\* The published preview of an attachment has its object: no drain, not
\* even one that lost its lock, purges a key that is published meanwhile.
PublishedExists ==
    att # None /\ att.status = "ok" => att.preview \in objects

\* Every key in storage is published or will be looked at again; only a put
\* that ends when its key is already due escapes the journal.
KeysAccounted ==
    \A k \in objects : journal[k] # None \/ Referenced(k) \/ k \in late

\* Claims are counted by the attempts and by the shutdowns that gave one
\* back, so they stay within their bound.
ClaimsCounted ==
    /\ att # None => /\ claims <= att.attempts + faults
                     /\ att.token <= claims
                     /\ att.preview <= claims
                     /\ att.preview # NoClaim <=> att.status = "ok"
    /\ \A w \in Workers : ~At(w, "idle") => job[w].claim \in 1 .. claims
    /\ \A v, w \in Workers :
        ~At(v, "idle") /\ ~At(w, "idle") /\ job[v].claim = job[w].claim => v = w

\* Nobody but its worker knows a key before it is journaled.
KeyFresh(k) ==
    journal[k] = None /\ k \notin objects /\ drain.key # k /\ ~Referenced(k)

\* While its lease is not over a journaled key is not due, so what was
\* written there is still there.
KeySafe(w) ==
    LET k == job[w].claim IN
    /\ At(w, "claimed") \/ At(w, "loaded") => KeyFresh(k)
    /\ At(w, "journaled") \/ At(w, "stored") => ~Referenced(k)
    /\ /\ At(w, "journaled") \/ At(w, "stored")
       /\ att # None /\ att.token = k /\ left >= 0
       => /\ journal[k] # None /\ journal[k] > left
          /\ At(w, "stored") => k \in objects

\* The drain is at a key that is due, or whose entry is gone, and that is
\* not published, with or without its row lock.
DrainSafe ==
    /\ drain.key # NoClaim =>
        journal[drain.key] \in {None, 0} /\ ~Referenced(drain.key)
    /\ drain.purged => drain.key # NoClaim

\* The inductive invariant.
IInv ==
    /\ TypeOK
    /\ ClaimsCounted
    /\ \A k \in Claims : k > claims => KeyFresh(k)
    /\ \A w \in Workers : KeySafe(w)
    /\ DrainSafe
    /\ PublishedExists
    /\ KeysAccounted

\* A preview does not stay pending while its parent is there.
PreviewSettles ==
    (Pending /\ parentLive) ~> (~Pending \/ ~parentLive)

\* An object that is not published leaves storage.
KeysReclaimed ==
    \A k \in Claims :
        (k \in objects /\ k \notin late) ~>
            (k \notin objects \/ Referenced(k) \/ k \in late)
=============================================================================
