----------------------- MODULE AttachmentUploadProofs -----------------------
(***************************************************************************)
(* The invariant of AttachmentUpload, proved for any number of completing  *)
(* requests, sweeps, drains, owner purges, parts and faults.               *)
(*                                                                         *)
(* The argument.  Two parts of it need no lock.  A row is made once and    *)
(* its removal journals the key, so that row or journal stands for the     *)
(* bytes until a drain that finds no object drops the entry.  A drain      *)
(* aborts the open upload first (PlacesSane), and every object is made     *)
(* from an open upload; only a create_upload that still runs may open one  *)
(* afterwards, which then answers for it or is lost.                       *)
(*                                                                         *)
(* The rest is what the lock guards (Guarded), until a connection that     *)
(* holds it is lost or the owner is past restoring: its purge takes no     *)
(* lock, but does not begin before (PlacesSane), and from there the owner  *)
(* does not come back.  Who is in a chain has the lock (Exclusive), so it  *)
(* is alone.  A prepared completion fixes the content: local parts are     *)
(* closed by it, S3 closes the upload with the publication, so an object   *)
(* that is found is that of the prepared completion, whoever published it  *)
(* (Published), and the completer that marks the row stored works for the  *)
(* same completion (CompleterSane).                                        *)
(***************************************************************************)
EXTENDS AttachmentUpload, TLAPS

\* The columns of the attachment row.
LEMMA RowFields ==
    ASSUME NEW r \in Row
    PROVE  /\ r # None /\ r.status \in {"uploading", "assembling", "stored"}
           /\ r.prepared \in Content \cup {None} /\ r.ref \in BOOLEAN
           /\ r.receipt \in Content \cup {None}
BY NoneAssumption DEF Row

\* A content is a list of parts.
LEMMA ContentFacts ==
    /\ Content \subseteq [Parts -> Etags \cup {NoEtag}]
    /\ None \notin Content /\ None \notin [Parts -> Etags \cup {NoEtag}]
BY NoneAssumption DEF Content

\* Who is who.
LEMMA Roles ==
    /\ \A c \in Completers : c \in Lockers /\ c \notin Sweepers /\ c \notin Reclaimers
    /\ \A s \in Sweepers : s \in Lockers /\ s \notin Completers /\ s \notin Reclaimers
    /\ \A r \in Reclaimers : r \in Lockers /\ r \notin Completers /\ r \notin Sweepers
    /\ \A g \in Purgers : g \in Actors /\ g \notin Lockers
    /\ \A a \in Lockers : a \in Actors /\ a \notin Purgers
    /\ \A a \in Actors : \/ a \in Completers \/ a \in Sweepers \/ a \in Reclaimers
                         \/ a \in Purgers
    /\ \A a \in Lockers : a \in Completers \/ a \in Sweepers \/ a \in Reclaimers
BY UploadAssumption DEF Actors, Lockers

\* An actor moves: the others stay where they are.
LEMMA GotoFields ==
    ASSUME pc \in [Actors -> Place], NEW a \in Actors, NEW p \in Place, Goto(a, p)
    PROVE  /\ pc' \in [Actors -> Place] /\ pc'[a] = p
           /\ \A b \in Actors : b # a => pc'[b] = pc[b]
BY DEF Goto

\* An actor leaves: the lock is free or another's.
LEMMA LeaveFields ==
    ASSUME pc \in [Actors -> Place], holder \in Actors \cup {Nobody}, NEW a \in Actors, Leave(a)
    PROVE  /\ pc' \in [Actors -> Place] /\ pc'[a] = "idle"
           /\ \A b \in Actors : b # a => pc'[b] = pc[b]
           /\ holder' \in Actors \cup {Nobody}
           /\ Exclusive => Exclusive'
<1>1. "idle" \in Place
  BY DEF Place
<1>2. /\ pc' \in [Actors -> Place] /\ pc'[a] = "idle"
      /\ \A b \in Actors : b # a => pc'[b] = pc[b]
  BY <1>1, GotoFields DEF Leave
<1>3. holder' = IF holder = a THEN Nobody ELSE holder
  BY DEF Leave, Release
<1>4. Exclusive => Exclusive'
  BY <1>2, <1>3, Roles DEF Exclusive
<1> QED
  BY <1>2, <1>3, <1>4

\* An actor takes the free lock: nobody else is in a chain.
LEMMA EnterFields ==
    ASSUME pc \in [Actors -> Place], NEW a \in Lockers, NEW p \in Place, Goto(a, p),
           holder = Nobody, holder' = a
    PROVE  /\ pc' \in [Actors -> Place] /\ pc'[a] = p
           /\ \A b \in Actors : b # a => pc'[b] = pc[b]
           /\ Exclusive => Exclusive' /\ \A b \in Lockers : pc[b] = "idle"
<1>1. /\ pc' \in [Actors -> Place] /\ pc'[a] = p
      /\ \A b \in Actors : b # a => pc'[b] = pc[b]
  BY GotoFields, Roles
<1>2. Exclusive => \A b \in Lockers : pc[b] = "idle"
  BY UploadAssumption, Roles DEF Exclusive
<1> QED
  BY <1>1, <1>2, Roles DEF Exclusive

\* With the lock, an actor in a chain is alone.
LEMMA Alone ==
    ASSUME Exclusive, NEW a \in Lockers, pc[a] # "idle"
    PROVE  /\ HasSession(a) /\ \A b \in Lockers : b # a => pc[b] = "idle"
BY DEF Exclusive, HasSession

\* A step that deletes the row, or finds it gone, leaves nothing to guard.
LEMMA RowGone ==
    ASSUME row' = None
    PROVE  Guarded'
BY DEF Guarded, Published, CompleterSane, SweeperSane

-----------------------------------------------------------------------------
(* create_upload.                                                          *)

\* The row is reserved before its key is used.
LEMMA ReserveOK == ASSUME IInv, Reserve PROVE IInv'
<1>0. /\ creator = "none" /\ creator' = "reserved"
      /\ row' = [status |-> "uploading", prepared |-> None, ref |-> FALSE, receipt |-> None]
      /\ UNCHANGED <<owner, storage, parts, payload, journaled, holder, pc, want, identified, answer,
                     putGranted, faults, losses>>
  BY DEF Reserve
<1>1. row' \in Row /\ row'.status = "uploading" /\ row'.prepared = None
  BY <1>0 DEF Row
<1>2. row' # None
  BY <1>1, RowFields
<1>3. (\A a \in Actors : pc[a] = "idle") /\ \A c \in Completers : answer[c] # "done"
  BY <1>0 DEF IInv, PlacesSane, RowLife, Settled
<1>4. row = None /\ parts = None /\ payload = None /\ ~journaled
  BY <1>0 DEF IInv, RowLife
<1>5. TypeOK'
  BY <1>0, <1>1 DEF IInv, TypeOK
<1>6. RowLife' /\ PlacesSane' /\ NothingOrphaned'
  BY <1>0, <1>2, <1>3, <1>4, Roles DEF IInv, RowLife, PlacesSane, NothingOrphaned, NothingAbandoned, Completing, Restorable, Settled
<1>e. losses' = 0 => Exclusive'
  BY <1>0 DEF IInv, Exclusive
<1>7. losses' = 0 /\ Restorable' => Guarded'
  BY <1>0, <1>1, <1>2, <1>3, <1>4, Roles DEF IInv, Guarded, Exclusive, Published, CompleterSane,
     SweeperSane, Completing, Incomplete, InStatus
<1> QED
  BY <1>5, <1>6, <1>7, <1>e DEF IInv

\* The multipart upload is opened, and on S3 its reference kept, unless the
\* row is gone.
LEMMA CreatorSteps == ASSUME IInv, OpenMultipart \/ PersistRef PROVE IInv'
<1>0. /\ creator \in {"reserved", "opened"} /\ creator' \in {"opened", "returned", "lost"}
      /\ UNCHANGED <<owner, storage, payload, journaled, holder, pc, want, identified, answer,
                     putGranted, faults, losses>>
      /\ creator = "reserved" => row' = row
      /\ row = None => creator' \in {"opened", "lost"} /\ row' = None
      /\ creator' = "lost" => row = None
  BY DEF OpenMultipart, PersistRef, InStatus
<1>1. /\ row \in Row \cup {None} /\ payload = None
      /\ row # None => row.prepared = None /\ ~journaled
  BY <1>0 DEF IInv, RowLife, TypeOK
<1>2. row # None =>
          /\ row' \in Row /\ row' # None /\ row'.status = row.status
          /\ creator' = "returned" => Local \/ row'.ref
          /\ row'.prepared = None
  <2> HAVE row # None
  <2>1. CASE OpenMultipart
    BY <1>1, <2>1, RowFields DEF OpenMultipart
  <2>2. CASE PersistRef
    <3>1. row' = [row EXCEPT !.ref = TRUE]
      BY <2>2 DEF PersistRef
    <3>2. row' \in Row /\ row'.status = row.status /\ row'.ref /\ row'.prepared = None
      BY <1>1, <3>1 DEF Row
    <3> QED
      BY <3>2, RowFields
  <2> QED
    BY <2>1, <2>2
<1>3. parts' \in [Parts -> Etags \cup {NoEtag}] \cup {None}
  BY DEF OpenMultipart, PersistRef, IInv, TypeOK
<1>4. /\ \A a \in Completers \cup Sweepers : pc[a] = "idle"
      /\ \A c \in Completers : answer[c] # "done"
  BY <1>0 DEF IInv, PlacesSane, RowLife, Settled
<1>5. TypeOK'
  BY <1>0, <1>1, <1>2, <1>3 DEF IInv, TypeOK
<1>6. RowLife' /\ NothingOrphaned'
  BY <1>0, <1>1, <1>2, <1>4 DEF IInv, RowLife, NothingOrphaned, NothingAbandoned, Settled, Local
<1>7. PlacesSane'
  <2>1. \A r \in Reclaimers : pc[r] # "idle" => row = None
    BY DEF IInv, PlacesSane
  <2> QED
    BY <1>0, <1>1, <1>4, <2>1, Roles DEF IInv, PlacesSane, Completing, Restorable, Local
<1>e. losses' = 0 => Exclusive'
  BY <1>0 DEF IInv, Exclusive
<1>8. losses' = 0 /\ Restorable' => Guarded'
  <2> HAVE losses' = 0 /\ Restorable'
  <2>1. Guarded
    BY <1>0 DEF IInv, Restorable
  <2>2. CASE row = None
    BY <1>0, <2>2, RowGone
  <2>3. CASE row # None
    BY <1>0, <1>1, <1>2, <1>4, <2>1, <2>3 DEF Guarded, Published, CompleterSane,
       SweeperSane, Completing, Incomplete, InStatus, Local
  <2> QED
    BY <2>2, <2>3
<1> QED
  BY <1>5, <1>6, <1>7, <1>8, <1>e DEF IInv

\* create_upload dies or cleans up.
LEMMA CreateFailsOK == ASSUME IInv, CreateFails \/ CleanupReserved PROVE IInv'
<1>0. /\ creator \in {"reserved", "opened"} /\ creator' \in {"failed", "lost"}
      /\ faults' \in {faults, faults + 1}
      /\ UNCHANGED <<owner, storage, holder, pc, want, identified, answer, putGranted, losses>>
  BY DEF CreateFails, CleanupReserved
<1>1. /\ row \in Row \cup {None} /\ payload = None
      /\ row # None => row.prepared = None /\ ~journaled
  BY <1>0 DEF IInv, RowLife, TypeOK
<1>2. /\ \A a \in Completers \cup Sweepers : pc[a] = "idle"
      /\ \A c \in Completers : answer[c] # "done"
  BY <1>0 DEF IInv, PlacesSane, RowLife, Settled
<1>3. /\ payload' = None /\ parts' \in {parts, None}
      /\ \/ row' = None /\ journaled' = TRUE /\ parts' = None /\ creator' = "failed"
         \/ /\ UNCHANGED <<row, journaled>> /\ creator' = "failed"
            /\ parts' = None \/ row # None
         \/ UNCHANGED <<row, journaled>> /\ creator' = "lost" /\ row = None
  BY <1>1 DEF CreateFails, CleanupReserved, DeleteRow
<1>4. TypeOK'
  <2>1. faults' \in Nat
    BY <1>0 DEF IInv, TypeOK
  <2> QED
    BY <1>0, <1>1, <1>3, <2>1 DEF IInv, TypeOK
<1>5. RowLife' /\ NothingOrphaned'
  BY <1>0, <1>1, <1>2, <1>3 DEF IInv, RowLife, NothingOrphaned, NothingAbandoned, Settled, Local
<1>6. PlacesSane'
  <2>1. \A r \in Reclaimers : pc[r] # "idle" => row = None
    BY DEF IInv, PlacesSane
  <2> QED
    BY <1>0, <1>1, <1>2, <1>3, <2>1, Roles DEF IInv, PlacesSane, Completing, Restorable, Local
<1>e. losses' = 0 => Exclusive'
  BY <1>0 DEF IInv, Exclusive
<1>7. losses' = 0 /\ Restorable' => Guarded'
  <2> HAVE losses' = 0 /\ Restorable'
  <2>1. Guarded
    BY <1>0 DEF IInv, Restorable
  <2>2. CASE row' = None
    BY <2>2, RowGone
  <2>3. CASE row' = row
    BY <1>0, <1>1, <1>2, <1>3, <2>1, <2>3 DEF Guarded, Published, CompleterSane,
       SweeperSane, Completing, Incomplete, InStatus, Local
  <2> QED
    BY <1>3, <2>2, <2>3
<1> QED
  BY <1>4, <1>5, <1>6, <1>7, <1>e DEF IInv

-----------------------------------------------------------------------------
(* Parts.                                                                  *)

\* A part arrives on local storage, where a prepared completion closes the
\* upload, or on S3, where it does not.
LEMMA PartOK ==
    ASSUME IInv, NEW n \in Parts, NEW e \in Etags, CommitPart(n, e) \/ PutPart(n, e)
    PROVE  IInv'
<1>0. /\ parts # None /\ parts' = [parts EXCEPT ![n] = e]
      /\ Local => AcceptsParts /\ holder = Nobody
      /\ UNCHANGED <<owner, storage, row, creator, payload, journaled, holder, pc, want, identified,
                     answer, putGranted, faults, losses>>
  BY DEF CommitPart, PutPart, around
<1>1. parts' \in [Parts -> Etags \cup {NoEtag}] /\ parts' # None
  <2>1. parts \in [Parts -> Etags \cup {NoEtag}]
    BY <1>0 DEF IInv, TypeOK
  <2>2. parts' \in [Parts -> Etags \cup {NoEtag}]
    BY <1>0, <2>1
  <2> QED
    BY <2>2, NoneAssumption
<1>2. TypeOK'
  BY <1>0, <1>1 DEF IInv, TypeOK
<1>3. RowLife' /\ NothingOrphaned'
  BY <1>0, <1>1 DEF IInv, RowLife, NothingOrphaned, NothingAbandoned, Settled, Local
<1>4. PlacesSane'
  BY <1>0 DEF IInv, PlacesSane, Completing, Restorable, Settled, Local
<1>e. losses' = 0 => Exclusive'
  BY <1>0 DEF IInv, Exclusive
<1>5. losses' = 0 /\ Restorable' => Guarded'
  <2> HAVE losses' = 0 /\ Restorable'
  <2>1. Guarded
    BY <1>0 DEF IInv, Restorable
  <2>2. Published'
    BY <1>0, <2>1 DEF Guarded, Published, AcceptsParts, Incomplete, InStatus, Local
  <2>3. \A c \in Completers : CompleterSane(c)'
    BY <1>0, <2>1 DEF Guarded, CompleterSane, Completing, Incomplete, InStatus
  <2> QED
    BY <1>0, <2>1, <2>2, <2>3 DEF Guarded, Exclusive, SweeperSane, Incomplete, InStatus
<1> QED
  BY <1>2, <1>3, <1>4, <1>5, <1>e DEF IInv

\* A part is granted, the connection with the lock is lost, the owner comes
\* or goes, or nothing happens.  An owner past restoring does not come back.
LEMMA GrantOK ==
    ASSUME IInv, \/ GrantPut \/ LoseSession \/ UNCHANGED vars
                 \/ TrashOwner \/ RestoreOwner \/ TrashExpires \/ DeleteWorkspace
    PROVE  IInv'
<1>0. /\ UNCHANGED <<storage, row, creator, parts, payload, journaled, pc, want, identified,
                     answer, faults>>
      /\ putGranted' \in BOOLEAN /\ holder' \in Actors \cup {Nobody}
      /\ owner' \in {"live", "trashed", "expired", "deleted"} /\ (Restorable' => Restorable)
      /\ losses' \in Nat /\ (losses' = 0 => losses = 0 /\ holder' = holder)
  <2>1. /\ losses \in Nat /\ putGranted \in BOOLEAN /\ holder \in Actors \cup {Nobody}
        /\ owner \in {"live", "trashed", "expired", "deleted"}
    BY DEF IInv, TypeOK
  <2>2. CASE LoseSession
    BY <2>1, <2>2 DEF LoseSession, around, Restorable
  <2>3. CASE GrantPut \/ UNCHANGED vars
    <3>1. /\ UNCHANGED <<owner, storage, row, creator, parts, payload, journaled, pc, want,
                         identified, answer, faults, holder, losses>>
          /\ putGranted' = TRUE \/ putGranted' = putGranted
      BY <2>3 DEF GrantPut, vars, around
    <3> QED
      BY <2>1, <3>1 DEF Restorable
  <2>4. CASE TrashOwner \/ RestoreOwner \/ TrashExpires \/ DeleteWorkspace
    <3>1. /\ owner' \in {"live", "trashed", "expired", "deleted"}
          /\ owner' \in {"live", "trashed"} => owner \in {"live", "trashed"}
          /\ UNCHANGED <<storage, row, creator, parts, payload, journaled, pc, want, identified,
                         answer, faults, holder, losses, putGranted>>
      BY <2>4 DEF TrashOwner, RestoreOwner, TrashExpires, DeleteWorkspace, OwnerBecomes
    <3> QED
      BY <2>1, <3>1 DEF Restorable
  <2> QED
    BY <2>2, <2>3, <2>4
<1>1. TypeOK'
  BY <1>0 DEF IInv, TypeOK
<1>2. RowLife' /\ NothingOrphaned'
  BY <1>0 DEF IInv, RowLife, NothingOrphaned, NothingAbandoned, Settled, Local
<1>3. PlacesSane'
  BY <1>0 DEF IInv, PlacesSane, Completing, Settled, Local
<1>e. losses' = 0 => Exclusive'
  BY <1>0 DEF IInv, Exclusive
<1>4. losses' = 0 /\ Restorable' => Guarded'
  BY <1>0 DEF IInv, Guarded, Published, CompleterSane, SweeperSane, Completing, Incomplete,
     InStatus, Local, RightSize
<1> QED
  BY <1>1, <1>2, <1>3, <1>4, <1>e DEF IInv

-----------------------------------------------------------------------------
(* Chains.                                                                 *)

\* A deletion takes no lock.
LEMMA DeleteAttachmentOK == ASSUME IInv, DeleteAttachment PROVE IInv'
<1>0. /\ row # None /\ row' = None /\ journaled' = TRUE
      /\ UNCHANGED <<owner, storage, creator, parts, payload, holder, pc, want, identified, answer,
                     putGranted, faults, losses>>
  BY DEF DeleteAttachment, DeleteRow, around
<1>1. TypeOK'
  BY <1>0 DEF IInv, TypeOK
<1>2. RowLife' /\ PlacesSane' /\ NothingOrphaned'
  BY <1>0 DEF IInv, RowLife, PlacesSane, NothingOrphaned, NothingAbandoned, Completing, Restorable, Settled, Local
<1>e. losses' = 0 => Exclusive'
  BY <1>0 DEF IInv, Exclusive
<1>3. losses' = 0 /\ Restorable' => Guarded'
  BY <1>0, RowGone
<1> QED
  BY <1>1, <1>2, <1>3, <1>e DEF IInv

\* A process dies, or a purge fails: everything stays as the chain left it.
LEMMA CutOK ==
    ASSUME IInv, NEW a \in Actors, Crash(a) \/ PurgeFails(a)
    PROVE  IInv'
<1>0. /\ Leave(a) /\ faults' = faults + 1
      /\ UNCHANGED <<owner, storage, row, creator, parts, payload, journaled, want, identified, answer,
                     putGranted, losses>>
  BY DEF Crash, PurgeFails, around
<1>1. /\ pc' \in [Actors -> Place] /\ pc'[a] = "idle"
      /\ \A b \in Actors : b # a => pc'[b] = pc[b]
      /\ holder' \in Actors \cup {Nobody}
      /\ Exclusive => Exclusive'
  BY <1>0, LeaveFields DEF IInv, TypeOK
<1>2. TypeOK'
  <2>1. faults' \in Nat
    BY <1>0 DEF IInv, TypeOK
  <2> QED
    BY <1>0, <1>1, <2>1 DEF IInv, TypeOK
<1>3. RowLife' /\ NothingOrphaned'
  BY <1>0 DEF IInv, RowLife, NothingOrphaned, NothingAbandoned, Settled, Local
<1>4. PlacesSane'
  BY <1>0, <1>1, Roles DEF IInv, PlacesSane, Completing, Restorable, Settled, Local
<1>e. losses' = 0 => Exclusive'
  BY <1>0, <1>1 DEF IInv, Exclusive
<1>5. losses' = 0 /\ Restorable' => Guarded'
  <2> HAVE losses' = 0 /\ Restorable'
  <2>1. Guarded
    BY <1>0 DEF IInv, Restorable
  <2>2. Published'
    BY <1>0, <2>1 DEF Guarded, Published, Incomplete, InStatus, Local, RightSize
  <2>3. \A c \in Completers : CompleterSane(c)'
    BY <1>0, <1>1, <2>1, Roles DEF Guarded, CompleterSane, Completing, Incomplete, InStatus
  <2>4. \A s \in Sweepers : SweeperSane(s)'
    BY <1>0, <1>1, <2>1, Roles DEF Guarded, SweeperSane, Incomplete, InStatus
  <2> QED
    BY <1>1, <2>1, <2>2, <2>3, <2>4 DEF Guarded
<1> QED
  BY <1>2, <1>3, <1>4, <1>5, <1>e DEF IInv

\* The sweep or the drain takes the lock.  Only the removal of the row
\* journals the key, so the drain finds no row.
LEMMA BeginOK ==
    ASSUME IInv, NEW a \in Lockers,
           (a \in Sweepers /\ SweepBegin(a)) \/ (a \in Reclaimers /\ ReclaimBegin(a))
    PROVE  IInv'
<1>0. /\ pc[a] = "idle" /\ holder = Nobody /\ holder' = a
      /\ UNCHANGED <<owner, storage, row, creator, parts, payload, journaled, want, identified,
                     answer, putGranted, faults, losses>>
  BY DEF SweepBegin, ReclaimBegin, around
<1>1. /\ Goto(a, "purging") /\ creator # "none" /\ a \in Actors /\ a \notin Completers
      /\ a \in Sweepers => Incomplete /\ Settled
      /\ a \in Reclaimers => row = None
  <2>1. CASE a \in Sweepers /\ SweepBegin(a)
    BY <2>1, Roles DEF SweepBegin, Settled
  <2>2. CASE a \in Reclaimers /\ ReclaimBegin(a)
    <3>1. journaled /\ row = None /\ creator # "none"
      BY <2>2 DEF ReclaimBegin, IInv, RowLife
    <3> QED
      BY <2>2, <3>1, Roles DEF ReclaimBegin
  <2> QED
    BY <2>1, <2>2
<1>2. "purging" \in Place
  BY DEF Place
<1>3. /\ pc' \in [Actors -> Place] /\ pc'[a] = "purging"
      /\ \A b \in Actors : b # a => pc'[b] = pc[b]
      /\ Exclusive => Exclusive' /\ \A b \in Lockers : pc[b] = "idle"
  BY <1>0, <1>1, <1>2, EnterFields DEF IInv, TypeOK
<1>4. TypeOK'
  BY <1>0, <1>1, <1>3 DEF IInv, TypeOK
<1>5. RowLife' /\ NothingOrphaned'
  BY <1>0 DEF IInv, RowLife, NothingOrphaned, NothingAbandoned, Settled, Local
<1>6. PlacesSane'
  BY <1>0, <1>1, <1>3, Roles DEF IInv, PlacesSane, Completing, Restorable, Settled, Local
<1>e. losses' = 0 => Exclusive'
  BY <1>0, <1>3 DEF IInv
<1>7. losses' = 0 /\ Restorable' => Guarded'
  <2> HAVE losses' = 0 /\ Restorable'
  <2>1. Guarded
    BY <1>0 DEF IInv, Restorable
  <2>2. Published'
    BY <1>0, <2>1 DEF Guarded, Published, Incomplete, InStatus, Local, RightSize
  <2>3. \A c \in Completers : CompleterSane(c)'
    BY <1>0, <1>1, <1>3, <2>1, Roles DEF Guarded, CompleterSane, Completing, Incomplete, InStatus
  <2>4. \A s \in Sweepers : SweeperSane(s)'
    BY <1>0, <1>1, <1>3, <2>1, Roles DEF Guarded, SweeperSane, Incomplete, InStatus
  <2> QED
    BY <2>2, <2>3, <2>4 DEF Guarded
<1> QED
  BY <1>4, <1>5, <1>6, <1>7, <1>e DEF IInv

\* The purge of the owner begins, without the lock.
LEMMA OwnerPurgeBeginOK == ASSUME IInv, NEW g \in Purgers, OwnerPurgeBegin(g) PROVE IInv'
<1>0. /\ pc[g] = "idle" /\ Goto(g, "purging") /\ row # None /\ ~Restorable
      /\ UNCHANGED <<owner, storage, row, creator, parts, payload, journaled, holder, want,
                     identified, answer, putGranted, faults, losses>>
  BY DEF OwnerPurgeBegin, Purgeable, InStatus, Restorable, around
<1>1. g \in Actors /\ g \notin Lockers /\ creator # "none" /\ "purging" \in Place
  BY <1>0, Roles DEF IInv, RowLife, Place
<1>2. /\ pc' \in [Actors -> Place] /\ pc'[g] = "purging"
      /\ \A b \in Actors : b # g => pc'[b] = pc[b]
  BY <1>0, <1>1, GotoFields DEF IInv, TypeOK
<1>3. TypeOK'
  BY <1>0, <1>2 DEF IInv, TypeOK
<1>4. RowLife' /\ NothingOrphaned'
  BY <1>0 DEF IInv, RowLife, NothingOrphaned, NothingAbandoned, Settled, Local
<1>5. PlacesSane'
  BY <1>0, <1>1, <1>2, Roles DEF IInv, PlacesSane, Completing, Restorable, Settled, Local
<1>e. losses' = 0 => Exclusive'
  BY <1>0, <1>1, <1>2, Roles DEF IInv, Exclusive
<1>6. ~Restorable'
  BY <1>0 DEF Restorable
<1> QED
  BY <1>3, <1>4, <1>5, <1>6, <1>e DEF IInv

\* purge_key.  With the lock no completer is in its chain and the row is
\* not stored; without it the row may be, which StoredIntact leaves out, and
\* so may it be for the purge of an owner that does not come back.
LEMMA PurgeOK ==
    ASSUME IInv, NEW a \in Actors, a \notin Completers, PurgeUploads(a) \/ PurgeObject(a)
    PROVE  IInv'
<1>0. /\ pc[a] \in {"purging", "deleting"}
      /\ UNCHANGED <<owner, storage, row, creator, journaled, holder, want, identified, answer,
                     putGranted, faults, losses>>
      /\ parts' \in {parts, None} /\ payload' \in {payload, None}
  BY DEF PurgeUploads, PurgeObject, around
<1>1. PICK p \in {"deleting", "purged"} :
          /\ Goto(a, p)
          /\ a \in Reclaimers => parts' = None \/ creator \in {"opened", "lost"}
  BY <1>0 DEF PurgeUploads, PurgeObject, IInv, PlacesSane
<1>2. /\ pc' \in [Actors -> Place] /\ pc'[a] = p
      /\ \A b \in Actors : b # a => pc'[b] = pc[b]
  <2>1. p \in Place
    BY DEF Place
  <2> QED
    BY <1>1, <2>1, GotoFields DEF IInv, TypeOK
<1>3. /\ pc[a] # "idle" /\ creator # "none" /\ (a \in Sweepers => Settled)
      /\ a \in Reclaimers => row = None
      /\ a \in Purgers => ~Restorable
  BY <1>0 DEF IInv, PlacesSane
<1>4. TypeOK'
  BY <1>0, <1>2 DEF IInv, TypeOK
<1>5. RowLife' /\ NothingOrphaned'
  BY <1>0, <1>3 DEF IInv, RowLife, NothingOrphaned, NothingAbandoned, Settled, Local
<1>6. PlacesSane'
  BY <1>0, <1>1, <1>2, <1>3, Roles DEF IInv, PlacesSane, Completing, Restorable, Settled, Local
<1>e. losses' = 0 => Exclusive'
  BY <1>0, <1>2, <1>3, Roles DEF IInv, Exclusive
<1>7. losses' = 0 /\ Restorable' => Guarded'
  <2> HAVE losses' = 0 /\ Restorable'
  <2>1. Guarded /\ Exclusive /\ Restorable
    BY <1>0 DEF IInv, Restorable
  <2>2. CASE row = None
    BY <1>0, <2>2, RowGone
  <2>3. CASE row # None
    <3>1. a \in Sweepers /\ a \in Lockers
      BY <1>3, <2>1, <2>3, Roles
    <3>2. Incomplete /\ row.status # "stored"
      BY <1>3, <2>1, <2>3, <3>1 DEF Guarded, SweeperSane, Incomplete, InStatus
    <3>3. \A b \in Lockers : b # a => pc[b] = "idle"
      BY <1>3, <2>1, <3>1, Alone
    <3>4. Published'
      BY <1>0, <2>1, <3>2 DEF Guarded, Published, Incomplete, InStatus, Local
    <3>5. \A c \in Completers : CompleterSane(c)'
      BY <1>0, <1>2, <2>1, <2>3, <3>1, <3>2, <3>3, Roles DEF Guarded, CompleterSane, Completing
    <3>6. \A s \in Sweepers : SweeperSane(s)'
      BY <1>0, <3>2 DEF SweeperSane, Incomplete, InStatus
    <3> QED
      BY <3>4, <3>5, <3>6 DEF Guarded
  <2> QED
    BY <2>2, <2>3
<1> QED
  BY <1>4, <1>5, <1>6, <1>7, <1>e DEF IInv

\* The rows go last, if the owner is still purgeable.
LEMMA OwnerPurgeEndOK == ASSUME IInv, NEW g \in Purgers, OwnerPurgeEnd(g) PROVE IInv'
<1>0. /\ pc[g] = "purged" /\ Leave(g)
      /\ UNCHANGED <<owner, storage, creator, parts, payload, want, identified, answer,
                     putGranted, faults, losses>>
      /\ \/ row # None /\ row' = None /\ journaled' = TRUE
         \/ UNCHANGED <<row, journaled>>
  BY DEF OwnerPurgeEnd, Purgeable, InStatus, DeleteRow, around
<1>1. g \in Actors /\ g \notin Lockers /\ creator # "none" /\ ~Restorable
  BY <1>0, Roles DEF IInv, PlacesSane
<1>2. /\ pc' \in [Actors -> Place] /\ pc'[g] = "idle"
      /\ \A b \in Actors : b # g => pc'[b] = pc[b]
      /\ holder' \in Actors \cup {Nobody}
      /\ Exclusive => Exclusive'
  BY <1>0, <1>1, LeaveFields DEF IInv, TypeOK
<1>3. TypeOK'
  BY <1>0, <1>2 DEF IInv, TypeOK
<1>4. RowLife' /\ NothingOrphaned'
  BY <1>0, <1>1 DEF IInv, RowLife, NothingOrphaned, NothingAbandoned, Settled, Local
<1>5. PlacesSane'
  BY <1>0, <1>1, <1>2, Roles DEF IInv, PlacesSane, Completing, Restorable, Settled, Local
<1>e. losses' = 0 => Exclusive'
  BY <1>0, <1>2 DEF IInv
<1>6. ~Restorable'
  BY <1>0, <1>1 DEF Restorable
<1> QED
  BY <1>3, <1>4, <1>5, <1>6, <1>e DEF IInv

\* The sweep deletes the row it purged, if it still has the lock.
LEMMA SweepEndOK == ASSUME IInv, NEW s \in Sweepers, SweepEnd(s) PROVE IInv'
<1>0. /\ pc[s] = "purged" /\ Leave(s)
      /\ UNCHANGED <<owner, storage, creator, parts, payload, want, identified, answer, putGranted,
                     faults, losses>>
      /\ IF HasSession(s) /\ Incomplete THEN row' = None /\ journaled' = TRUE
         ELSE UNCHANGED <<row, journaled>>
  BY DEF SweepEnd, DeleteRow, around
<1>1. s \in Actors /\ s \in Lockers /\ Settled
  BY <1>0, Roles DEF IInv, PlacesSane
<1>2. /\ pc' \in [Actors -> Place] /\ pc'[s] = "idle"
      /\ \A b \in Actors : b # s => pc'[b] = pc[b]
      /\ holder' \in Actors \cup {Nobody}
      /\ Exclusive => Exclusive'
  BY <1>0, <1>1, LeaveFields DEF IInv, TypeOK
<1>3. TypeOK'
  BY <1>0, <1>2 DEF IInv, TypeOK
<1>4. RowLife' /\ NothingOrphaned'
  BY <1>0, <1>1 DEF IInv, RowLife, NothingOrphaned, NothingAbandoned, Settled, Local
<1>5. PlacesSane'
  BY <1>0, <1>1, <1>2, Roles DEF IInv, PlacesSane, Completing, Restorable, Settled, Local
<1>e. losses' = 0 => Exclusive'
  BY <1>0, <1>2 DEF IInv, Exclusive
<1>6. losses' = 0 /\ Restorable' => Guarded'
  <2> HAVE losses' = 0 /\ Restorable'
  <2>1. Guarded /\ Exclusive
    BY <1>0 DEF IInv, Guarded, Restorable
  <2>2. HasSession(s) /\ (row = None \/ Incomplete)
    BY <1>0, <1>1, <2>1, Alone DEF Guarded, SweeperSane
  <2>3. row' = None
    BY <1>0, <2>2
  <2> QED
    BY <1>2, <2>1, <2>3, RowGone
<1> QED
  BY <1>3, <1>4, <1>5, <1>6, <1>e DEF IInv

\* The drain drops the journal row of a key without object and upload.
LEMMA ReclaimEndOK == ASSUME IInv, NEW r \in Reclaimers, ReclaimEnd(r) PROVE IInv'
<1>0. /\ pc[r] = "purged" /\ Leave(r)
      /\ UNCHANGED <<owner, storage, row, creator, parts, payload, want, identified, answer, putGranted,
                     faults, losses>>
      /\ journaled' = IF HasSession(r) /\ (payload = None \/ row # None) THEN FALSE ELSE journaled
  BY DEF ReclaimEnd, around
<1>1. /\ r \in Actors /\ r \in Lockers /\ creator # "none" /\ row = None
      /\ parts = None \/ creator \in {"opened", "lost"}
  BY <1>0, Roles DEF IInv, PlacesSane
<1>2. /\ pc' \in [Actors -> Place] /\ pc'[r] = "idle"
      /\ \A b \in Actors : b # r => pc'[b] = pc[b]
      /\ holder' \in Actors \cup {Nobody}
      /\ Exclusive => Exclusive'
  BY <1>0, <1>1, LeaveFields DEF IInv, TypeOK
<1>3. TypeOK'
  BY <1>0, <1>2 DEF IInv, TypeOK
<1>4. RowLife' /\ NothingOrphaned'
  BY <1>0, <1>1 DEF IInv, RowLife, NothingOrphaned, NothingAbandoned, Settled, Local
<1>5. PlacesSane'
  BY <1>0, <1>1, <1>2, Roles DEF IInv, PlacesSane, Completing, Restorable, Settled, Local
<1>e. losses' = 0 => Exclusive'
  BY <1>0, <1>2 DEF IInv, Exclusive
<1>6. losses' = 0 /\ Restorable' => Guarded'
  BY <1>0, <1>1, RowGone
<1> QED
  BY <1>3, <1>4, <1>5, <1>6, <1>e DEF IInv

-----------------------------------------------------------------------------
(* complete_upload.                                                        *)

\* The completer ends its chain without having changed storage: the row is
\* unchanged, deleted, or taken back.
LEMMA CompleterLeaves ==
    ASSUME IInv, NEW c \in Completers, Leave(c),
           UNCHANGED <<owner, storage, creator, parts, payload, want, identified, putGranted, losses>>,
           faults' \in Nat,
           \A d \in Completers : d # c => answer'[d] = answer[d],
           answer' \in [Completers -> {"none", "done", "denied"}],
           pc[c] # "idle",
           \/ row' = None /\ journaled' = TRUE
           \/ row' = row /\ journaled' = journaled
           \/ /\ row' \in Row /\ journaled' = journaled /\ row # None
              /\ row'.ref = row.ref /\ row'.status = "uploading"
              /\ losses = 0 /\ Restorable => Incomplete /\ Published',
           answer'[c] = "done" => \/ answer[c] = "done"
                                  \/ pc[c] = "finalizing"
    PROVE  IInv'
<1>1. c \in Actors /\ c \in Lockers /\ Settled
  BY Roles DEF IInv, PlacesSane
<1>2. /\ pc' \in [Actors -> Place] /\ pc'[c] = "idle"
      /\ \A b \in Actors : b # c => pc'[b] = pc[b]
      /\ holder' \in Actors \cup {Nobody}
      /\ Exclusive => Exclusive'
  BY <1>1, LeaveFields DEF IInv, TypeOK
<1>3. row' \in Row => row' # None
  BY RowFields
<1>4. TypeOK'
  BY <1>2 DEF IInv, TypeOK
<1>5. RowLife'
  <2>1. creator' \in {"returned", "failed"}
    BY <1>1 DEF Settled
  <2> QED
    BY <2>1 DEF IInv, RowLife, Settled, Local
<1>6. NothingOrphaned'
  BY <1>3 DEF IInv, NothingOrphaned, NothingAbandoned
<1>7. PlacesSane'
  <2>1. row = None => row' = None
    OBVIOUS
  <2> QED
    BY <1>1, <1>2, <2>1, Roles DEF IInv, PlacesSane, Completing, Restorable, Settled, Local
<1>e. losses' = 0 => Exclusive'
  BY <1>2 DEF IInv, Exclusive
<1>8. losses' = 0 /\ Restorable' => Guarded'
  <2> HAVE losses' = 0 /\ Restorable'
  <2>1. Guarded /\ Exclusive
    BY DEF IInv, Guarded, Restorable
  <2>2. CASE row' = None
    BY <1>2, <2>1, <2>2, RowGone
  <2>3. CASE row' = row
    <3>1. Published'
      BY <2>1, <2>3 DEF Guarded, Published, Incomplete, InStatus, Local, RightSize
    <3>2. ASSUME NEW d \in Completers PROVE CompleterSane(d)'
      <4>1. CASE d = c
        BY <1>2, <2>1, <2>3, <4>1 DEF Guarded, CompleterSane, Completing, Incomplete, InStatus
      <4>2. CASE d # c
        BY <1>1, <1>2, <2>1, <2>3, <4>2, Roles DEF Guarded, CompleterSane, Completing, Incomplete, InStatus
      <4> QED
        BY <4>1, <4>2
    <3>3. \A s \in Sweepers : SweeperSane(s)'
      BY <1>1, <1>2, <2>1, <2>3, Roles DEF Guarded, SweeperSane, Incomplete, InStatus
    <3> QED
      BY <1>2, <2>1, <3>1, <3>2, <3>3 DEF Guarded
  <2>4. CASE row' \in Row /\ row'.status = "uploading" /\ Published' /\ Incomplete
    <3>1. row # None /\ row.status # "stored" /\ Incomplete'
      BY <1>3, <2>4 DEF Incomplete, InStatus
    <3>2. \A d \in Completers : answer[d] # "done" /\ pc[d] # "finalizing"
      BY <2>1, <3>1 DEF Guarded, CompleterSane
    <3>3. \A d \in Completers : answer'[d] # "done"
      BY <3>2
    <3>4. \A b \in Lockers : pc'[b] = "idle"
      BY <1>1, <1>2, <2>1, Alone, Roles
    <3> QED
      BY <1>2, <2>1, <2>4, <3>3, <3>4, Roles DEF Guarded, CompleterSane, SweeperSane, Completing
  <2> QED
    BY <2>2, <2>3, <2>4 DEF Restorable
<1> QED
  BY <1>4, <1>5, <1>6, <1>7, <1>8, <1>e DEF IInv

\* The word of a completer.
LEMMA AnswerFields ==
    ASSUME TypeOK, NEW c \in Completers, NEW w \in {"done", "denied"}, Answer(c, w)
    PROVE  /\ answer' \in [Completers -> {"none", "done", "denied"}] /\ answer'[c] = w
           /\ \A d \in Completers : d # c => answer'[d] = answer[d]
BY DEF TypeOK, Answer

\* revert_assembling_on_conn takes the row back to uploading and keeps the
\* prepared completion.
LEMMA RevertedFields ==
    ASSUME TypeOK, row # None
    PROVE  \/ Reverted = row
           \/ /\ Incomplete /\ Reverted \in Row /\ Reverted.status = "uploading"
              /\ Reverted.prepared = row.prepared /\ Reverted.ref = row.ref
<1>1. row \in Row
  BY DEF TypeOK
<1>2. CASE InStatus({"assembling"})
  <2>1. Reverted = [row EXCEPT !.status = "uploading"] /\ Incomplete
    BY <1>2 DEF Reverted, Incomplete, InStatus
  <2> QED
    BY <1>1, <2>1 DEF Row
<1>3. CASE ~InStatus({"assembling"})
  BY <1>3 DEF Reverted
<1> QED
  BY <1>2, <1>3

\* A completer that gives up.
LEMMA GiveUpOK ==
    ASSUME IInv, NEW c \in Completers, pc[c] # "idle", GiveUp(c), faults' \in Nat,
           UNCHANGED <<owner, storage, creator, parts, payload, journaled, want, identified, putGranted,
                       losses>>
    PROVE  IInv'
<1>1. /\ Leave(c) /\ row' = (IF HasSession(c) THEN Reverted ELSE row)
      /\ answer' \in [Completers -> {"none", "done", "denied"}] /\ answer'[c] = "denied"
      /\ \A d \in Completers : d # c => answer'[d] = answer[d]
  BY AnswerFields DEF GiveUp, IInv
<1>2. CASE row' = row
  BY <1>1, <1>2, CompleterLeaves
<1>3. CASE row' # row
  <2>1. row' = Reverted /\ row' # row
    BY <1>1, <1>3
  <2>2. row # None
    BY <2>1 DEF Reverted, InStatus
  <2>3. /\ Incomplete /\ row' \in Row /\ row'.status = "uploading"
        /\ row'.prepared = row.prepared /\ row'.ref = row.ref
    BY <2>1, <2>2, RevertedFields DEF IInv
  <2>4. losses = 0 /\ Restorable => Published'
    BY <2>2, <2>3 DEF IInv, Guarded, Published, Incomplete, InStatus, Local
  <2> QED
    BY <1>1, <2>2, <2>3, <2>4, CompleterLeaves
<1> QED
  BY <1>2, <1>3

\* Refused parts: the completion is no longer prepared.  With the lock this
\* happens only before anything is published.
LEMMA RefuseOK ==
    ASSUME IInv, NEW c \in Completers, Completing(c), Refuse(c), faults' \in Nat,
           parts # None, parts # want[c],
           UNCHANGED <<owner, creator, journaled, want, identified, putGranted, losses>>
    PROVE  IInv'
<1>1. /\ Leave(c) /\ UNCHANGED <<owner, storage, parts, payload>> /\ pc[c] # "idle"
      /\ answer' \in [Completers -> {"none", "done", "denied"}] /\ answer'[c] = "denied"
      /\ \A d \in Completers : d # c => answer'[d] = answer[d]
  BY AnswerFields DEF Refuse, IInv, Completing
<1>2. CASE row' = row
  BY <1>1, <1>2, CompleterLeaves
<1>3. CASE row' # row
  <2>1. /\ row' = [row EXCEPT !.status = "uploading", !.prepared = None]
        /\ InStatus({"assembling"})
    BY <1>3 DEF Refuse
  <2>2. row \in Row /\ row # None /\ Incomplete
    BY <2>1 DEF InStatus, Incomplete, IInv, TypeOK
  <2>3. /\ row' \in Row /\ row'.status = "uploading" /\ row'.prepared = None
        /\ row'.ref = row.ref
    BY <2>1, <2>2 DEF Row
  <2>4. losses = 0 /\ Restorable => Published'
    <3> HAVE losses = 0 /\ Restorable
    <3>1. Published /\ CompleterSane(c)
      BY DEF IInv, Guarded
    <3>2. row.prepared = want[c]
      BY <2>2, <3>1 DEF CompleterSane
    <3>3. payload = None
      <4>1. CASE Local
        BY <2>2, <3>1, <3>2, <4>1 DEF Published
      <4>2. CASE ~Local
        BY <4>2 DEF IInv, PlacesSane
      <4> QED
        BY <4>1, <4>2
    <3> QED
      BY <1>1, <2>3, <3>3 DEF Published, Incomplete, InStatus
  <2> QED
    BY <1>1, <2>2, <2>3, <2>4, CompleterLeaves
<1> QED
  BY <1>2, <1>3

\* The completer moves on; the row stays as it is.
LEMMA CompleterMoves ==
    ASSUME IInv, NEW c \in Completers, Completing(c),
           NEW p \in {"rechecked", "copying", "assembled"}, Goto(c, p),
           UNCHANGED <<owner, storage, row, creator, journaled, holder, want, identified, answer,
                       putGranted, losses>>,
           faults' \in Nat,
           parts' \in {parts, None}, payload' \in {payload, parts},
           payload' # payload => payload' = parts /\ parts = want[c],
           ~Local /\ payload' # payload => parts' = None,
           p = "copying" => Local
    PROVE  IInv'
<1>1. c \in Actors /\ c \in Lockers /\ Settled /\ pc[c] # "idle" /\ p \in Place
  BY Roles DEF IInv, PlacesSane, Completing, Place
<1>2. /\ pc' \in [Actors -> Place] /\ pc'[c] = p
      /\ \A b \in Actors : b # c => pc'[b] = pc[b]
  BY <1>1, GotoFields DEF IInv, TypeOK
<1>3. TypeOK'
  <2>1. payload' \in Content \cup {None}
    BY DEF IInv, TypeOK
  <2> QED
    BY <1>2, <2>1 DEF IInv, TypeOK
<1>4. RowLife' /\ NothingOrphaned'
  BY <1>1 DEF IInv, RowLife, NothingOrphaned, NothingAbandoned, Settled, Local
<1>5. PlacesSane'
  BY <1>1, <1>2, Roles DEF IInv, PlacesSane, Completing, Restorable, Settled, Local
<1>e. losses' = 0 => Exclusive'
  BY <1>1, <1>2, Roles DEF IInv, Exclusive
<1>6. losses' = 0 /\ Restorable' => Guarded'
  <2> HAVE losses' = 0 /\ Restorable'
  <2>1. Guarded /\ Exclusive /\ CompleterSane(c) /\ Published
    BY DEF IInv, Guarded, Restorable
  <2>2. holder = c /\ \A b \in Lockers : b # c => pc[b] = "idle"
    BY <1>1, <2>1, Alone DEF HasSession
  <2>4. CASE row = None
    BY <2>4, RowGone
  <2>5. CASE row # None
    <3>1. Incomplete /\ row.status # "stored"
      BY <2>1, <2>5 DEF CompleterSane, Incomplete, InStatus
    <3>2. payload' # None => row.prepared = payload'
      BY <2>1, <2>5, <3>1 DEF CompleterSane, Published
    <3>3. Published'
      BY <2>1, <2>5, <3>1, <3>2 DEF Published, Incomplete, InStatus, Local
    <3>4. ASSUME NEW d \in Completers PROVE CompleterSane(d)'
      BY <1>1, <1>2, <2>1, <2>2, <2>5, <3>1, Roles DEF Guarded, CompleterSane, Completing, Incomplete,
         InStatus
    <3>5. \A s \in Sweepers : SweeperSane(s)'
      BY <3>1 DEF SweeperSane, Incomplete, InStatus
    <3> QED
      BY <3>3, <3>4, <3>5 DEF Guarded
  <2> QED
    BY <2>4, <2>5
<1> QED
  BY <1>3, <1>4, <1>5, <1>6, <1>e DEF IInv

\* The second look at presigned parts.
LEMMA RecheckOK ==
    ASSUME IInv, NEW c \in Completers, RecheckPassed(c) \/ RecheckRefused(c)
    PROVE  IInv'
<1>0. Completing(c) /\ pc[c] # "idle" /\ faults \in Nat
  BY DEF RecheckPassed, RecheckRefused, Completing, IInv, TypeOK
<1>1. CASE RecheckPassed(c)
  <2>1. /\ Goto(c, "rechecked")
        /\ UNCHANGED <<owner, storage, row, creator, parts, payload, journaled, holder, want, identified,
                       answer, putGranted, faults, losses>>
    BY <1>1 DEF RecheckPassed, around
  <2>2. payload' \in {payload, parts} /\ parts' \in {parts, None} /\ faults' \in Nat
    BY <1>0, <2>1
  <2> QED
    BY <1>0, <2>1, <2>2, CompleterMoves
<1>2. CASE RecheckRefused(c)
  <2>1. /\ GiveUp(c) /\ faults' \in Nat
        /\ UNCHANGED <<owner, storage, creator, parts, payload, journaled, want, identified, putGranted,
                       losses>>
    BY <1>0, <1>2 DEF RecheckRefused, GiveUp, around
  <2> QED
    BY <1>0, <2>1, GiveUpOK
<1> QED
  BY <1>1, <1>2

\* assemble_multipart of local storage.
LEMMA AssembleLocalOK == ASSUME IInv, NEW c \in Completers, AssembleLocal(c) PROVE IInv'
<1>0. /\ Local /\ Completing(c) /\ pc[c] # "idle" /\ faults' \in Nat
      /\ UNCHANGED <<owner, storage, creator, journaled, want, identified, putGranted, faults, losses>>
  BY DEF AssembleLocal, Completing, IInv, TypeOK, around
<1>1. CASE GiveUp(c) /\ UNCHANGED <<parts, payload>>
  BY <1>0, <1>1, GiveUpOK
<1>2. CASE parts # None /\ parts # want[c] /\ Refuse(c)
  BY <1>0, <1>2, RefuseOK
<1>3. CASE /\ parts = want[c] /\ payload' \in {payload, parts}
           /\ Goto(c, "copying") \/ Goto(c, "assembled")
           /\ UNCHANGED <<row, parts, holder, answer>>
  BY <1>0, <1>3, CompleterMoves
<1>4. \/ GiveUp(c) /\ UNCHANGED <<parts, payload>>
      \/ parts # None /\ parts # want[c] /\ Refuse(c)
      \/ /\ parts = want[c] /\ payload' \in {payload, parts}
         /\ Goto(c, "copying") \/ Goto(c, "assembled")
         /\ UNCHANGED <<row, parts, holder, answer>>
  <2>1. CASE pc[c] = "prepared"
    BY <2>1 DEF AssembleLocal
  <2>2. CASE pc[c] = "copying"
    BY <2>2 DEF AssembleLocal
  <2> QED
    BY <2>1, <2>2 DEF AssembleLocal
<1> QED
  BY <1>1, <1>2, <1>3, <1>4

\* The object is published, but the completer hears of an error: the object
\* is that of the prepared completion.
LEMMA PublishedUnheard ==
    ASSUME IInv, NEW c \in Completers, Completing(c), GiveUp(c), faults' \in Nat,
           parts # None, parts = want[c], payload' = parts,
           parts' = IF Local THEN parts ELSE None,
           UNCHANGED <<owner, storage, creator, journaled, want, identified, putGranted, losses>>
    PROVE  IInv'
<1>1. /\ Leave(c) /\ row' = (IF HasSession(c) THEN Reverted ELSE row)
      /\ answer' \in [Completers -> {"none", "done", "denied"}] /\ answer'[c] = "denied"
      /\ \A d \in Completers : d # c => answer'[d] = answer[d]
      /\ c \in Actors /\ c \in Lockers /\ pc[c] # "idle" /\ Settled
  BY AnswerFields, Roles DEF GiveUp, IInv, PlacesSane, Completing
<1>2. /\ pc' \in [Actors -> Place] /\ pc'[c] = "idle"
      /\ \A b \in Actors : b # c => pc'[b] = pc[b]
      /\ holder' \in Actors \cup {Nobody}
      /\ Exclusive => Exclusive'
  BY <1>1, LeaveFields DEF IInv, TypeOK
<1>3. /\ row = None => row' = None
      /\ row # None => /\ row' \in Row /\ row' # None
                       /\ row'.prepared = row.prepared /\ row'.ref = row.ref
                       /\ Incomplete => Incomplete' /\ row'.status # "stored"
  <2>1. CASE row = None
    BY <1>1, <2>1 DEF Reverted, InStatus
  <2>2. CASE row # None
    <3>1. row' = row \/ row' = Reverted
      BY <1>1
    <3>2. CASE row' = row
      BY <2>2, <3>2 DEF IInv, TypeOK, Incomplete, InStatus
    <3>3. CASE row' = Reverted /\ row' # row
      <4>1. /\ row' \in Row /\ row'.status = "uploading"
            /\ row'.prepared = row.prepared /\ row'.ref = row.ref
        BY <2>2, <3>3, RevertedFields DEF IInv
      <4> QED
        BY <2>2, <4>1, RowFields DEF Incomplete, InStatus
    <3> QED
      BY <2>2, <3>1, <3>2, <3>3
  <2> QED
    BY <2>1, <2>2
<1>4. TypeOK'
  <2>1. payload' \in Content \cup {None} /\ row' \in Row \cup {None}
    BY <1>3 DEF IInv, TypeOK
  <2> QED
    BY <1>1, <1>2, <2>1 DEF IInv, TypeOK
<1>5. RowLife' /\ NothingOrphaned'
  BY <1>1, <1>3 DEF IInv, RowLife, NothingOrphaned, NothingAbandoned, Settled, Local
<1>6. PlacesSane'
  BY <1>1, <1>2, <1>3, Roles DEF IInv, PlacesSane, Completing, Restorable, Settled, Local
<1>e. losses' = 0 => Exclusive'
  BY <1>2 DEF IInv, Exclusive
<1>7. losses' = 0 /\ Restorable' => Guarded'
  <2> HAVE losses' = 0 /\ Restorable'
  <2>1. Guarded /\ Exclusive /\ CompleterSane(c) /\ Published
    BY DEF IInv, Guarded, Restorable
  <2>2. CASE row = None
    BY <1>2, <1>3, <2>1, <2>2, RowGone
  <2>3. CASE row # None
    <3>1. Incomplete /\ row.prepared = want[c] /\ row.status # "stored"
      BY <2>1, <2>3 DEF CompleterSane, Incomplete, InStatus
    <3>2. Incomplete' /\ row'.prepared = payload' /\ row'.status # "stored"
      BY <1>3, <2>3, <3>1
    <3>3. row'.prepared = want[c]
      BY <1>3, <2>3, <3>1
    <3>6. parts' \in {row'.prepared, None}
      BY <3>3
    <3>7. Published'
      BY <3>2, <3>6 DEF Published, Local
    <3>4. \A b \in Lockers : pc'[b] = "idle"
      BY <1>1, <1>2, <2>1, Alone, Roles
    <3>5. \A d \in Completers : answer'[d] # "done"
      BY <1>1, <2>1, <2>3, <3>1 DEF Guarded, CompleterSane
    <3> QED
      BY <1>2, <2>1, <3>7, <3>4, <3>5, Roles DEF Guarded, CompleterSane, SweeperSane, Completing
  <2> QED
    BY <2>2, <2>3
<1> QED
  BY <1>4, <1>5, <1>6, <1>7, <1>e DEF IInv

\* Storage fails while it lists or assembles.
LEMMA StorageErrsOK == ASSUME IInv, NEW c \in Completers, StorageErrs(c) PROVE IInv'
<1>0. /\ Completing(c) /\ pc[c] # "idle" /\ GiveUp(c) /\ parts' = parts
      /\ UNCHANGED <<owner, storage, creator, journaled, want, identified, putGranted, losses>>
  BY DEF StorageErrs, Completing, around
<1>1. faults' \in Nat
  <2>1. faults' = faults + 1
    BY DEF StorageErrs
  <2> QED
    BY <2>1 DEF IInv, TypeOK
<1>2. CASE UNCHANGED payload
  BY <1>0, <1>1, <1>2, GiveUpOK
<1>3. CASE pc[c] = "copying" /\ parts # None /\ parts = want[c] /\ payload' = parts
  <2>1. PlacesSane
    BY DEF IInv
  <2>2. Local
    BY <1>3, <2>1 DEF PlacesSane, Local
  <2>3. parts' = IF Local THEN parts ELSE None
    BY <1>0, <2>2
  <2> QED
    BY <1>0, <1>1, <1>3, <2>3, PublishedUnheard
<1> QED
  BY <1>2, <1>3 DEF StorageErrs

\* complete_multipart of S3.
LEMMA AssembleS3OK == ASSUME IInv, NEW c \in Completers, AssembleS3(c) PROVE IInv'
<1>0. /\ ~Local /\ Completing(c) /\ pc[c] # "idle"
      /\ UNCHANGED <<owner, storage, creator, journaled, want, identified, putGranted, losses>>
  BY DEF AssembleS3, Completing, around
<1>1. faults' \in Nat
  <2>1. faults' \in {faults, faults + 1}
    BY DEF AssembleS3
  <2> QED
    BY <2>1 DEF IInv, TypeOK
<1>2. CASE /\ parts # None /\ parts = want[c] /\ payload' = parts /\ parts' = None
           /\ \/ Goto(c, "assembled") /\ UNCHANGED <<row, holder, answer>>
              \/ GiveUp(c)
  <2>1. CASE Goto(c, "assembled") /\ UNCHANGED <<row, holder, answer>>
    BY <1>0, <1>1, <1>2, <2>1, CompleterMoves
  <2>2. CASE GiveUp(c)
    BY <1>0, <1>1, <1>2, <2>2, PublishedUnheard
  <2> QED
    BY <1>2, <2>1, <2>2
<1>3. CASE parts # None /\ parts # want[c] /\ Refuse(c)
  BY <1>0, <1>1, <1>3, RefuseOK
<1>4. CASE Goto(c, "assembled") /\ UNCHANGED <<row, parts, payload, holder, answer>>
  BY <1>0, <1>1, <1>4, CompleterMoves
<1>5. CASE GiveUp(c) /\ UNCHANGED <<parts, payload>>
  BY <1>0, <1>1, <1>5, GiveUpOK
<1> QED
  BY <1>2, <1>3, <1>4, <1>5 DEF AssembleS3

\* An object of the wrong size goes, and with the lock its row.
LEMMA CompleteWrongSizeOK == ASSUME IInv, NEW c \in Completers, CompleteWrongSize(c) PROVE IInv'
<1>0. /\ pc[c] = "assembled" /\ Leave(c) /\ Answer(c, "denied")
      /\ payload' \in {None, payload} /\ parts' \in {None, parts}
      /\ UNCHANGED <<owner, storage, creator, want, identified, putGranted, faults, losses>>
      /\ IF HasSession(c) /\ row # None THEN row' = None /\ journaled' = TRUE
         ELSE UNCHANGED <<row, journaled>>
  BY DEF CompleteWrongSize, DeleteRow, around
<1>1. /\ answer' \in [Completers -> {"none", "done", "denied"}]
      /\ \A d \in Completers : answer'[d] = "done" => answer[d] = "done"
  BY <1>0, AnswerFields DEF IInv
<1>2. c \in Actors /\ c \in Lockers /\ Settled
  BY <1>0, Roles DEF IInv, PlacesSane
<1>3. /\ pc' \in [Actors -> Place] /\ pc'[c] = "idle"
      /\ \A b \in Actors : b # c => pc'[b] = pc[b]
      /\ holder' \in Actors \cup {Nobody}
      /\ Exclusive => Exclusive'
  BY <1>0, <1>2, LeaveFields DEF IInv, TypeOK
<1>4. TypeOK'
  BY <1>0, <1>1, <1>3 DEF IInv, TypeOK
<1>5. RowLife' /\ NothingOrphaned'
  BY <1>0, <1>2 DEF IInv, RowLife, NothingOrphaned, NothingAbandoned, Settled, Local
<1>6. PlacesSane'
  BY <1>0, <1>2, <1>3, Roles DEF IInv, PlacesSane, Completing, Restorable, Settled, Local
<1>e. losses' = 0 => Exclusive'
  BY <1>0, <1>3 DEF IInv, Exclusive
<1>7. losses' = 0 /\ Restorable' => Guarded'
  <2> HAVE losses' = 0 /\ Restorable'
  <2>1. Exclusive
    BY <1>0 DEF IInv, Guarded
  <2>2. HasSession(c)
    BY <1>0, <1>2, <2>1, Alone
  <2>3. row' = None
    BY <1>0, <2>2
  <2> QED
    BY <1>3, <2>1, <2>3, RowGone
<1> QED
  BY <1>4, <1>5, <1>6, <1>7, <1>e DEF IInv

\* The row is stored: the object is the prepared one, and that is what the
\* completer was called with.
LEMMA MarkStoredOK == ASSUME IInv, NEW c \in Completers, MarkStored(c) PROVE IInv'
<1>0. /\ pc[c] = "assembled" /\ payload # None /\ RightSize(payload) /\ HasSession(c)
      /\ Incomplete
      /\ row' = [row EXCEPT !.status = "stored", !.prepared = None,
                            !.receipt = IF identified[c] THEN want[c] ELSE None]
      /\ UNCHANGED <<owner, storage, creator, parts, payload, journaled, want, identified, answer,
                     putGranted, losses>>
      /\ \/ Goto(c, "finalizing") /\ UNCHANGED <<holder, faults>>
         \/ faults' = faults + 1 /\ Leave(c)
  BY DEF MarkStored, around
<1>1. c \in Actors /\ c \in Lockers /\ Settled /\ row \in Row /\ row # None /\ "finalizing" \in Place
  BY <1>0, Roles DEF IInv, PlacesSane, Incomplete, InStatus, TypeOK, Place
<1>2. /\ row' \in Row /\ row'.status = "stored" /\ row'.ref = row.ref
      /\ identified[c] => row'.receipt = want[c]
  <2>1. PICK q \in Content \cup {None} : q = IF identified[c] THEN want[c] ELSE None
    BY DEF IInv, TypeOK
  <2>2. row' = [row EXCEPT !.status = "stored", !.prepared = None, !.receipt = q]
    BY <1>0, <2>1
  <2>3. row' \in Row /\ row'.status = "stored" /\ row'.ref = row.ref /\ row'.receipt = q
    BY <1>1, <2>2 DEF Row
  <2> QED
    BY <2>1, <2>3
<1>3. row' # None
  BY <1>2, RowFields
<1>4. /\ pc' \in [Actors -> Place] /\ pc'[c] \in {"idle", "finalizing"}
      /\ \A b \in Actors : b # c => pc'[b] = pc[b]
      /\ holder' \in Actors \cup {Nobody}
      /\ Exclusive => Exclusive'
  <2>1. CASE Goto(c, "finalizing") /\ UNCHANGED <<holder, faults>>
    <3>1. /\ pc' \in [Actors -> Place] /\ pc'[c] = "finalizing"
          /\ \A b \in Actors : b # c => pc'[b] = pc[b]
      BY <1>1, <2>1, GotoFields DEF IInv, TypeOK
    <3> QED
      BY <1>0, <2>1, <3>1, Roles DEF IInv, TypeOK, Exclusive
  <2>2. CASE Leave(c)
    BY <1>1, <2>2, LeaveFields DEF IInv, TypeOK
  <2> QED
    BY <1>0, <2>1, <2>2
<1>5. faults' \in Nat
  BY <1>0 DEF IInv, TypeOK
<1>6. TypeOK'
  BY <1>0, <1>2, <1>4, <1>5 DEF IInv, TypeOK
<1>7. RowLife' /\ NothingOrphaned'
  BY <1>0, <1>1, <1>2, <1>3 DEF IInv, RowLife, NothingOrphaned, NothingAbandoned, Settled, Local
<1>8. PlacesSane'
  BY <1>0, <1>1, <1>4, Roles DEF IInv, PlacesSane, Completing, Restorable, Settled, Local
<1>e. losses' = 0 => Exclusive'
  BY <1>0, <1>4 DEF IInv, Exclusive
<1>9. losses' = 0 /\ Restorable' => Guarded'
  <2> HAVE losses' = 0 /\ Restorable'
  <2>1. Guarded /\ Exclusive /\ CompleterSane(c) /\ Published
    BY <1>0 DEF IInv, Guarded, Restorable
  <2>2. payload = want[c] /\ row'.receipt = payload /\ row.status # "stored"
    BY <1>0, <1>1, <1>2, <2>1 DEF CompleterSane, Published, Completing, Incomplete, InStatus
  <2>3. \A b \in Lockers : b # c => pc'[b] = "idle"
    BY <1>0, <1>1, <1>4, <2>1, Alone, Roles
  <2>4. \A d \in Completers : answer[d] # "done"
    BY <1>1, <2>1, <2>2 DEF Guarded, CompleterSane
  <2>5. Published'
    BY <1>0, <1>2, <2>2 DEF Published, Incomplete, InStatus, RightSize
  <2>6. \A d \in Completers : CompleterSane(d)'
    BY <1>0, <1>2, <1>4, <2>2, <2>3, <2>4, Roles DEF CompleterSane, Completing
  <2>7. \A s \in Sweepers : SweeperSane(s)'
    BY <2>3, Roles DEF SweeperSane
  <2> QED
    BY <1>4, <2>1, <2>5, <2>6, <2>7 DEF Guarded
<1> QED
  BY <1>6, <1>7, <1>8, <1>9, <1>e DEF IInv

\* The chain ends without a stored row.
LEMMA CompleteAbandonedOK == ASSUME IInv, NEW c \in Completers, CompleteAbandoned(c) PROVE IInv'
<1>1. /\ pc[c] # "idle" /\ Leave(c) /\ Answer(c, "denied") /\ faults' \in Nat
      /\ UNCHANGED <<owner, storage, row, creator, parts, payload, journaled, want, identified,
                     putGranted, losses>>
  BY DEF CompleteAbandoned, IInv, TypeOK, around
<1>2. /\ answer' \in [Completers -> {"none", "done", "denied"}] /\ answer'[c] = "denied"
      /\ \A d \in Completers : d # c => answer'[d] = answer[d]
  BY <1>1, AnswerFields DEF IInv
<1> QED
  BY <1>1, <1>2, CompleterLeaves

\* The parts of a stored upload go, and the completer hears of it.
LEMMA FinalizeOK == ASSUME IInv, NEW c \in Completers, Finalize(c) PROVE IInv'
<1>0. /\ pc[c] = "finalizing" /\ Leave(c) /\ Answer(c, "done") /\ parts' \in {None, parts}
      /\ UNCHANGED <<owner, storage, row, creator, payload, journaled, want, identified, putGranted,
                     losses>>
      /\ faults' \in {faults, faults + 1}
  BY DEF Finalize, around
<1>1. /\ answer' \in [Completers -> {"none", "done", "denied"}]
      /\ \A d \in Completers : d # c => answer'[d] = answer[d]
  BY <1>0, AnswerFields DEF IInv
<1>2. c \in Actors /\ c \in Lockers /\ Settled
  BY <1>0, Roles DEF IInv, PlacesSane
<1>3. /\ pc' \in [Actors -> Place] /\ pc'[c] = "idle"
      /\ \A b \in Actors : b # c => pc'[b] = pc[b]
      /\ holder' \in Actors \cup {Nobody}
      /\ Exclusive => Exclusive'
  BY <1>0, <1>2, LeaveFields DEF IInv, TypeOK
<1>4. TypeOK'
  <2>1. faults' \in Nat
    BY <1>0 DEF IInv, TypeOK
  <2> QED
    BY <1>0, <1>1, <1>3, <2>1 DEF IInv, TypeOK
<1>5. RowLife' /\ NothingOrphaned'
  BY <1>0, <1>2 DEF IInv, RowLife, NothingOrphaned, NothingAbandoned, Settled, Local
<1>6. PlacesSane'
  BY <1>0, <1>2, <1>3, Roles DEF IInv, PlacesSane, Completing, Restorable, Settled, Local
<1>e. losses' = 0 => Exclusive'
  BY <1>0, <1>3 DEF IInv, Exclusive
<1>7. losses' = 0 /\ Restorable' => Guarded'
  <2> HAVE losses' = 0 /\ Restorable'
  <2>1. Guarded /\ Exclusive /\ CompleterSane(c) /\ Published
    BY <1>0 DEF IInv, Guarded, Restorable
  <2>2. CASE row = None
    BY <1>0, <1>3, <2>1, <2>2, RowGone
  <2>3. CASE row # None
    <3>1. row.status = "stored" /\ payload = want[c]
      BY <1>0, <2>1, <2>3 DEF CompleterSane
    <3>2. Published'
      BY <1>0, <2>1, <3>1 DEF Published, Incomplete, InStatus, RightSize
    <3>3. \A b \in Lockers : pc'[b] = "idle"
      BY <1>0, <1>2, <1>3, <2>1, Alone, Roles
    <3>4. \A d \in Completers : CompleterSane(d)'
      BY <1>0, <1>1, <2>1, <2>3, <3>1, <3>3, Roles DEF Guarded, CompleterSane, Completing
    <3> QED
      BY <1>3, <2>1, <3>2, <3>3, <3>4, Roles DEF Guarded, SweeperSane
  <2> QED
    BY <2>2, <2>3
<1> QED
  BY <1>4, <1>5, <1>6, <1>7, <1>e DEF IInv

\* A request that is answered from the row, with the lock or without.
LEMMA AnsweredOK ==
    ASSUME IInv, NEW c \in Completers, NEW p \in Content,
           CompleteBusy(c, p) \/ CompleteDenied(c, p)
    PROVE  IInv'
<1>0. /\ creator = "returned" /\ pc[c] = "idle" /\ want' = [want EXCEPT ![c] = p]
      /\ UNCHANGED <<owner, storage, row, creator, parts, payload, journaled, holder, pc, identified,
                     putGranted, faults, losses>>
  BY DEF CompleteBusy, CompleteDenied, around
<1>1. PICK w \in {"done", "denied"} :
          /\ Answer(c, w)
          /\ w = "done" => InStatus({"stored"}) /\ StoredMatches(p)
  BY DEF CompleteBusy, CompleteDenied, around
<1>2. /\ answer' \in [Completers -> {"none", "done", "denied"}] /\ answer'[c] = w
      /\ \A d \in Completers : d # c => answer'[d] = answer[d]
  BY <1>1, AnswerFields DEF IInv
<1>3. /\ want' \in [Completers -> Content \cup {None}] /\ want'[c] = p
      /\ \A d \in Completers : d # c => want'[d] = want[d]
  BY <1>0 DEF IInv, TypeOK
<1>4. TypeOK'
  BY <1>0, <1>2, <1>3 DEF IInv, TypeOK
<1>5. RowLife' /\ PlacesSane' /\ NothingOrphaned'
  BY <1>0 DEF IInv, RowLife, PlacesSane, NothingOrphaned, NothingAbandoned, Completing, Restorable, Settled, Local
<1>e. losses' = 0 => Exclusive'
  BY <1>0 DEF IInv, Exclusive
<1>6. losses' = 0 /\ Restorable' => Guarded'
  <2> HAVE losses' = 0 /\ Restorable'
  <2>1. Guarded /\ Published
    BY <1>0 DEF IInv, Guarded, Restorable
  <2>2. Published' /\ \A s \in Sweepers : SweeperSane(s)'
    BY <1>0, <2>1 DEF Guarded, Published, Exclusive, SweeperSane, Incomplete, InStatus, RightSize,
       Local
  <2>3. ASSUME NEW d \in Completers PROVE CompleterSane(d)'
    <3>1. CASE d # c
      BY <1>0, <1>2, <1>3, <2>1, <3>1 DEF Guarded, CompleterSane, Completing, Incomplete, InStatus
    <3>2. CASE d = c /\ w = "done"
      <4>1. row.status = "stored" /\ row.receipt \in {None, p}
        BY <1>1, <3>2 DEF InStatus, StoredMatches
      <4>2. row # None => payload = p
        BY <2>1, <4>1 DEF Published
      <4> QED
        BY <1>0, <1>2, <1>3, <3>2, <4>1, <4>2 DEF CompleterSane, Completing
    <3>3. CASE d = c /\ w = "denied"
      BY <1>0, <1>2, <1>3, <3>3 DEF CompleterSane, Completing
    <3> QED
      BY <3>1, <3>2, <3>3
  <2> QED
    BY <2>2, <2>3 DEF Guarded
<1> QED
  BY <1>4, <1>5, <1>6, <1>e DEF IInv

\* A repeated complete of a stored row takes the lock.
LEMMA CompleteStoredOK ==
    ASSUME IInv, NEW c \in Completers, NEW p \in Content, CompleteStored(c, p)
    PROVE  IInv'
<1>0. /\ creator = "returned" /\ pc[c] = "idle" /\ want' = [want EXCEPT ![c] = p]
      /\ holder = Nobody /\ holder' = c /\ Goto(c, "finalizing")
      /\ row # None /\ row.status = "stored" /\ row.receipt \in {None, p}
      /\ UNCHANGED <<owner, storage, row, creator, parts, payload, journaled, identified, answer,
                     putGranted, faults, losses>>
  BY DEF CompleteStored, InStatus, StoredMatches, around
<1>1. c \in Actors /\ c \in Lockers /\ Settled /\ "finalizing" \in Place
  BY <1>0, Roles DEF Settled, Place
<1>2. /\ pc' \in [Actors -> Place] /\ pc'[c] = "finalizing"
      /\ \A b \in Actors : b # c => pc'[b] = pc[b]
      /\ Exclusive => Exclusive' /\ \A b \in Lockers : pc[b] = "idle"
  BY <1>0, <1>1, EnterFields DEF IInv, TypeOK
<1>3. /\ want' \in [Completers -> Content \cup {None}] /\ want'[c] = p
      /\ \A d \in Completers : d # c => want'[d] = want[d]
  BY <1>0 DEF IInv, TypeOK
<1>4. TypeOK'
  BY <1>0, <1>1, <1>2, <1>3 DEF IInv, TypeOK
<1>5. RowLife' /\ NothingOrphaned'
  BY <1>0 DEF IInv, RowLife, NothingOrphaned, NothingAbandoned, Settled, Local
<1>6. PlacesSane'
  BY <1>0, <1>1, <1>2, Roles DEF IInv, PlacesSane, Completing, Restorable, Settled, Local
<1>e. losses' = 0 => Exclusive'
  BY <1>0, <1>2 DEF IInv, Exclusive
<1>7. losses' = 0 /\ Restorable' => Guarded'
  <2> HAVE losses' = 0 /\ Restorable'
  <2>1. Guarded /\ Exclusive /\ Published
    BY <1>0 DEF IInv, Guarded, Restorable
  <2>2. payload = p
    BY <1>0, <2>1 DEF Published
  <2>3. Published'
    BY <1>0, <2>1 DEF Published, Incomplete, InStatus, RightSize, Local
  <2>4. ASSUME NEW d \in Completers PROVE CompleterSane(d)'
    <3>1. CASE d = c
      BY <1>0, <1>2, <1>3, <2>2, <3>1 DEF CompleterSane, Completing
    <3>2. CASE d # c
      BY <1>0, <1>1, <1>2, <1>3, <2>1, <3>2, Roles DEF Guarded, CompleterSane, Completing, Incomplete,
         InStatus
    <3> QED
      BY <3>1, <3>2
  <2>5. \A s \in Sweepers : SweeperSane(s)'
    BY <1>2, <2>1, Roles DEF SweeperSane
  <2> QED
    BY <1>2, <2>1, <2>3, <2>4, <2>5 DEF Guarded
<1> QED
  BY <1>4, <1>5, <1>6, <1>7, <1>e DEF IInv

\* The first transaction fails: at most the old payload is gone.
LEMMA PrepareFailed ==
    ASSUME IInv, Incomplete, holder = Nobody, creator = "returned",
           payload' \in {payload, None}, faults' = faults + 1,
           UNCHANGED <<row, want, identified, holder, pc, owner, storage, creator, parts, journaled,
                       answer, putGranted, losses>>
    PROVE  IInv'
<1>0. row # None /\ row.status # "stored"
  BY DEF Incomplete, InStatus
<1>1. TypeOK'
  <2>1. faults' \in Nat
    BY DEF IInv, TypeOK
  <2> QED
    BY <2>1 DEF IInv, TypeOK
<1>2. RowLife' /\ PlacesSane' /\ NothingOrphaned'
  BY DEF IInv, RowLife, PlacesSane, NothingOrphaned, NothingAbandoned, Completing, Restorable, Settled, Local
<1>e. losses' = 0 => Exclusive'
  BY DEF IInv, Exclusive
<1>3. losses' = 0 /\ Restorable' => Guarded'
  <2> HAVE losses' = 0 /\ Restorable'
  <2>1. Guarded
    BY DEF IInv, Restorable
  <2>2. Published' /\ \A s \in Sweepers : SweeperSane(s)'
    BY <1>0, <2>1 DEF Guarded, Published, Exclusive, SweeperSane, Incomplete, InStatus, Local
  <2>3. \A c \in Completers : CompleterSane(c)'
    BY <1>0, <2>1 DEF Guarded, CompleterSane, Completing, Incomplete, InStatus
  <2> QED
    BY <2>2, <2>3 DEF Guarded
<1> QED
  BY <1>1, <1>2, <1>3, <1>e DEF IInv

\* The first transaction.
LEMMA CompletePrepareOK ==
    ASSUME IInv, NEW c \in Completers, NEW p \in Content, CompletePrepare(c, p)
    PROVE  IInv'
<1>0. /\ creator = "returned" /\ pc[c] = "idle" /\ holder = Nobody /\ Incomplete /\ Admitted(p)
      /\ payload' = (IF row.status = "uploading" THEN Discarded ELSE payload)
      /\ UNCHANGED <<owner, storage, creator, parts, journaled, answer, putGranted, losses>>
  BY DEF CompletePrepare, around
<1>1. /\ payload' \in {payload, None} /\ c \in Actors /\ c \in Lockers /\ Settled /\ row \in Row /\ row # None
      /\ row.status # "stored" /\ "prepared" \in Place
  BY <1>0, Roles DEF Discarded, Settled, Incomplete, InStatus, IInv, TypeOK, Place
<1>2. CASE faults' = faults + 1 /\ UNCHANGED <<row, want, identified, holder, pc>>
  BY <1>0, <1>1, <1>2, PrepareFailed
<1>3. CASE /\ row' = [row EXCEPT !.status = "assembling",
                                 !.prepared = IF Listed = None THEN @ ELSE p]
           /\ want' = [want EXCEPT ![c] = p]
           /\ identified' = [identified EXCEPT ![c] = row.prepared # None \/ Listed # None]
           /\ holder' = c /\ Goto(c, "prepared") /\ UNCHANGED faults
  <2>1. Listed = parts
    BY <1>0, <1>1 DEF Listed, IInv, RowLife
  <2>2. /\ row' \in Row /\ row'.status = "assembling" /\ row'.ref = row.ref
        /\ row'.prepared = IF parts = None THEN row.prepared ELSE p
    <3>1. PICK q \in Content \cup {None} : q = IF parts = None THEN row.prepared ELSE p
      BY <1>1, RowFields
    <3>2. row' = [row EXCEPT !.status = "assembling", !.prepared = q]
      BY <1>3, <2>1, <3>1
    <3>3. row' \in Row /\ row'.status = "assembling" /\ row'.ref = row.ref /\ row'.prepared = q
      BY <1>1, <3>2 DEF Row
    <3> QED
      BY <3>1, <3>3
  <2>3. row' # None /\ Incomplete'
    BY <2>2, RowFields DEF Incomplete, InStatus
  <2>4. /\ pc' \in [Actors -> Place] /\ pc'[c] = "prepared"
        /\ \A b \in Actors : b # c => pc'[b] = pc[b]
        /\ Exclusive => Exclusive' /\ \A b \in Lockers : pc[b] = "idle"
    BY <1>0, <1>1, <1>3, EnterFields DEF IInv, TypeOK
  <2>5. /\ want' \in [Completers -> Content \cup {None}] /\ want'[c] = p
        /\ \A d \in Completers : d # c => want'[d] = want[d]
    BY <1>3 DEF IInv, TypeOK
  <2>6. /\ identified' \in [Completers -> BOOLEAN]
        /\ identified'[c] <=> row.prepared # None \/ parts # None
    <3>1. identified \in [Completers -> BOOLEAN]
      BY DEF IInv, TypeOK
    <3> QED
      BY <1>3, <2>1, <3>1
  <2>7. TypeOK'
    BY <1>0, <1>1, <1>3, <2>2, <2>4, <2>5, <2>6 DEF IInv, TypeOK
  <2>8. RowLife' /\ NothingOrphaned'
    BY <1>0, <1>1, <2>2, <2>3 DEF IInv, RowLife, NothingOrphaned, NothingAbandoned, Settled, Local
  <2>9. PlacesSane'
    BY <1>0, <1>1, <2>4, Roles DEF IInv, PlacesSane, Completing, Restorable, Settled, Local
  <2>e. losses' = 0 => Exclusive'
    BY <1>0, <2>4 DEF IInv, Exclusive
  <2>10. losses' = 0 /\ Restorable' => Guarded'
    <3> HAVE losses' = 0 /\ Restorable'
    <3>1. Guarded /\ Exclusive /\ Published
      BY <1>0 DEF IInv, Guarded, Restorable
    <3>2. /\ row.prepared # None => row.prepared = p
          /\ row.prepared = None => parts \in {None, p}
      BY <1>0, <2>1 DEF Admitted, PartsMatch
    <3>3. p # None
      BY ContentFacts
    <3>4. payload' # None => row.prepared = payload'
      BY <1>0, <1>1, <3>1 DEF Published
    <3>5. Local /\ row.prepared # None => parts \in {row.prepared, None}
      BY <1>0, <1>1, <3>1 DEF Published
    <3>6. payload' # None => row'.prepared = payload'
      BY <2>2, <3>2, <3>4
    <3>7. Local' /\ row'.prepared # None => parts' \in {row'.prepared, None}
      BY <1>0, <2>2, <3>2, <3>5 DEF Local
    <3>8. Published'
      BY <2>2, <3>6, <3>7 DEF Published
    <3>9. identified'[c] => row'.prepared = want'[c]
      BY <2>2, <2>5, <2>6, <3>2
    <3>10. ~identified'[c] => row'.prepared = None /\ parts' = None
      BY <1>0, <2>2, <2>6
    <3>11. \A d \in Completers : answer[d] # "done"
      BY <1>1, <3>1 DEF Guarded, CompleterSane
    <3>12. ASSUME NEW d \in Completers PROVE CompleterSane(d)'
      <4>1. CASE d = c
        BY <1>0, <2>3, <2>4, <3>9, <3>10, <3>11, <4>1 DEF CompleterSane
      <4>2. CASE d # c
        BY <1>0, <2>4, <3>1, <3>11, <4>2, Roles DEF CompleterSane, Completing
      <4> QED
        BY <4>1, <4>2
    <3>13. \A s \in Sweepers : SweeperSane(s)'
      BY <2>3 DEF SweeperSane
    <3> QED
      BY <2>4, <3>1, <3>8, <3>12, <3>13 DEF Guarded
  <2> QED
    BY <2>7, <2>8, <2>9, <2>10, <2>e DEF IInv
<1> QED
  BY <1>2, <1>3 DEF CompletePrepare, around

-----------------------------------------------------------------------------
(* The theorems.                                                           *)

\* Nothing is there yet.
LEMMA InitOK == ASSUME Init PROVE IInv
<1>1. TypeOK
  <2>1. "idle" \in Place
    BY DEF Place
  <2> QED
    BY <2>1 DEF Init, TypeOK
<1>2. \A a \in Actors : pc[a] = "idle"
  BY DEF Init
<1>3. \A c \in Completers : answer[c] = "none"
  BY DEF Init
<1>4. RowLife /\ PlacesSane /\ NothingOrphaned
  BY <1>2, <1>3, Roles DEF Init, RowLife, PlacesSane, NothingOrphaned, NothingAbandoned, Completing
<1>5. Guarded /\ Exclusive
  BY <1>2, Roles DEF Init, Guarded, Exclusive, Published, CompleterSane, SweeperSane
<1> QED
  BY <1>1, <1>4, <1>5 DEF IInv

\* Every step keeps the invariant.
LEMMA NextOK == ASSUME IInv, [Next]_vars PROVE IInv'
<1>1. CASE Reserve \/ OpenMultipart \/ PersistRef \/ CleanupReserved \/ CreateFails
  BY <1>1, ReserveOK, CreatorSteps, CreateFailsOK
<1>2. ASSUME NEW n \in Parts, NEW e \in Etags, CommitPart(n, e) \/ PutPart(n, e) PROVE IInv'
  BY <1>2, PartOK
<1>3. ASSUME NEW c \in Completers, CompleteStep(c) PROVE IInv'
  BY <1>3, RecheckOK, AssembleLocalOK, AssembleS3OK, StorageErrsOK, CompleteWrongSizeOK,
     MarkStoredOK, CompleteAbandonedOK, FinalizeOK DEF CompleteStep
<1>4. ASSUME NEW c \in Completers, NEW p \in Content, Complete(c, p) PROVE IInv'
  BY <1>4, AnsweredOK, CompleteStoredOK, CompletePrepareOK DEF Complete
<1>5. CASE DeleteAttachment
  BY <1>5, DeleteAttachmentOK
<1>6. ASSUME NEW s \in Sweepers, SweepBegin(s) \/ SweepStep(s) PROVE IInv'
  BY <1>6, BeginOK, PurgeOK, SweepEndOK, Roles DEF SweepStep, Purge
<1>7. ASSUME NEW r \in Reclaimers, ReclaimBegin(r) \/ ReclaimStep(r) PROVE IInv'
  BY <1>7, BeginOK, PurgeOK, ReclaimEndOK, Roles DEF ReclaimStep, Purge
<1>8. ASSUME NEW a \in Sweepers \cup Reclaimers \cup Purgers, PurgeFails(a) PROVE IInv'
  BY <1>8, CutOK, Roles
<1>9. ASSUME NEW a \in Actors, Crash(a) PROVE IInv'
  BY <1>9, CutOK
<1>10. CASE \/ GrantPut \/ LoseSession \/ UNCHANGED vars
            \/ TrashOwner \/ RestoreOwner \/ TrashExpires \/ DeleteWorkspace
  BY <1>10, GrantOK
<1>11. ASSUME NEW g \in Purgers, OwnerPurgeBegin(g) \/ OwnerPurgeStep(g) PROVE IInv'
  BY <1>11, OwnerPurgeBeginOK, PurgeOK, OwnerPurgeEndOK, Roles DEF OwnerPurgeStep, Purge
<1> QED
  BY <1>1, <1>2, <1>3, <1>4, <1>5, <1>6, <1>7, <1>8, <1>9, <1>10, <1>11 DEF Next

\* The invariant of the upload holds in every reachable state, for any
\* number of requests, sweeps, drains, owner purges, parts and faults.
THEOREM Invariance == Spec => []IInv
<1>1. Init => IInv
  BY InitOK
<1>2. IInv /\ [Next]_vars => IInv'
  BY NextOK
<1> QED
  BY <1>1, <1>2, PTL DEF Spec

\* A stored row has its object, of the declared size and with the content
\* of its receipt, as long as its owner is there or may be restored and no
\* connection with the lock was lost.
THEOREM StoredRowsAreIntact == Spec => []StoredIntact
<1>1. IInv => StoredIntact
  BY DEF IInv, Guarded, Published, StoredIntact, StoredHasPayload, InStatus
<1> QED
  BY <1>1, Invariance, PTL

\* Who was told that the upload is complete finds what it named, as long as
\* the row is there, its owner is there or may be restored, and no connection
\* with the lock was lost.
THEOREM AnswersHold == Spec => []AnsweredIsStored
<1>1. IInv => AnsweredIsStored
  BY DEF IInv, Guarded, CompleterSane, AnsweredIsStored
<1> QED
  BY <1>1, Invariance, PTL

\* An object or an open upload has a row or a journal entry, or the request
\* that opened the upload still answers for it, whatever crashed, was lost or
\* was removed meanwhile: except an upload without object that create_upload
\* opened after its row had been removed.
THEOREM NothingIsOrphaned == Spec => []NothingOrphaned
<1>1. IInv => NothingOrphaned
  BY DEF IInv
<1> QED
  BY <1>1, Invariance, PTL
=============================================================================
