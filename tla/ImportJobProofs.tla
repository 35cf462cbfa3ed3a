-------------------------- MODULE ImportJobProofs --------------------------
(***************************************************************************)
(* The invariant of ImportJob, proved for any number of runners, attempts, *)
(* faults and outlived leases.                                             *)
(*                                                                         *)
(* The argument.  Claims are numbered, the lease is that of the last one,  *)
(* and every busy run has a claim of its own: at most one run owns the     *)
(* job (OneOwner), and every write that is fenced is a write of the owner  *)
(* (OwnerStep, OwnerWrites).  The steps that no lease fences, the body,    *)
(* the put and the compensation, are quiet (QuietDb): they create no row   *)
(* and take only from attempts up to their own, which is never the attempt *)
(* that won nor that of another owner (Untouched).  What the owner does is *)
(* listed before it exists, so that whoever claims next undoes all of it;  *)
(* what the owner knows of its own work is Progress.  The objects need one *)
(* thing more: without a stall a busy run owns a live lease, so that no    *)
(* put comes after the compensation of its attempt.                        *)
(***************************************************************************)
EXTENDS ImportJob, TLAPS

\* The references and their attempts.
LEMMA RefFacts ==
    /\ \A a \in Attempts : /\ Doc(a) \in Rows /\ Task(a) \in Rows
                           /\ Key(a) \in Refs /\ Key(a) \notin Rows
    /\ \A a, b : /\ Doc(a) = Doc(b) => a = b
                 /\ Task(a) = Task(b) => a = b
                 /\ Key(a) = Key(b) => a = b
                 /\ Doc(a) # Task(b) /\ Doc(a) # Key(b) /\ Task(a) # Key(b)
    /\ \A a : Doc(a)[2] = a /\ Task(a)[2] = a /\ Key(a)[2] = a
    /\ \A a : Doc(a)[1] # "task" /\ Task(a)[1] = "task"
    /\ Rows \subseteq Refs
    /\ \A r \in Rows : /\ r[2] \in Attempts
                       /\ r = Doc(r[2]) \/ r = Task(r[2])
    /\ \A r \in Refs \ Rows : r[2] \in Attempts /\ r = Key(r[2])
<1>1. \A a \in Attempts : /\ Doc(a) \in Refs /\ Task(a) \in Refs /\ Key(a) \in Refs
  BY DEF Refs, Doc, Task, Key
<1>2. \A a, b : /\ Doc(a) = Doc(b) => a = b
                /\ Task(a) = Task(b) => a = b
                /\ Key(a) = Key(b) => a = b
                /\ Doc(a) # Task(b) /\ Doc(a) # Key(b) /\ Task(a) # Key(b)
  BY DEF Doc, Task, Key
<1>3. \A a : Doc(a)[2] = a /\ Task(a)[2] = a /\ Key(a)[2] = a
  BY DEF Doc, Task, Key
<1>4. \A a : Doc(a)[1] # "task" /\ Task(a)[1] = "task"
  BY DEF Doc, Task
<1>5. ASSUME NEW r \in Refs
      PROVE  r[2] \in Attempts /\ (r = Doc(r[2]) \/ r = Task(r[2]) \/ r = Key(r[2]))
  <2>1. PICK s \in {"document", "task", "key"}, a \in Attempts : r = <<s, a>>
    BY DEF Refs
  <2>2. r[2] = a
    BY <2>1
  <2> QED
    BY <2>1, <2>2 DEF Doc, Task, Key
<1>6. ASSUME NEW a \in Attempts PROVE Doc(a) \in Rows /\ Task(a) \in Rows /\ Key(a) \notin Rows
  <2>1. \A b \in Attempts : Doc(a) # Key(b) /\ Task(a) # Key(b)
    BY DEF Doc, Task, Key
  <2>2. Doc(a) \notin Keys /\ Task(a) \notin Keys /\ Key(a) \in Keys
    BY <2>1 DEF Keys
  <2> QED
    BY <1>1, <2>2 DEF Rows
<1>7. Rows \subseteq Refs
  BY DEF Rows
<1>8. ASSUME NEW r \in Rows PROVE r # Key(r[2])
  BY <1>5, <1>7 DEF Rows, Keys
<1>9. ASSUME NEW r \in Refs \ Rows PROVE r = Key(r[2])
  BY <1>3 DEF Rows, Keys
<1> QED
  BY <1>1, <1>2, <1>3, <1>4, <1>5, <1>6, <1>7, <1>8, <1>9

\* The columns of a row.
LEMMA JobFields ==
    ASSUME NEW r \in Job
    PROVE  /\ r.status \in {"none", "running", "completed", "failed"}
           /\ r.token \in 0..MaxAttempts /\ r.live \in BOOLEAN
           /\ r.attempts \in 0..MaxAttempts /\ r.ready \in BOOLEAN
           /\ r.refs \in SUBSET Refs /\ r.parked \in SUBSET Rows
BY DEF Job

\* The fields of a run.
LEMMA RunFields ==
    ASSUME NEW r \in Run
    PROVE  /\ r.pc \in Steps /\ r.claim \in 0..MaxAttempts
           /\ r.created \in SUBSET Refs /\ r.todo \in SUBSET Refs
           /\ r.failed \in BOOLEAN
           /\ r.err \in {"none", "transient", "incomplete", "failed"}
BY DEF Run

\* Of two busy runs at most one owns the job, the one of the last attempt.
LEMMA OneOwner ==
    ASSUME IInv, NEW w \in Runners, Busy(w)
    PROVE  /\ run[w].claim \in Nat /\ run[w].claim >= 1 /\ run[w].claim <= job.attempts
           /\ run[w].claim \in Attempts
           /\ job.attempts \in Nat
           /\ Owns(w) => run[w].claim = job.attempts
           /\ \A v \in Runners : Busy(v) /\ Owns(v) /\ v # w =>
                  ~Owns(w) /\ run[w].claim < job.attempts
           /\ stalls = 0 => Owns(w) /\ job.live
<1>1. job \in Job /\ RunSane(w) /\ RowSane /\ Distinct
  BY DEF IInv, TypeOK
<1>2. run[w].claim \in 1..job.attempts /\ job.attempts \in 0..MaxAttempts
  BY <1>1, JobFields DEF RunSane
<1>3. run[w].claim \in Attempts /\ run[w].claim \in Nat /\ job.attempts \in Nat
       /\ run[w].claim >= 1 /\ run[w].claim <= job.attempts
  BY <1>2, ImportAssumption DEF Attempts
<1>4. \A v \in Runners : Busy(v) /\ Owns(v) => run[v].claim = job.attempts
  <2> TAKE v \in Runners
  <2> HAVE Busy(v) /\ Owns(v)
  <2>1. RunSane(v)
    BY DEF IInv
  <2>2. run[v].claim \in 1..job.attempts
    BY <2>1 DEF RunSane
  <2> QED
    BY <2>2, <1>1, <1>3 DEF Owns, RowSane
<1>5. \A v \in Runners : Busy(v) /\ Owns(v) /\ v # w => run[v].claim # run[w].claim
  BY <1>1 DEF Distinct
<1> QED
  BY <1>1, <1>3, <1>4, <1>5 DEF RunSane, Owns

-----------------------------------------------------------------------------
(* Steps that leave the row's state and lease alone.                       *)

DbInv == RowSane /\ Journaled /\ CompletedIsWhole /\ EventsAreTrue

\* Only a run of that attempt or of a later one undoes it, or the sweep of
\* a failed job.
MayUndo(x, a) ==
    /\ a \in Attempts
    /\ job.status = "failed" \/ (x \in Runners /\ Busy(x) /\ a <= run[x].claim)

SameRow ==
    /\ job'.status = job.status /\ job'.token = job.token
    /\ job'.attempts = job.attempts /\ job'.refs = job.refs

\* Rows, attachments and objects are lost only by who may undo them; events
\* are noted of rows that are there; an object is written by a put.
QuietDb(x) ==
    /\ UNCHANGED <<backend, source, journal>>
    /\ SameRow
    /\ job.parked \subseteq job'.parked
    /\ job'.parked \subseteq job.parked \cup rows'
    /\ source # "notion" \/ job.status # "running" => job'.parked = job.parked
    /\ stalls' = 0 => stalls = 0
    /\ rows' \subseteq rows
    /\ \A r \in rows \ rows' : MayUndo(x, r[2])
    /\ announced' \subseteq rows'
    /\ announced \cap rows' \subseteq announced'
    /\ source # "office" => announced' \subseteq announced
    /\ \A a \in Attempts : atts'[a] = atts[a] \/ (atts'[a] = "none" /\ MayUndo(x, a))
    /\ \A a \in objects \ objects' : MayUndo(x, a)
    /\ \A a \in objects' \ objects :
           x \in Runners /\ run[x].pc = "put" /\ run[x].claim = a

\* Nobody may undo the attempt that won, or that of another owner.
LEMMA Untouched ==
    ASSUME IInv, NEW x, NEW a, MayUndo(x, a)
    PROVE  /\ ~Won(a)
           /\ \A v \in Runners : v # x /\ Busy(v) /\ Owns(v) => run[v].claim # a
<1>1. CASE job.status = "failed"
  BY <1>1 DEF Won, Owns
<1>2. CASE x \in Runners /\ Busy(x) /\ a <= run[x].claim /\ a \in Attempts
  <2>1. /\ run[x].claim \in Nat /\ run[x].claim <= job.attempts /\ job.attempts \in Nat
        /\ \A v \in Runners : Busy(v) /\ Owns(v) /\ v # x => run[x].claim < job.attempts
    BY <1>2, OneOwner
  <2>2. a \in Nat
    BY <1>2, ImportAssumption DEF Attempts
  <2>3. ~Won(run[x].claim)
    BY <1>2 DEF IInv, RunSane
  <2>4. \A v \in Runners : Busy(v) /\ Owns(v) => run[v].claim = job.attempts
    BY OneOwner
  <2> QED
    BY <1>2, <2>1, <2>2, <2>3, <2>4 DEF Won
<1> QED
  BY <1>1, <1>2 DEF MayUndo

\* A key that is put is listed or, of a native run, in the journal.
LEMMA PutListed ==
    ASSUME IInv, NEW x \in Runners, run[x].pc = "put", stalls = 0
    PROVE  /\ Key(run[x].claim) \in job.refs
           /\ source = "native" => run[x].claim \in journal
           /\ \A v \in Runners : v # x => ~Busy(v)
<1>1. Busy(x)
  BY DEF Busy
<1>2. Owns(x)
  BY <1>1, OneOwner
<1>3. Progress(x)
  BY <1>1, <1>2 DEF IInv
<1> QED
  BY <1>1, <1>2, <1>3, OneOwner DEF Progress

\* A quiet step keeps what the database promises.
LEMMA QuietDbInv ==
    ASSUME IInv, TypeOK', NEW x, QuietDb(x)
    PROVE  DbInv'
<1>0. /\ job \in Job /\ job' \in Job /\ rows \subseteq Rows /\ objects \subseteq Attempts
      /\ atts \in [Attempts -> {"none", "uploading", "stored"}]
      /\ source \in {"office", "notion", "native"}
      /\ RowSane /\ Journaled /\ CompletedIsWhole /\ EventsAreTrue
  BY ImportAssumption DEF IInv, TypeOK
<1>1. \A a : Won(a)' <=> Won(a)
  BY DEF QuietDb, SameRow, Won
<1>2. \A r \in rows \ rows' : ~Won(r[2])
  BY Untouched DEF QuietDb
<1>3. \A a \in objects \ objects' : ~Won(a)
  BY Untouched DEF QuietDb
<1>4. \A a \in Attempts : Won(a) => atts'[a] = atts[a]
  BY Untouched DEF QuietDb
<1>5. \A a \in objects' \ objects : stalls = 0 =>
          Key(a) \in job.refs /\ (source = "native" => a \in journal)
  BY PutListed DEF QuietDb
<1>6. Journaled'
  <2>1. \A r \in rows' : r \in job'.refs \/ Won(r[2])'
    BY <1>0, <1>1 DEF QuietDb, SameRow, Journaled, Won
  <2>2. ASSUME stalls' = 0, NEW a \in objects'
        PROVE Key(a) \in job'.refs \/ a \in journal' \/ Won(a)'
    BY <1>0, <1>1, <1>5, <2>2 DEF QuietDb, SameRow, Journaled, Won
  <2> QED
    BY <2>1, <2>2 DEF Journaled, Won
<1>7. RowSane'
  <2>1. job'.parked \subseteq job'.refs
    <3>1. ASSUME NEW r \in job'.parked, r \notin job.parked PROVE r \in job'.refs
      <4>1. r \in rows /\ source = "notion"
        BY <3>1 DEF QuietDb
      <4>2. r \in job.refs \/ Won(r[2])
        BY <4>1, <1>0 DEF Journaled, Won
      <4>3. CASE Won(r[2])
        BY <3>1, <4>3 DEF Won, QuietDb
      <4> QED
        BY <4>2, <4>3 DEF QuietDb, SameRow
    <3> QED
      BY <3>1, <1>0 DEF QuietDb, SameRow, RowSane
  <2>2. source' = "native" => \A a \in Attempts : atts'[a] # "none" => Won(a)'
    BY <1>0, <1>1 DEF QuietDb, RowSane
  <2>3. source' = "native" /\ job'.status # "completed" => rows' = {}
    BY <1>0 DEF QuietDb, SameRow, RowSane
  <2>4. source' = "native" /\ stalls' = 0 => \A a \in objects' : a \in journal' \/ Won(a)'
    BY <1>0, <1>1, <1>5 DEF QuietDb, RowSane
  <2> QED
    BY <1>0, <2>1, <2>2, <2>3, <2>4 DEF QuietDb, SameRow, RowSane
<1>8. CompletedIsWhole'
  <2> SUFFICES ASSUME job'.status = "completed"
      PROVE LET a == job'.attempts IN
            /\ rows' = {Doc(a)} \cup (IF source' = "office" THEN {} ELSE {Task(a)})
            /\ source' # "office" => atts'[a] = "stored" /\ a \in objects'
    BY DEF CompletedIsWhole
  <2> DEFINE a == job.attempts
  <2>1. job.status = "completed" /\ job'.attempts = a /\ source' = source /\ Won(a)
    BY DEF QuietDb, SameRow, Won
  <2>2. /\ rows = {Doc(a)} \cup (IF source = "office" THEN {} ELSE {Task(a)})
        /\ source # "office" => atts[a] = "stored" /\ a \in objects
    BY <2>1, <1>0 DEF CompletedIsWhole
  <2>3. \A r \in rows : r[2] = a
    BY <2>2, RefFacts
  <2>4. rows' = rows
    BY <1>2, <2>1, <2>3 DEF QuietDb
  <2>5. source # "office" => atts'[a] = "stored" /\ a \in objects'
    BY <1>0, <1>3, <1>4, <2>1, <2>2
  <2> HIDE DEF a
  <2> QED
    BY <2>1, <2>2, <2>4, <2>5
<1>9. EventsAreTrue'
  <2>1. job'.status = "completed" => announced' = rows'
    BY <1>0 DEF QuietDb, SameRow, EventsAreTrue
  <2> QED
    BY <1>0, <2>1 DEF QuietDb, SameRow, EventsAreTrue
<1> QED
  BY <1>6, <1>7, <1>8, <1>9 DEF DbInv

\* A run that owns the job keeps what it relies on while others move.
LEMMA QuietOthers ==
    ASSUME IInv, TypeOK', NEW x, QuietDb(x),
           NEW v \in Runners, v # x, Busy(v), Owns(v), run'[v] = run[v]
    PROVE  Progress(v)'
<1> DEFINE a == run[v].claim
<1>0. /\ job \in Job /\ rows \subseteq Rows /\ source \in {"office", "notion", "native"}
      /\ Progress(v) /\ a \in Attempts
      /\ run[v].created \subseteq Of(a)
  BY OneOwner, ImportAssumption DEF IInv, TypeOK, RunSane
<1>1. ~MayUndo(x, a)
  BY Untouched
<1>2. /\ Doc(a) \in rows => Doc(a) \in rows'
      /\ Task(a) \in rows => Task(a) \in rows'
      /\ atts'[a] = atts[a]
      /\ a \in objects => a \in objects'
  BY <1>0, <1>1, RefFacts DEF QuietDb
<1>3. stalls' = 0 => objects' \subseteq objects
  BY PutListed DEF QuietDb
<1>4. run[v].pc \in Working => job'.parked \subseteq rows' /\ rows' \subseteq run[v].created
  <2> HAVE run[v].pc \in Working
  <2>1. rows \subseteq run[v].created /\ job.parked \subseteq rows
    BY <1>0 DEF Progress
  <2>2. \A r \in rows : r[2] = a
    BY <2>1, <1>0, RefFacts DEF Of
  <2>3. rows' = rows
    BY <1>1, <2>2 DEF QuietDb
  <2> QED
    BY <2>1, <2>3 DEF QuietDb
<1>5. /\ Doc(a) \in job.parked => Doc(a) \in job'.parked
      /\ Task(a) \in job.parked => Task(a) \in job'.parked
      /\ job'.refs = job.refs /\ source' = source /\ journal' = journal
      /\ rows' \subseteq rows
      /\ stalls' = 0 => stalls = 0
  BY DEF QuietDb, SameRow
<1>6. Doc(a) \in announced /\ Doc(a) \in rows' => Doc(a) \in announced'
  BY DEF QuietDb
<1> HIDE DEF a
<1>7. Clean => Clean'
  BY <1>3, <1>5 DEF Clean
<1>8. a = run'[v].claim
  BY DEF a
<1>9. Progress(v) => Progress(v)'
  BY <1>2, <1>3, <1>4, <1>5, <1>6, <1>7 DEF Progress, a
<1> QED
  BY <1>0, <1>9

\* A quiet step keeps the invariant if the actor keeps its part of it.
LEMMA QuietStep ==
    ASSUME IInv, TypeOK', NEW x, QuietDb(x),
           \A v \in Runners : v # x => run'[v] = run[v],
           stalls' = 0 /\ job.live =>
               job'.live \/ \A v \in Runners : ~(Busy(v) /\ Owns(v)),
           x \in Runners =>
               /\ RunSane(x)'
               /\ Busy(x)' => Busy(x) /\ run'[x].claim = run[x].claim
               /\ Busy(x)' /\ Owns(x)' => Progress(x)',
           SweepSane'
    PROVE  IInv'
<1>1. DbInv'
  BY QuietDbInv
<1>2. \A v \in Runners : Busy(v)' => Busy(v) /\ run'[v].claim = run[v].claim
  BY DEF Busy
<1>3. Distinct'
  BY <1>2 DEF IInv, Distinct
<1>4. ASSUME NEW v \in Runners PROVE RunSane(v)'
  <2>1. CASE v = x
    BY <2>1
  <2>2. CASE v # x
    <3>1. run'[v] = run[v] /\ RunSane(v)
      BY <2>2 DEF IInv
    <3>2. (stalls' = 0 /\ Busy(v)) => Owns(v) /\ job'.live
      BY OneOwner DEF QuietDb
    <3> QED
      BY <3>1, <3>2 DEF RunSane, QuietDb, SameRow, Busy, Owns, Won, OnPath, Postgres
  <2> QED
    BY <2>1, <2>2
<1>5. ASSUME NEW v \in Runners, Busy(v)', Owns(v)' PROVE Progress(v)'
  <2>1. Busy(v) /\ Owns(v)
    BY <1>2, <1>5 DEF QuietDb, SameRow, Owns
  <2> QED
    BY <1>5, <2>1, QuietOthers
<1> QED
  BY <1>1, <1>3, <1>4, <1>5 DEF IInv, DbInv

-----------------------------------------------------------------------------
(* What the helpers do to a run and to the row.                            *)

\* Goto changes only the step of one run.
LEMMA GotoFields ==
    ASSUME run \in [Actors -> Run], NEW x \in Actors, NEW pc \in Steps, Goto(x, pc)
    PROVE  /\ run' \in [Actors -> Run]
           /\ \A v \in Actors : v # x => run'[v] = run[v]
           /\ run'[x].pc = pc /\ run'[x].claim = run[x].claim
           /\ run'[x].created = run[x].created /\ run'[x].todo = run[x].todo
           /\ run'[x].failed = run[x].failed /\ run'[x].err = run[x].err
<1>1. run' = [run EXCEPT ![x] = [run[x] EXCEPT !.pc = pc]]
  BY DEF Goto
<1>2. run[x] \in Run
  OBVIOUS
<1>3. PICK q : q = [run[x] EXCEPT !.pc = pc]
  OBVIOUS
<1>4. /\ q \in Run /\ q.pc = pc /\ q.claim = run[x].claim /\ q.created = run[x].created
      /\ q.todo = run[x].todo /\ q.failed = run[x].failed /\ q.err = run[x].err
  BY <1>2, <1>3 DEF Run
<1> QED
  BY <1>1, <1>3, <1>4

\* Created adds one reference and moves the run on.
LEMMA CreatedFields ==
    ASSUME run \in [Actors -> Run], NEW x \in Actors, NEW pc \in Steps, NEW r \in Refs,
           Created(x, r, pc)
    PROVE  /\ run' \in [Actors -> Run]
           /\ \A v \in Actors : v # x => run'[v] = run[v]
           /\ run'[x].pc = pc /\ run'[x].claim = run[x].claim
           /\ run'[x].created = run[x].created \cup {r} /\ run'[x].todo = run[x].todo
           /\ run'[x].failed = run[x].failed /\ run'[x].err = run[x].err
<1>1. run' = [run EXCEPT ![x] = [run[x] EXCEPT !.created = run[x].created \cup {r}, !.pc = pc]]
  BY DEF Created
<1>2. run[x] \in Run
  OBVIOUS
<1>3. PICK q : q = [run[x] EXCEPT !.created = run[x].created \cup {r}, !.pc = pc]
  OBVIOUS
<1>4. /\ q \in Run /\ q.pc = pc /\ q.claim = run[x].claim /\ q.created = run[x].created \cup {r}
      /\ q.todo = run[x].todo /\ q.failed = run[x].failed /\ q.err = run[x].err
  BY <1>2, <1>3 DEF Run
<1> QED
  BY <1>1, <1>3, <1>4

\* GiveUp turns what the run created into what it has to undo.
LEMMA GiveUpFields ==
    ASSUME run \in [Actors -> Run], NEW x \in Actors, NEW e \in {"transient", "failed"},
           GiveUp(x, e)
    PROVE  /\ run' \in [Actors -> Run]
           /\ \A v \in Actors : v # x => run'[v] = run[v]
           /\ run'[x].pc = IF source = "native" THEN "fail" ELSE "undo"
           /\ run'[x].claim = run[x].claim
           /\ run'[x].created = run[x].created /\ run'[x].todo = run[x].created
           /\ run'[x].failed = FALSE /\ run'[x].err = e
<1> DEFINE pc == IF source = "native" THEN "fail" ELSE "undo"
<1>1. run' = [run EXCEPT ![x] = [run[x] EXCEPT !.pc = pc, !.todo = run[x].created,
                                               !.failed = FALSE, !.err = e]]
  BY DEF GiveUp
<1>2. run[x] \in Run /\ pc \in Steps
  BY DEF Steps
<1> HIDE DEF pc
<1>3. PICK q : q = [run[x] EXCEPT !.pc = pc, !.todo = run[x].created,
                                  !.failed = FALSE, !.err = e]
  OBVIOUS
<1>4. /\ q \in Run /\ q.pc = pc /\ q.claim = run[x].claim /\ q.created = run[x].created
      /\ q.todo = run[x].created /\ q.failed = FALSE /\ q.err = e
  BY <1>2, <1>3 DEF Run
<1> QED
  BY <1>1, <1>3, <1>4 DEF pc

\* Leave and Stop forget the run.
LEMMA LeaveFields ==
    ASSUME run \in [Actors -> Run], NEW x \in Actors, Leave(x) \/ Stop(x)
    PROVE  /\ run' \in [Actors -> Run]
           /\ \A v \in Actors : v # x => run'[v] = run[v]
           /\ run'[x].pc \in {"idle", "stopped"}
           /\ run'[x].pc = "idle" => run'[x] = Idle
<1>1. PICK q \in Run : /\ run' = [run EXCEPT ![x] = q]
                       /\ q.pc \in {"idle", "stopped"}
                       /\ q.pc = "idle" => q = Idle
  <2>1. Idle \in Run /\ Idle.pc = "idle"
    BY ImportAssumption DEF Idle, Run, Steps
  <2>2. [Idle EXCEPT !.pc = "stopped"] \in Run /\ [Idle EXCEPT !.pc = "stopped"].pc = "stopped"
    <3>1. "stopped" \in Steps
      BY DEF Steps
    <3> QED
      BY <2>1, <3>1 DEF Run
  <2> QED
    BY <2>1, <2>2 DEF Leave, Stop
<1> QED
  BY <1>1

\* append_import_ref adds references and renews the lease.
LEMMA RenewedFields ==
    ASSUME job \in Job, NEW S \in SUBSET Refs
    PROVE  /\ Renewed(S) \in Job
           /\ Renewed(S).status = job.status /\ Renewed(S).token = job.token
           /\ Renewed(S).live = TRUE /\ Renewed(S).attempts = job.attempts
           /\ Renewed(S).refs = job.refs \cup S /\ Renewed(S).parked = job.parked
BY DEF Renewed, Job

\* Events are parked with a Notion job, and nothing else changes.
LEMMA NotedFields ==
    ASSUME NEW j \in Job, NEW P \in SUBSET Rows
    PROVE  /\ Noted(j, P) \in Job
           /\ Noted(j, P).status = j.status /\ Noted(j, P).token = j.token
           /\ Noted(j, P).live = j.live /\ Noted(j, P).attempts = j.attempts
           /\ Noted(j, P).refs = j.refs
           /\ source = "notion" => Noted(j, P).parked = j.parked \cup P
           /\ source # "notion" => Noted(j, P).parked = j.parked
BY DEF Noted, Job

\* A terminal state keeps the references and the attempts.
LEMMA EndedFields ==
    ASSUME job \in Job, NEW s \in {"completed", "failed"}
    PROVE  /\ Ended(s) \in Job
           /\ Ended(s).status = s /\ Ended(s).token = 0 /\ Ended(s).live = FALSE
           /\ Ended(s).attempts = job.attempts
           /\ Ended(s).refs = job.refs /\ Ended(s).parked = {}
<1>1. 0 \in 0..MaxAttempts
  BY ImportAssumption
<1>2. s \in {"none", "running", "completed", "failed"}
  OBVIOUS
<1> QED
  BY <1>1, <1>2 DEF Ended, Job

-----------------------------------------------------------------------------
(* Steps of the run that owns the job.                                     *)

\* While one run owns the job the others own nothing, so only the database
\* and the run itself have to be looked at.
LEMMA OwnerStep ==
    ASSUME IInv, TypeOK', NEW w \in Runners, Busy(w), Owns(w),
           UNCHANGED <<backend, source, stalls>>, writer = None, writer' = None,
           \A v \in Actors : v # w => run'[v] = run[v],
           job'.attempts = job.attempts, job'.token \in {job.token, 0},
           DbInv', RunSane(w)',
           Busy(w)' => run'[w].claim = run[w].claim,
           Busy(w)' /\ Owns(w)' => Progress(w)'
    PROVE  IInv'
<1>1. \A v \in Runners : v # w => run'[v] = run[v]
  BY DEF Actors
<1>2. \A v \in Runners : Busy(v)' => Busy(v) /\ run'[v].claim = run[v].claim
  BY <1>1 DEF Busy
<1>3. Distinct'
  BY <1>2 DEF IInv, Distinct
<1>4. ASSUME NEW v \in Runners, v # w PROVE RunSane(v)' /\ (Busy(v) => ~Owns(v)')
  <2>1. run'[v] = run[v] /\ RunSane(v)
    BY <1>1, <1>4 DEF IInv
  <2>2. Busy(v) => /\ stalls # 0 /\ run[v].claim # job.attempts
                   /\ run[v].claim # job.token /\ run[v].claim # 0
    <3>1. Busy(v) => /\ run[v].claim < job.attempts /\ ~Owns(v) /\ run[v].claim \in Nat
                     /\ run[v].claim >= 1 /\ job.attempts \in Nat /\ stalls # 0
      BY <1>4, OneOwner
    <3> QED
      BY <3>1 DEF Owns
  <2> QED
    BY <2>1, <2>2 DEF RunSane, Busy, Owns, Won, OnPath, Postgres
<1>5. SweepSane'
  <2>1. run'[Sweeper] = run[Sweeper] /\ run[Sweeper].pc # "undo"
    BY ImportAssumption DEF Actors, IInv, SweepSane, Owns
  <2> QED
    BY <2>1 DEF IInv, SweepSane
<1> QED
  BY <1>1, <1>3, <1>4, <1>5 DEF IInv, DbInv, Busy

DbType ==
    /\ job \in Job
    /\ rows \subseteq Rows
    /\ atts \in [Attempts -> {"none", "uploading", "stored"}]
    /\ announced \subseteq Rows
    /\ journal \subseteq Attempts

\* The work of a run that goes on: rows with their references.
LEMMA RunningDb ==
    ASSUME IInv, NEW w \in Runners, Busy(w), Owns(w),
           UNCHANGED <<source, objects, stalls>>, DbType',
           job'.status = "running", job'.token = job.token, job'.attempts = job.attempts,
           job.refs \subseteq job'.refs,
           job'.refs \subseteq job.refs \cup Of(run[w].claim),
           job'.parked \subseteq job'.refs, source # "notion" => job'.parked = {},
           rows' \subseteq job'.refs,
           source = "native" => UNCHANGED <<rows, atts>>,
           announced' \subseteq rows', source # "office" => announced' = {},
           journal \subseteq journal', source # "native" => journal' = {}
    PROVE  DbInv'
<1>0. /\ RowSane /\ Journaled /\ job \in Job /\ job.status = "running"
  BY DEF IInv, TypeOK, Owns
<1>1. job'.refs \subseteq UpTo(job.attempts)
  <2>1. Of(run[w].claim) \subseteq UpTo(job.attempts)
    BY OneOwner, RefFacts, ImportAssumption DEF Of, UpTo
  <2> QED
    BY <1>0, <2>1 DEF RowSane
<1>2. RowSane'
  BY <1>0, <1>1 DEF RowSane, Won, UpTo
<1>3. Journaled' /\ CompletedIsWhole' /\ EventsAreTrue'
  BY <1>0 DEF Journaled, CompletedIsWhole, EventsAreTrue
<1> QED
  BY <1>2, <1>3 DEF DbInv

Kept == /\ job'.status = "running" /\ job'.token = job.token
        /\ job'.attempts = job.attempts
        /\ job.live => job'.live

\* What an owner knows before it writes.
LEMMA OwnerFacts ==
    ASSUME IInv, NEW w \in Runners, Busy(w), Owns(w)
    PROVE  /\ DbType /\ objects \subseteq Attempts
           /\ source \in {"office", "notion", "native"}
           /\ run \in [Actors -> Run] /\ w \in Actors
           /\ run[w].claim \in Attempts /\ run[w].claim = job.attempts
           /\ job.status = "running" /\ job.token = run[w].claim
           /\ run[w].created \subseteq Of(run[w].claim)
           /\ RowSane /\ Journaled /\ EventsAreTrue /\ Progress(w) /\ OnPath(w)
           /\ rows \subseteq job.refs
           /\ source # "office" => announced = {}
           /\ announced \subseteq rows
           /\ source # "native" => journal = {}
           /\ source = "native" => rows = {}
<1>1. /\ DbType /\ objects \subseteq Attempts /\ source \in {"office", "notion", "native"}
      /\ run \in [Actors -> Run] /\ w \in Actors
      /\ RowSane /\ Journaled /\ EventsAreTrue
  BY ImportAssumption DEF IInv, TypeOK, DbType, Actors
<1>2. run[w].created \subseteq Of(run[w].claim) /\ Progress(w) /\ OnPath(w)
  BY DEF IInv, RunSane
<1>3. job.status = "running" /\ job.token = run[w].claim
  BY DEF Owns
<1>4. rows \subseteq job.refs
  BY <1>1, <1>3 DEF Journaled
<1> QED
  BY <1>1, <1>2, <1>3, <1>4, OneOwner DEF RowSane, EventsAreTrue

\* extend_import_lease.
LEMMA ExtendEffect ==
    ASSUME IInv, NEW w \in Runners, Busy(w), Owns(w), ExtendRow(w),
           UNCHANGED <<source, objects, stalls>>
    PROVE  /\ DbType' /\ DbInv' /\ Kept
           /\ UNCHANGED <<rows, atts, announced, journal>>
           /\ job'.refs = job.refs /\ job'.parked = job.parked
<1>0. /\ DbType /\ RowSane /\ rows \subseteq job.refs /\ announced \subseteq rows
      /\ source # "office" => announced = {}
      /\ job.status = "running"
  BY OwnerFacts
<1>1. /\ job' \in Job /\ Kept /\ UNCHANGED <<rows, atts, announced, journal>>
      /\ job'.refs = job.refs /\ job'.parked = job.parked
  <2>1. job' = Renewed({}) /\ {} \in SUBSET Refs /\ job \in Job
    BY <1>0 DEF ExtendRow, DbType
  <2> HIDE DEF Renewed
  <2> QED
    BY <1>0, <2>1, RenewedFields DEF ExtendRow, Kept
<1>2. DbType'
  BY <1>0, <1>1 DEF DbType
<1>3. DbInv'
  BY <1>0, <1>1, <1>2, RunningDb DEF Kept, RowSane
<1> QED
  BY <1>1, <1>2, <1>3

\* The document is listed, and its event parked or announced, with the row.
LEMMA CreateEffect ==
    ASSUME IInv, NEW w \in Runners, Busy(w), Owns(w), run[w].pc = "create", CreateRow(w),
           UNCHANGED <<source, objects, stalls>>
    PROVE  /\ DbType' /\ DbInv' /\ Kept
           /\ UNCHANGED <<atts, journal>>
           /\ rows' = rows \cup {Doc(run[w].claim)}
           /\ job'.refs = job.refs \cup {Doc(run[w].claim)}
           /\ source = "notion" => job'.parked = job.parked \cup {Doc(run[w].claim)}
           /\ source # "notion" => job'.parked = job.parked
           /\ source = "office" => Doc(run[w].claim) \in announced'
<1> DEFINE d == Doc(run[w].claim)
<1>0. /\ DbType /\ RowSane /\ rows \subseteq job.refs /\ announced \subseteq rows
      /\ source # "office" => announced = {}
      /\ job.status = "running" /\ OnPath(w)
      /\ run[w].claim \in Attempts
  BY OwnerFacts
<1>1. d \in Rows /\ d \in Refs /\ d \in Of(run[w].claim)
  BY <1>0, RefFacts DEF Of
<1>2. source # "native"
  BY <1>0 DEF OnPath, Native
<1>3. /\ rows' = rows \cup {d} /\ UNCHANGED <<atts, journal>>
      /\ announced' = IF source = "office" THEN announced \cup {d} ELSE announced
      /\ job' = Noted(Renewed({d}), {d})
  BY DEF CreateRow, Told
<1> HIDE DEF d
<1>4. /\ job' \in Job /\ Kept /\ job'.refs = job.refs \cup {d}
      /\ source = "notion" => job'.parked = job.parked \cup {d}
      /\ source # "notion" => job'.parked = job.parked
  <2>1. job \in Job /\ {d} \in SUBSET Refs /\ {d} \in SUBSET Rows
    BY <1>0, <1>1 DEF DbType
  <2>2. PICK j \in Job : /\ j = Renewed({d})
                         /\ j.status = job.status /\ j.token = job.token /\ j.live = TRUE
                         /\ j.attempts = job.attempts
                         /\ j.refs = job.refs \cup {d} /\ j.parked = job.parked
    BY <2>1, RenewedFields
  <2>3. job' = Noted(j, {d})
    BY <1>3, <2>2
  <2>4. /\ job' \in Job
        /\ job'.status = j.status /\ job'.token = j.token /\ job'.live = j.live
        /\ job'.attempts = j.attempts /\ job'.refs = j.refs
        /\ source = "notion" => job'.parked = j.parked \cup {d}
        /\ source # "notion" => job'.parked = j.parked
    BY <2>1, <2>3, NotedFields, Zenon
  <2> QED
    BY <1>0, <2>2, <2>4 DEF Kept
<1>5. DbType'
  BY <1>0, <1>1, <1>3, <1>4 DEF DbType
<1>6. DbInv'
  BY <1>0, <1>1, <1>2, <1>3, <1>4, <1>5, RunningDb DEF Kept, RowSane
<1> QED
  BY <1>3, <1>4, <1>5, <1>6 DEF d

\* The task is listed and its event parked with the row.
LEMMA TaskEffect ==
    ASSUME IInv, NEW w \in Runners, Busy(w), Owns(w), run[w].pc = "task", TaskRow(w),
           UNCHANGED <<source, objects, stalls>>
    PROVE  /\ DbType' /\ DbInv' /\ Kept
           /\ UNCHANGED <<atts, announced, journal>>
           /\ rows' = rows \cup {Task(run[w].claim)}
           /\ job'.refs = job.refs \cup {Task(run[w].claim)}
           /\ source = "notion"
           /\ job'.parked = job.parked \cup {Task(run[w].claim)}
<1> DEFINE t == Task(run[w].claim)
<1>0. /\ DbType /\ RowSane /\ rows \subseteq job.refs /\ announced \subseteq rows
      /\ source # "office" => announced = {}
      /\ job.status = "running" /\ OnPath(w) /\ source \in {"office", "notion", "native"}
      /\ run[w].claim \in Attempts
  BY OwnerFacts
<1>1. t \in Rows /\ t \in Refs /\ t \in Of(run[w].claim)
  BY <1>0, RefFacts DEF Of
<1>2. source = "notion"
  BY <1>0 DEF OnPath, Native, Office, Undoing
<1>3. /\ rows' = rows \cup {t} /\ UNCHANGED <<atts, announced, journal>>
      /\ job' = Noted(Renewed({t}), {t})
  BY DEF TaskRow
<1> HIDE DEF t
<1>4. /\ job' \in Job /\ Kept /\ job'.refs = job.refs \cup {t}
      /\ job'.parked = job.parked \cup {t}
  <2>1. job \in Job /\ {t} \in SUBSET Refs /\ {t} \in SUBSET Rows
    BY <1>0, <1>1 DEF DbType
  <2>2. PICK j \in Job : /\ j = Renewed({t})
                         /\ j.status = job.status /\ j.token = job.token /\ j.live = TRUE
                         /\ j.attempts = job.attempts
                         /\ j.refs = job.refs \cup {t} /\ j.parked = job.parked
    BY <2>1, RenewedFields
  <2>3. job' = Noted(j, {t})
    BY <1>3, <2>2
  <2>4. /\ job' \in Job
        /\ job'.status = j.status /\ job'.token = j.token /\ job'.live = j.live
        /\ job'.attempts = j.attempts /\ job'.refs = j.refs
        /\ source = "notion" => job'.parked = j.parked \cup {t}
        /\ source # "notion" => job'.parked = j.parked
    BY <2>1, <2>3, NotedFields, Zenon
  <2> QED
    BY <1>0, <1>2, <2>2, <2>4 DEF Kept
<1>5. DbType'
  BY <1>0, <1>1, <1>3, <1>4 DEF DbType
<1>6. DbInv'
  BY <1>0, <1>1, <1>2, <1>3, <1>4, <1>5, RunningDb DEF Kept, RowSane
<1> QED
  BY <1>2, <1>3, <1>4, <1>5, <1>6 DEF t

\* The attachment row with the reference of its key, or marked stored.
LEMMA AttachmentEffect ==
    ASSUME IInv, NEW w \in Runners, Busy(w), Owns(w),
           \/ run[w].pc = "reserve" /\ ReserveRow(w)
           \/ run[w].pc = "mark" /\ MarkRow(w),
           UNCHANGED <<source, objects, stalls>>
    PROVE  /\ DbType' /\ DbInv' /\ Kept
           /\ UNCHANGED <<rows, announced, journal>>
           /\ source = "notion"
           /\ job'.parked = job.parked /\ job.refs \subseteq job'.refs
           /\ run[w].pc = "reserve" => Key(run[w].claim) \in job'.refs
           /\ run[w].pc = "mark" => atts'[run[w].claim] = "stored"
<1> DEFINE a == run[w].claim
<1>0. /\ DbType /\ RowSane /\ rows \subseteq job.refs /\ announced \subseteq rows
      /\ source # "office" => announced = {}
      /\ job.status = "running" /\ OnPath(w) /\ source \in {"office", "notion", "native"}
      /\ a \in Attempts
  BY OwnerFacts
<1>1. Key(a) \in Refs /\ Key(a) \in Of(a)
  BY <1>0, RefFacts DEF Of
<1>2. source = "notion"
  BY <1>0 DEF OnPath, Native, Office, Undoing
<1>3. PICK S \in SUBSET {Key(a)}, c \in {"uploading", "stored"} :
        /\ atts' = [atts EXCEPT ![a] = c]
        /\ job' = Renewed(S) /\ UNCHANGED <<rows, announced, journal>>
        /\ run[w].pc = "reserve" => S = {Key(a)}
        /\ run[w].pc = "mark" => c = "stored"
  <2>1. CASE run[w].pc = "reserve" /\ ReserveRow(w)
    <3> WITNESS {Key(a)} \in SUBSET {Key(a)}, "uploading" \in {"uploading", "stored"}
    <3> QED
      BY <2>1 DEF ReserveRow
  <2>2. CASE run[w].pc = "mark" /\ MarkRow(w)
    <3> WITNESS {} \in SUBSET {Key(a)}, "stored" \in {"uploading", "stored"}
    <3> QED
      BY <2>2 DEF MarkRow
  <2> QED
    BY <2>1, <2>2
<1> HIDE DEF a
<1>4. /\ job' \in Job /\ Kept /\ job'.refs = job.refs \cup S
      /\ job'.parked = job.parked
  <2>1. job \in Job /\ S \in SUBSET Refs
    BY <1>0, <1>1 DEF DbType
  <2> HIDE DEF Renewed
  <2> QED
    BY <1>0, <1>3, <2>1, RenewedFields DEF Kept
<1>5. DbType' /\ atts'[a] = c
  BY <1>0, <1>1, <1>3, <1>4 DEF DbType
<1>6. DbInv'
  <2>1. job'.refs \subseteq job.refs \cup Of(run[w].claim)
    BY <1>4, <1>1 DEF a
  <2> QED
    BY <1>0, <2>1, <1>2, <1>3, <1>4, <1>5, RunningDb DEF Kept, RowSane
<1> QED
  BY <1>2, <1>3, <1>4, <1>5, <1>6 DEF a

\* The key is listed and journaled before its object is put.
LEMMA StageEffect ==
    ASSUME IInv, NEW w \in Runners, Busy(w), Owns(w), run[w].pc = "stage", StageRow(w),
           UNCHANGED <<source, objects, stalls>>
    PROVE  /\ DbType' /\ DbInv' /\ Kept
           /\ UNCHANGED <<rows, atts, announced>>
           /\ source = "native"
           /\ job'.refs = job.refs \cup {Key(run[w].claim)} /\ job'.parked = job.parked
           /\ journal' = journal \cup {run[w].claim}
<1> DEFINE a == run[w].claim
<1>0. /\ DbType /\ RowSane /\ rows \subseteq job.refs /\ announced \subseteq rows
      /\ source # "office" => announced = {}
      /\ job.status = "running" /\ OnPath(w) /\ source \in {"office", "notion", "native"}
      /\ a \in Attempts
  BY OwnerFacts
<1>1. Key(a) \in Refs /\ Key(a) \in Of(a)
  BY <1>0, RefFacts DEF Of
<1>2. source = "native"
  BY <1>0 DEF OnPath, Notion, Office, Undoing
<1>3. /\ journal' = journal \cup {a}
      /\ job' = Renewed({Key(a)}) /\ UNCHANGED <<rows, atts, announced>>
  BY DEF StageRow
<1>4. /\ job' \in Job /\ Kept /\ job'.refs = job.refs \cup {Key(a)}
      /\ job'.parked = job.parked
  <2>1. job \in Job /\ {Key(a)} \in SUBSET Refs
    BY <1>0, <1>1 DEF DbType
  <2> HIDE DEF Renewed, a
  <2> QED
    BY <1>0, <1>3, <2>1, RenewedFields DEF Kept
<1>5. DbType'
  BY <1>0, <1>1, <1>3, <1>4 DEF DbType
<1>6. DbInv'
  BY <1>0, <1>1, <1>2, <1>3, <1>4, <1>5, RunningDb DEF Kept, RowSane
<1> QED
  BY <1>2, <1>3, <1>4, <1>5, <1>6

\* The references are forgotten when everything they name is gone.
LEMMA CleanDb ==
    ASSUME IInv, NEW w \in Runners, Busy(w), Owns(w), Clean,
           UNCHANGED <<source, rows, atts, announced, journal, objects, stalls>>,
           job' \in Job, job'.status = "running", job'.token \in {job.token, 0},
           job'.attempts = job.attempts, job'.refs = {}, job'.parked = {}
    PROVE  DbType' /\ DbInv'
<1>0. /\ DbType /\ RowSane /\ EventsAreTrue /\ job.status = "running"
      /\ job.token = run[w].claim /\ run[w].claim = job.attempts
  BY OwnerFacts
<1>1. RowSane'
  BY <1>0 DEF RowSane, Won, UpTo, DbType, Clean
<1>2. Journaled' /\ CompletedIsWhole' /\ EventsAreTrue'
  BY <1>0 DEF Journaled, CompletedIsWhole, EventsAreTrue, Clean
<1> QED
  BY <1>0, <1>1, <1>2 DEF DbInv, DbType

\* The references are dropped only when nothing they named is left.
LEMMA ResetEffect ==
    ASSUME IInv, NEW w \in Runners, Busy(w), Owns(w), run[w].pc = "reset", ResetRow(w),
           UNCHANGED <<source, objects, stalls>>
    PROVE  /\ DbType' /\ DbInv' /\ Kept /\ Clean
           /\ UNCHANGED <<rows, atts, announced, journal>>
           /\ job'.parked = {}
<1>0. DbType /\ job.status = "running" /\ Clean
  BY OwnerFacts DEF Progress
<1>1. /\ job' \in Job /\ job'.status = job.status /\ job'.token = job.token
      /\ job'.live = job.live /\ job'.attempts = job.attempts
      /\ job'.refs = {} /\ job'.parked = {}
  <2>1. job \in Job /\ job' = [job EXCEPT !.refs = {}, !.parked = {}]
    BY <1>0 DEF ResetRow, DbType
  <2> QED
    BY <2>1 DEF Job
<1> QED
  BY <1>0, <1>1, CleanDb DEF ResetRow, Kept

\* The job fails; whatever is left stays listed.
LEMMA FailEffect ==
    ASSUME IInv, NEW w \in Runners, Busy(w), Owns(w), FailRow(w),
           UNCHANGED <<source, objects, stalls>>
    PROVE  /\ DbType' /\ DbInv' /\ job'.attempts = job.attempts /\ job'.token = 0
           /\ job'.status = "failed"
<1>0. /\ DbType /\ RowSane /\ EventsAreTrue /\ Journaled /\ job.status = "running"
      /\ source = "native" => rows = {}
  BY OwnerFacts
<1>1. /\ job' \in Job /\ job'.status = "failed" /\ job'.token = 0
      /\ job'.attempts = job.attempts /\ job'.refs = job.refs /\ job'.parked = {}
  <2>1. job \in Job /\ job' = Ended("failed")
    BY <1>0 DEF FailRow, DbType
  <2> QED
    BY <2>1, EndedFields, Zenon
<1>2. UNCHANGED <<rows, atts, announced, journal>>
  BY DEF FailRow
<1>3. RowSane'
  BY <1>0, <1>1, <1>2 DEF RowSane, Won, UpTo
<1>4. Journaled' /\ CompletedIsWhole' /\ EventsAreTrue'
  BY <1>0, <1>1, <1>2 DEF Journaled, CompletedIsWhole, EventsAreTrue
<1> QED
  BY <1>0, <1>1, <1>2, <1>3, <1>4 DEF DbInv, DbType

\* A released job keeps its references unless everything is gone.
LEMMA SettleEffect ==
    ASSUME IInv, NEW w \in Runners, Busy(w), Owns(w), run[w].pc = "settle", SettleRow(w),
           UNCHANGED <<source, objects, stalls>>
    PROVE  /\ DbType' /\ DbInv' /\ job'.attempts = job.attempts /\ job'.token = 0
<1>0. /\ DbType /\ RowSane /\ EventsAreTrue /\ Journaled /\ job.status = "running"
      /\ Progress(w)
      /\ source = "native" => rows = {}
  BY OwnerFacts
<1>1. CASE FailRow(w)
  BY <1>1, FailEffect
<1>2. CASE ReleaseRow(w) /\ run[w].err \in {"transient", "incomplete"}
  <2> DEFINE clear == ~run[w].failed /\ run[w].err # "incomplete"
  <2>1. job' = [job EXCEPT !.token = 0, !.live = FALSE, !.ready = FALSE,
                          !.refs = IF clear THEN {} ELSE job.refs,
                          !.parked = IF clear THEN {} ELSE job.parked]
        /\ UNCHANGED <<rows, atts, announced, journal>>
    BY <1>2 DEF ReleaseRow
  <2>2. /\ job' \in Job /\ job'.status = job.status /\ job'.token = 0
        /\ job'.attempts = job.attempts
        /\ job'.refs = (IF clear THEN {} ELSE job.refs)
        /\ job'.parked = (IF clear THEN {} ELSE job.parked)
    <3>1. job \in Job /\ 0 \in 0..MaxAttempts
      BY <1>0, ImportAssumption DEF DbType
    <3> HIDE DEF clear
    <3> QED
      BY <2>1, <3>1 DEF Job
  <2>3. CASE clear
    <3>1. Clean
      BY <1>0, <1>2, <2>3 DEF Progress
    <3> QED
      BY <1>0, <2>1, <2>2, <2>3, <3>1, CleanDb
  <2>4. CASE ~clear
    <3>1. job'.refs = job.refs /\ job'.parked = job.parked
      BY <2>2, <2>4
    <3> HIDE DEF clear
    <3>2. RowSane'
      BY <1>0, <2>1, <2>2, <3>1 DEF RowSane, Won, UpTo
    <3>3. Journaled' /\ CompletedIsWhole' /\ EventsAreTrue'
      BY <1>0, <2>1, <2>2, <3>1 DEF Journaled, CompletedIsWhole, EventsAreTrue
    <3> QED
      BY <1>0, <2>1, <2>2, <3>2, <3>3 DEF DbInv, DbType
  <2> QED
    BY <2>3, <2>4
<1> QED
  BY <1>1, <1>2 DEF SettleRow

\* The completed job has the rows of its run, and their events.
LEMMA CompleteEffect ==
    ASSUME IInv, NEW w \in Runners, Busy(w), Owns(w), run[w].pc = "finish", CompleteRow(w),
           UNCHANGED <<source, objects, stalls>>
    PROVE  /\ DbType' /\ DbInv' /\ job'.attempts = job.attempts /\ job'.token = 0
<1> DEFINE a == run[w].claim
<1>0. /\ DbType /\ RowSane /\ EventsAreTrue /\ Journaled /\ job.status = "running"
      /\ Progress(w) /\ OnPath(w) /\ a \in Attempts /\ a = job.attempts
      /\ source \in {"office", "notion", "native"}
      /\ run[w].created \subseteq Of(a)
      /\ announced \subseteq rows /\ (source # "office" => announced = {})
  BY OwnerFacts
<1>1. /\ job' \in Job /\ job'.status = "completed" /\ job'.token = 0
      /\ job'.attempts = job.attempts /\ job'.refs = job.refs /\ job'.parked = {}
  <2>1. job \in Job /\ job' = Ended("completed")
    BY <1>0 DEF CompleteRow, DbType
  <2> QED
    BY <2>1, EndedFields, Zenon
<1>2. UNCHANGED <<rows, atts, journal>> /\ announced' = announced \cup job.parked
  BY DEF CompleteRow
<1>3. source # "native"
  BY <1>0 DEF OnPath, Native
<1>4. /\ rows \subseteq run[w].created /\ job.parked \subseteq rows /\ Doc(a) \in rows
      /\ source = "notion" => /\ Doc(a) \in job.parked /\ Task(a) \in rows
                              /\ Task(a) \in job.parked
                              /\ atts[a] = "stored" /\ a \in objects
      /\ source = "office" => Doc(a) \in announced /\ Task(a) \notin run[w].created
  BY <1>0, <1>3 DEF Progress, Working, OnPath
<1>5. rows \subseteq {Doc(a), Task(a)}
  <2>1. rows \subseteq Rows /\ Key(a) \notin Rows
    BY <1>0, RefFacts DEF DbType
  <2> QED
    BY <2>1, <1>4, <1>0 DEF Of
<1>6. /\ rows = {Doc(a)} \cup (IF source = "office" THEN {} ELSE {Task(a)})
      /\ announced' = rows
  <2>1. CASE source = "office"
    BY <2>1, <1>0, <1>2, <1>4, <1>5
  <2>2. CASE source = "notion"
    BY <2>2, <1>0, <1>2, <1>4, <1>5
  <2> QED
    BY <2>1, <2>2, <1>0, <1>3
<1>7. RowSane'
  BY <1>0, <1>1, <1>2, <1>3 DEF RowSane, Won, UpTo
<1>8. Journaled'
  <2>1. \A r \in rows : r \in job'.refs
    BY <1>0, <1>1 DEF Journaled
  <2> QED
    BY <2>1, <1>0, <1>1, <1>2 DEF Journaled
<1>9. CompletedIsWhole'
  BY <1>0, <1>1, <1>2, <1>3, <1>4, <1>6 DEF CompletedIsWhole
<1>10. EventsAreTrue'
  BY <1>0, <1>1, <1>2, <1>6 DEF EventsAreTrue
<1>11. DbType'
  BY <1>0, <1>1, <1>2 DEF DbType, Job
<1> QED
  BY <1>1, <1>7, <1>8, <1>9, <1>10, <1>11 DEF DbInv

\* publish_backend creates the whole graph where nothing was.
LEMMA PublishEffect ==
    ASSUME IInv, NEW w \in Runners, Busy(w), Owns(w), run[w].pc = "publish", PublishRow(w),
           Permitted(w), UNCHANGED <<source, objects, stalls>>
    PROVE  /\ DbType' /\ DbInv' /\ job'.attempts = job.attempts /\ job'.token = 0
<1> DEFINE a == run[w].claim
<1>0. /\ DbType /\ RowSane /\ EventsAreTrue /\ Journaled /\ job.status = "running"
      /\ Progress(w) /\ OnPath(w) /\ a \in Attempts /\ a = job.attempts
      /\ source \in {"office", "notion", "native"}
      /\ announced \subseteq rows
  BY OwnerFacts
<1>1. /\ job' \in Job /\ job'.status = "completed" /\ job'.token = 0
      /\ job'.attempts = job.attempts /\ job'.refs = {} /\ job'.parked = {}
  <2>1. job \in Job /\ job' = [Ended("completed") EXCEPT !.refs = {}]
    BY <1>0 DEF PublishRow, DbType
  <2>2. PICK j \in Job : /\ j = Ended("completed")
                         /\ j.status = "completed" /\ j.token = 0
                         /\ j.attempts = job.attempts /\ j.parked = {}
    BY <2>1, EndedFields
  <2>3. job' = [j EXCEPT !.refs = {}]
    BY <2>1, <2>2
  <2> QED
    BY <2>2, <2>3 DEF Job
<1>2. source = "native" /\ rows = {} /\ announced = {}
  BY <1>0 DEF OnPath, Office, Notion, Undoing, RowSane
<1>3. /\ rows' = {Doc(a), Task(a)} /\ announced' = {Doc(a), Task(a)}
      /\ atts' = [atts EXCEPT ![a] = "stored"] /\ journal' = journal \ {a}
  BY <1>2 DEF PublishRow
<1>4. a \in objects
  BY <1>0 DEF Permitted, Progress
<1>5. Doc(a)[2] = a /\ Task(a)[2] = a /\ Doc(a) \in Rows /\ Task(a) \in Rows
  BY <1>0, RefFacts
<1>6. RowSane'
  <2>1. \A b \in Attempts : atts'[b] # "none" => b = a
    BY <1>0, <1>2, <1>3 DEF RowSane, Won, DbType
  <2>2. stalls = 0 => \A b \in objects : b \in journal' \/ b = a
    BY <1>0, <1>2, <1>3 DEF RowSane, Won
  <2> QED
    BY <1>0, <1>1, <1>2, <1>3, <2>1, <2>2 DEF RowSane, Won, UpTo
<1>7. Journaled'
  <2>1. stalls = 0 => \A b \in objects : b \in journal' \/ b = a
    BY <1>0, <1>2, <1>3 DEF RowSane, Won
  <2> QED
    BY <2>1, <1>0, <1>1, <1>3, <1>5 DEF Journaled
<1>8. CompletedIsWhole'
  <2>1. atts'[a] = "stored"
    BY <1>0, <1>3 DEF DbType
  <2> QED
    BY <2>1, <1>0, <1>1, <1>2, <1>3, <1>4 DEF CompletedIsWhole
<1>9. EventsAreTrue'
  BY <1>1, <1>3 DEF EventsAreTrue
<1>10. DbType'
  BY <1>0, <1>1, <1>3, <1>5 DEF DbType
<1> QED
  BY <1>1, <1>6, <1>7, <1>8, <1>9, <1>10 DEF DbInv

-----------------------------------------------------------------------------
(* The transactions of a run, answered or not.                             *)

\* Every write of an owner leaves a database that keeps its promises.
LEMMA OwnerWrites ==
    ASSUME IInv, NEW w \in Runners, Busy(w), Owns(w), WriterFree,
           UNCHANGED <<setting, admin, objects, writer, stalls>>,
           faults' \in 0..MaxFaults, DbType', DbInv',
           run' \in [Actors -> Run], \A v \in Actors : v # w => run'[v] = run[v],
           job'.attempts = job.attempts, job'.token \in {job.token, 0},
           RunSane(w)',
           Busy(w)' => run'[w].claim = run[w].claim,
           Busy(w)' /\ Owns(w)' => Progress(w)'
    PROVE  IInv'
<1>1. UNCHANGED <<backend, source>> /\ writer = None /\ writer' = None
  BY DEF setting, WriterFree
<1>2. TypeOK'
  BY <1>1 DEF IInv, TypeOK, DbType
<1> QED
  BY <1>1, <1>2, OwnerStep

\* The run that goes on still owns the job.
LEMMA GoesOn ==
    ASSUME IInv, NEW w \in Runners, Busy(w), Owns(w), Kept,
           UNCHANGED <<backend, source, stalls>>,
           run'[w].pc \notin {"idle", "stopped", "prepare"},
           run'[w].claim = run[w].claim,
           run'[w].created \subseteq Of(run[w].claim),
           run'[w].todo \subseteq UpTo(run[w].claim),
           OnPath(w)', run'[w].pc = "undo" => ~run'[w].failed
    PROVE  RunSane(w)'
<1>1. RunSane(w) /\ (stalls = 0 => job.live)
  BY OneOwner DEF IInv
<1> QED
  BY <1>1 DEF RunSane, Kept, Owns, Won, Busy

\* The owner wrote and its run is over.
LEMMA LeavesAfter ==
    ASSUME IInv, NEW w \in Runners, Busy(w), Owns(w), WriterFree,
           UNCHANGED <<setting, admin, objects, writer, stalls>>,
           faults' \in 0..MaxFaults, DbType', DbInv',
           job'.attempts = job.attempts, job'.token \in {job.token, 0},
           Leave(w) \/ Stop(w)
    PROVE  IInv'
<1>1. run \in [Actors -> Run] /\ w \in Actors
  BY OwnerFacts
<1>2. /\ run' \in [Actors -> Run]
      /\ \A v \in Actors : v # w => run'[v] = run[v]
      /\ run'[w].pc \in {"idle", "stopped"}
      /\ run'[w].pc = "idle" => run'[w] = Idle
  BY <1>1, LeaveFields
<1>3. RunSane(w)' /\ ~Busy(w)'
  BY <1>2 DEF RunSane, Busy
<1> QED
  BY <1>2, <1>3, OwnerWrites

\* The owner wrote, did not hear of it, and gives up.
LEMMA GivesUpAfter ==
    ASSUME IInv, NEW w \in Runners, Busy(w), Owns(w), WriterFree,
           UNCHANGED <<setting, admin, objects, writer, stalls>>,
           faults' \in 0..MaxFaults, DbType', DbInv', Kept,
           GiveUp(w, "failed")
    PROVE  IInv'
<1>1. /\ run \in [Actors -> Run] /\ w \in Actors /\ OnPath(w)
      /\ source \in {"office", "notion", "native"}
      /\ run[w].claim \in Attempts
      /\ run[w].created \subseteq Of(run[w].claim)
  BY OwnerFacts
<1>2. /\ run' \in [Actors -> Run]
      /\ \A v \in Actors : v # w => run'[v] = run[v]
      /\ run'[w].pc = IF source = "native" THEN "fail" ELSE "undo"
      /\ run'[w].claim = run[w].claim
      /\ run'[w].created = run[w].created /\ run'[w].todo = run[w].created
      /\ run'[w].failed = FALSE /\ run'[w].err = "failed"
  BY <1>1, GiveUpFields
<1>3. Of(run[w].claim) \subseteq UpTo(run[w].claim)
  BY <1>1, RefFacts, ImportAssumption DEF Of, UpTo, Attempts
<1>4. source' = source /\ backend' = backend
  BY DEF setting
<1>5. OnPath(w)'
  BY <1>1, <1>2, <1>4 DEF OnPath, Office, Notion, Native, Undoing
<1>6. RunSane(w)'
  BY <1>1, <1>2, <1>3, <1>4, <1>5, GoesOn
<1>7. Progress(w)'
  BY <1>2 DEF Progress, Working
<1> QED
  BY <1>2, <1>6, <1>7, OwnerWrites DEF Kept

\* What every committed step of an owner keeps.
LEMMA EffectOK ==
    ASSUME IInv, NEW w \in Runners, Owns(w), Permitted(w), Effect(w), run[w].pc # "body",
           UNCHANGED <<source, objects, stalls>>
    PROVE  /\ Busy(w) /\ DbType' /\ DbInv'
           /\ job'.attempts = job.attempts /\ job'.token \in {job.token, 0}
           /\ run[w].pc \in {"reset", "extend", "create", "reserve", "mark", "task", "stage"}
                => Kept
<1>1. Busy(w)
  BY DEF Effect, Busy
<1>2. CASE run[w].pc = "reset" /\ ResetRow(w)
  BY <1>1, <1>2, ResetEffect DEF Kept
<1>3. CASE run[w].pc = "extend" /\ ExtendRow(w)
  BY <1>1, <1>3, ExtendEffect DEF Kept
<1>4. CASE run[w].pc = "create" /\ CreateRow(w)
  BY <1>1, <1>4, CreateEffect DEF Kept
<1>5. CASE \/ run[w].pc = "reserve" /\ ReserveRow(w)
           \/ run[w].pc = "mark" /\ MarkRow(w)
  BY <1>1, <1>5, AttachmentEffect DEF Kept
<1>6. CASE run[w].pc = "task" /\ TaskRow(w)
  BY <1>1, <1>6, TaskEffect DEF Kept
<1>7. CASE run[w].pc = "finish" /\ CompleteRow(w)
  BY <1>1, <1>7, CompleteEffect
<1>8. CASE run[w].pc = "settle" /\ SettleRow(w)
  BY <1>1, <1>8, SettleEffect
<1>9. CASE run[w].pc = "stage" /\ StageRow(w)
  BY <1>1, <1>9, StageEffect DEF Kept
<1>10. CASE run[w].pc = "publish" /\ PublishRow(w)
  BY <1>1, <1>10, PublishEffect
<1>11. CASE run[w].pc = "fail" /\ FailRow(w)
  BY <1>1, <1>11, FailEffect
<1> QED
  BY <1>2, <1>3, <1>4, <1>5, <1>6, <1>7, <1>8, <1>9, <1>10, <1>11 DEF Effect

\* An answered COMMIT leads to a step of the run's path.
LEMMA AdvanceSteps ==
    ASSUME NEW w, Advance(w)
    PROVE  /\ run[w].pc = "reset" => Goto(w, "load")
           /\ run[w].pc = "extend" => Goto(w, IF source = "office" THEN "create" ELSE "stage")
           /\ run[w].pc = "create" =>
                Created(w, Doc(run[w].claim),
                        IF Postgres THEN "body"
                        ELSE IF source = "notion" THEN "reserve" ELSE "finish")
           /\ run[w].pc = "body" => Goto(w, IF source = "notion" THEN "reserve" ELSE "finish")
           /\ run[w].pc = "reserve" => Created(w, Key(run[w].claim), "put")
           /\ run[w].pc = "mark" => Goto(w, "task")
           /\ run[w].pc = "task" => Created(w, Task(run[w].claim), "finish")
           /\ run[w].pc = "stage" => Goto(w, "put")
           /\ run[w].pc \in {"finish", "settle", "publish", "fail"} => Leave(w)
BY DEF Advance

\* The steps of a run between two of its writes.
LEMMA Proceeds ==
    ASSUME IInv, NEW w \in Runners, Busy(w), Owns(w), WriterFree,
           UNCHANGED <<setting, admin, objects, writer, bounds>>, DbType', DbInv', Kept,
           NEW pc \in Working, NEW S \in SUBSET Of(run[w].claim),
           run' \in [Actors -> Run], \A v \in Actors : v # w => run'[v] = run[v],
           run'[w].pc = pc, run'[w].claim = run[w].claim,
           run'[w].created = run[w].created \cup S, run'[w].todo = run[w].todo,
           OnPath(w)', Progress(w)'
    PROVE  IInv'
<1>1. /\ run[w].created \subseteq Of(run[w].claim)
      /\ run[w].todo \subseteq UpTo(run[w].claim)
      /\ faults' = faults /\ stalls' = stalls /\ faults \in 0..MaxFaults
      /\ source' = source /\ backend' = backend
  BY DEF IInv, TypeOK, RunSane, bounds, setting
<1>2. RunSane(w)'
  BY <1>1, GoesOn DEF Working
<1> QED
  BY <1>1, <1>2, OwnerWrites DEF Kept

\* The owner wrote and knows it, step by step.
LEMMA WriteOwned ==
    ASSUME IInv, NEW w \in Runners, Write(w), run[w].pc # "body"
    PROVE  IInv'
<1>0. /\ Owns(w) /\ Permitted(w) /\ Effect(w) /\ Advance(w) /\ WriterFree
      /\ UNCHANGED <<setting, admin, objects, writer, bounds>>
      /\ source' = source /\ backend' = backend /\ stalls' = stalls /\ objects' = objects
      /\ faults' = faults /\ faults \in 0..MaxFaults
  BY DEF Write, Commits, Held, Owns, setting, bounds, IInv, TypeOK
<1>1. /\ Busy(w) /\ DbType' /\ DbInv'
      /\ job'.attempts = job.attempts /\ job'.token \in {job.token, 0}
  BY <1>0, EffectOK
<1>2. /\ DbType /\ objects \subseteq Attempts
      /\ source \in {"office", "notion", "native"}
      /\ run \in [Actors -> Run] /\ w \in Actors
      /\ run[w].claim \in Attempts
      /\ run[w].created \subseteq Of(run[w].claim)
      /\ Progress(w) /\ OnPath(w)
      /\ source = "native" => rows = {}
  BY <1>0, <1>1, OwnerFacts
<1>3. /\ {} \in SUBSET Of(run[w].claim)
      /\ {Doc(run[w].claim)} \in SUBSET Of(run[w].claim)
      /\ {Task(run[w].claim)} \in SUBSET Of(run[w].claim)
      /\ {Key(run[w].claim)} \in SUBSET Of(run[w].claim)
      /\ Doc(run[w].claim) \in Refs /\ Task(run[w].claim) \in Refs
      /\ Key(run[w].claim) \in Refs
      /\ Doc(run[w].claim) # Task(run[w].claim)
  BY <1>2, RefFacts DEF Of, Rows
<1>4. CASE run[w].pc \in {"finish", "settle", "publish", "fail"}
  <2>1. Leave(w)
    BY <1>0, <1>4, AdvanceSteps
  <2> QED
    BY <2>1, <1>0, <1>1, LeavesAfter
<1>5. CASE run[w].pc = "reset"
  <2>1. /\ Kept /\ Clean /\ UNCHANGED <<rows, atts, announced, journal>>
        /\ job'.parked = {}
    BY <1>0, <1>1, <1>5, ResetEffect DEF Effect
  <2>2. Goto(w, "load") /\ "load" \in Steps /\ "load" \in Working
    BY <1>0, <1>5, AdvanceSteps DEF Steps, Working
  <2>3. /\ run' \in [Actors -> Run]
        /\ \A v \in Actors : v # w => run'[v] = run[v]
        /\ run'[w].pc = "load" /\ run'[w].claim = run[w].claim
        /\ run'[w].created = run[w].created /\ run'[w].todo = run[w].todo
    BY <1>2, <2>2, GotoFields
  <2>4. OnPath(w)'
    BY <1>0, <1>2, <2>3 DEF OnPath, Office, Notion, Native
  <2>5. Progress(w)'
    BY <1>0, <2>1, <2>3 DEF Progress, Clean
  <2> QED
    BY <1>0, <1>1, <1>3, <2>1, <2>2, <2>3, <2>4, <2>5, Proceeds
<1>6. CASE run[w].pc = "extend"
  <2>1. /\ Kept /\ UNCHANGED <<rows, atts, announced, journal>>
        /\ job'.parked = job.parked
    BY <1>0, <1>1, <1>6, ExtendEffect DEF Effect
  <2>2. PICK pc \in {"create", "stage"} :
          Goto(w, pc) /\ pc = (IF source = "office" THEN "create" ELSE "stage")
    BY <1>0, <1>6, AdvanceSteps
  <2>3. pc \in Steps /\ pc \in Working
    BY <2>2 DEF Steps, Working
  <2>4. /\ run' \in [Actors -> Run]
        /\ \A v \in Actors : v # w => run'[v] = run[v]
        /\ run'[w].pc = pc /\ run'[w].claim = run[w].claim
        /\ run'[w].created = run[w].created /\ run'[w].todo = run[w].todo
    BY <1>2, <2>2, <2>3, GotoFields
  <2>5. OnPath(w)'
    BY <1>0, <1>2, <1>6, <2>2, <2>4 DEF OnPath, Office, Notion, Native, Undoing
  <2>6. Progress(w)'
    BY <1>0, <1>2, <1>6, <2>1, <2>2, <2>4 DEF Progress, Working
  <2> QED
    BY <1>0, <1>1, <1>3, <2>1, <2>3, <2>4, <2>5, <2>6, Proceeds
<1>7. CASE run[w].pc = "create"
  <2>1. /\ Kept /\ UNCHANGED <<atts, journal>>
        /\ rows' = rows \cup {Doc(run[w].claim)}
        /\ source = "notion" => job'.parked = job.parked \cup {Doc(run[w].claim)}
        /\ source # "notion" => job'.parked = job.parked
        /\ source = "office" => Doc(run[w].claim) \in announced'
    BY <1>0, <1>1, <1>7, CreateEffect DEF Effect
  <2>2. PICK pc \in {"body", "reserve", "finish"} :
          /\ Created(w, Doc(run[w].claim), pc)
          /\ pc = "reserve" => source = "notion"
          /\ pc = "finish" => source # "notion"
    BY <1>0, <1>7, AdvanceSteps
  <2>3. pc \in Steps /\ pc \in Working
    BY <2>2 DEF Steps, Working
  <2>4. /\ run' \in [Actors -> Run]
        /\ \A v \in Actors : v # w => run'[v] = run[v]
        /\ run'[w].pc = pc /\ run'[w].claim = run[w].claim
        /\ run'[w].created = run[w].created \cup {Doc(run[w].claim)}
        /\ run'[w].todo = run[w].todo
    BY <1>2, <1>3, <2>2, <2>3, CreatedFields
  <2>5. OnPath(w)'
    BY <1>0, <1>2, <1>3, <1>7, <2>2, <2>4 DEF OnPath, Office, Notion, Native, Undoing
  <2>6. Progress(w)'
    BY <1>0, <1>2, <1>7, <2>1, <2>2, <2>4 DEF Progress, Working
  <2> QED
    BY <1>0, <1>1, <1>3, <2>1, <2>3, <2>4, <2>5, <2>6, Proceeds
<1>8. CASE run[w].pc = "reserve"
  <2>1. /\ Kept /\ UNCHANGED <<rows, announced, journal>> /\ source = "notion"
        /\ job'.parked = job.parked /\ Key(run[w].claim) \in job'.refs
    BY <1>0, <1>1, <1>8, AttachmentEffect DEF Effect
  <2>2. Created(w, Key(run[w].claim), "put") /\ "put" \in Steps /\ "put" \in Working
    BY <1>0, <1>8, AdvanceSteps DEF Steps, Working
  <2>3. /\ run' \in [Actors -> Run]
        /\ \A v \in Actors : v # w => run'[v] = run[v]
        /\ run'[w].pc = "put" /\ run'[w].claim = run[w].claim
        /\ run'[w].created = run[w].created \cup {Key(run[w].claim)}
        /\ run'[w].todo = run[w].todo
    BY <1>2, <1>3, <2>2, CreatedFields
  <2>4. OnPath(w)'
    BY <1>0, <2>1, <2>3 DEF OnPath, Notion
  <2>5. Progress(w)'
    BY <1>0, <1>2, <1>8, <2>1, <2>3 DEF Progress, Working
  <2> QED
    BY <1>0, <1>1, <1>3, <2>1, <2>2, <2>3, <2>4, <2>5, Proceeds
<1>9. CASE run[w].pc = "mark"
  <2>1. /\ Kept /\ UNCHANGED <<rows, announced, journal>> /\ source = "notion"
        /\ job'.parked = job.parked /\ job.refs \subseteq job'.refs
        /\ atts'[run[w].claim] = "stored" /\ run[w].claim \in objects
    BY <1>0, <1>1, <1>9, AttachmentEffect DEF Effect, Permitted
  <2>2. Goto(w, "task") /\ "task" \in Steps /\ "task" \in Working
    BY <1>0, <1>9, AdvanceSteps DEF Steps, Working
  <2>3. /\ run' \in [Actors -> Run]
        /\ \A v \in Actors : v # w => run'[v] = run[v]
        /\ run'[w].pc = "task" /\ run'[w].claim = run[w].claim
        /\ run'[w].created = run[w].created /\ run'[w].todo = run[w].todo
    BY <1>2, <2>2, GotoFields
  <2>4. OnPath(w)'
    BY <1>0, <2>1, <2>3 DEF OnPath, Notion
  <2>5. Progress(w)'
    BY <1>0, <1>2, <1>9, <2>1, <2>3 DEF Progress, Working
  <2> QED
    BY <1>0, <1>1, <1>3, <2>1, <2>2, <2>3, <2>4, <2>5, Proceeds
<1>10. CASE run[w].pc = "task"
  <2>1. /\ Kept /\ UNCHANGED <<atts, announced, journal>> /\ source = "notion"
        /\ rows' = rows \cup {Task(run[w].claim)}
        /\ job'.refs = job.refs \cup {Task(run[w].claim)}
        /\ job'.parked = job.parked \cup {Task(run[w].claim)}
    BY <1>0, <1>1, <1>10, TaskEffect DEF Effect
  <2>2. Created(w, Task(run[w].claim), "finish") /\ "finish" \in Steps /\ "finish" \in Working
    BY <1>0, <1>10, AdvanceSteps DEF Steps, Working
  <2>3. /\ run' \in [Actors -> Run]
        /\ \A v \in Actors : v # w => run'[v] = run[v]
        /\ run'[w].pc = "finish" /\ run'[w].claim = run[w].claim
        /\ run'[w].created = run[w].created \cup {Task(run[w].claim)}
        /\ run'[w].todo = run[w].todo
    BY <1>2, <1>3, <2>2, CreatedFields
  <2>4. OnPath(w)'
    BY <1>0, <2>1, <2>3 DEF OnPath, Notion
  <2>5. Progress(w)'
    BY <1>0, <1>2, <1>10, <2>1, <2>3 DEF Progress, Working
  <2> QED
    BY <1>0, <1>1, <1>3, <2>1, <2>2, <2>3, <2>4, <2>5, Proceeds
<1>11. CASE run[w].pc = "stage"
  <2>1. /\ Kept /\ UNCHANGED <<rows, atts, announced>> /\ source = "native"
        /\ job'.refs = job.refs \cup {Key(run[w].claim)} /\ job'.parked = job.parked
        /\ journal' = journal \cup {run[w].claim}
    BY <1>0, <1>1, <1>11, StageEffect DEF Effect
  <2>2. Goto(w, "put") /\ "put" \in Steps /\ "put" \in Working
    BY <1>0, <1>11, AdvanceSteps DEF Steps, Working
  <2>3. /\ run' \in [Actors -> Run]
        /\ \A v \in Actors : v # w => run'[v] = run[v]
        /\ run'[w].pc = "put" /\ run'[w].claim = run[w].claim
        /\ run'[w].created = run[w].created /\ run'[w].todo = run[w].todo
    BY <1>2, <2>2, GotoFields
  <2>4. OnPath(w)'
    BY <1>0, <1>2, <2>1, <2>3 DEF OnPath, Native
  <2>5. Progress(w)'
    BY <1>0, <1>2, <1>11, <2>1, <2>3 DEF Progress, Working
  <2> QED
    BY <1>0, <1>1, <1>3, <2>1, <2>2, <2>3, <2>4, <2>5, Proceeds
<1> QED
  BY <1>0, <1>4, <1>5, <1>6, <1>7, <1>8, <1>9, <1>10, <1>11 DEF Effect

-----------------------------------------------------------------------------
(* Quiet steps of a runner.                                                *)

\* A quiet step of one runner.
LEMMA QuietRunner ==
    ASSUME IInv, TypeOK', NEW w \in Runners, QuietDb(w), job.live => job'.live,
           \A v \in Actors : v # w => run'[v] = run[v],
           writer' \in {writer, None}, writer' # w,
           RunSane(w)',
           Busy(w)' => Busy(w) /\ run'[w].claim = run[w].claim,
           Busy(w)' /\ Owns(w)' => Progress(w)'
    PROVE  IInv'
<1>1. \A v \in Runners : v # w => run'[v] = run[v]
  BY DEF Actors
<1>2. SweepSane'
  <2>1. run'[Sweeper] = run[Sweeper]
    BY ImportAssumption DEF Actors
  <2>2. writer' # None => run'[writer'] = run[writer]
    BY DEF IInv, TypeOK
  <2> QED
    BY <2>1, <2>2 DEF IInv, SweepSane, QuietDb, SameRow, Postgres
<1> QED
  BY <1>1, <1>2, QuietStep

\* A step that leaves the database alone.
LEMMA NoWrite ==
    ASSUME IInv, NEW x, UNCHANGED <<setting, db, objects, stalls>>
    PROVE  QuietDb(x) /\ (job.live => job'.live)
BY DEF setting, db, QuietDb, SameRow, IInv, EventsAreTrue

\* The run goes on after a quiet step.
LEMMA QuietGoesOn ==
    ASSUME IInv, NEW w \in Runners, Busy(w), QuietDb(w), job.live => job'.live,
           run'[w].pc \notin {"idle", "stopped", "prepare"},
           run'[w].claim = run[w].claim,
           run'[w].created \subseteq Of(run[w].claim),
           run'[w].todo \subseteq UpTo(run[w].claim),
           OnPath(w)', run'[w].pc = "undo" => Postgres \/ ~run'[w].failed
    PROVE  RunSane(w)'
<1>1. RunSane(w) /\ (stalls = 0 => Owns(w) /\ job.live)
  BY OneOwner DEF IInv
<1> QED
  BY <1>1 DEF RunSane, QuietDb, SameRow, Owns, Won, Busy, Postgres

\* A busy run has a place, a claim, and its work.
LEMMA BusyFacts ==
    ASSUME IInv, NEW w \in Runners, Busy(w)
    PROVE  /\ run \in [Actors -> Run] /\ w \in Actors
           /\ source \in {"office", "notion", "native"}
           /\ run[w].claim \in Attempts /\ OnPath(w)
           /\ run[w].created \subseteq Of(run[w].claim)
           /\ run[w].todo \subseteq UpTo(run[w].claim)
           /\ Of(run[w].claim) \subseteq UpTo(run[w].claim)
           /\ Owns(w) => Progress(w)
           /\ writer = w => run[w].pc = "undo"
<1>1. /\ run \in [Actors -> Run] /\ w \in Actors
      /\ source \in {"office", "notion", "native"}
      /\ run[w].claim \in Attempts /\ OnPath(w)
      /\ run[w].created \subseteq Of(run[w].claim)
      /\ run[w].todo \subseteq UpTo(run[w].claim)
      /\ Owns(w) => Progress(w)
  BY OneOwner, ImportAssumption DEF IInv, TypeOK, RunSane, Actors
<1>2. Of(run[w].claim) \subseteq UpTo(run[w].claim)
  BY <1>1, RefFacts, ImportAssumption DEF Of, UpTo, Attempts
<1>3. writer = w => run[w].pc = "undo"
  BY ImportAssumption DEF IInv, SweepSane
<1> QED
  BY <1>1, <1>2, <1>3

\* The run ends with a quiet step.
LEMMA QuietLeave ==
    ASSUME IInv, TypeOK', NEW w \in Runners, QuietDb(w), job.live => job'.live,
           Leave(w) \/ Stop(w), writer' \in {writer, None}, writer' # w
    PROVE  IInv'
<1>1. run \in [Actors -> Run] /\ w \in Actors
  BY DEF IInv, TypeOK, Actors
<1>2. /\ \A v \in Actors : v # w => run'[v] = run[v]
      /\ run'[w].pc \in {"idle", "stopped"}
      /\ run'[w].pc = "idle" => run'[w] = Idle
  BY <1>1, LeaveFields
<1>3. RunSane(w)' /\ ~Busy(w)'
  BY <1>2 DEF RunSane, Busy
<1> QED
  BY <1>2, <1>3, QuietRunner

\* The run gives up with a quiet step.
LEMMA QuietGiveUp ==
    ASSUME IInv, TypeOK', NEW w \in Runners, Busy(w), QuietDb(w), job.live => job'.live,
           NEW e \in {"transient", "failed"}, GiveUp(w, e),
           writer' = writer, writer # w,
           e = "transient" /\ Owns(w) =>
               rows' \subseteq run[w].created /\ (stalls' = 0 => objects' = {})
    PROVE  IInv'
<1>1. /\ run \in [Actors -> Run] /\ w \in Actors
      /\ source \in {"office", "notion", "native"}
      /\ OnPath(w) /\ run[w].created \subseteq Of(run[w].claim)
      /\ Of(run[w].claim) \subseteq UpTo(run[w].claim)
  BY BusyFacts
<1>2. /\ \A v \in Actors : v # w => run'[v] = run[v]
      /\ run'[w].pc = IF source = "native" THEN "fail" ELSE "undo"
      /\ run'[w].claim = run[w].claim
      /\ run'[w].created = run[w].created /\ run'[w].todo = run[w].created
      /\ run'[w].failed = FALSE /\ run'[w].err = e
  BY <1>1, GiveUpFields
<1>3. source' = source
  BY DEF QuietDb
<1>4. OnPath(w)'
  BY <1>1, <1>2, <1>3 DEF OnPath, Office, Notion, Native, Undoing
<1>5. RunSane(w)'
  BY <1>1, <1>2, <1>4, QuietGoesOn
<1>6. Owns(w)' => Owns(w)
  BY <1>2 DEF QuietDb, SameRow, Owns
<1>7. Owns(w)' => Progress(w)'
  BY <1>2, <1>3, <1>6 DEF Progress, Working
<1> QED
  BY <1>2, <1>5, <1>7, QuietRunner

\* load_import_payload.
LEMMA LoadOK == ASSUME IInv, NEW w \in Runners, Load(w) PROVE IInv'
<1>0. Busy(w) /\ WriterFree /\ run[w].pc = "load" /\ Held(w)
  BY DEF Load, Busy
<1>1. /\ run \in [Actors -> Run] /\ w \in Actors /\ Owns(w)
      /\ source \in {"office", "notion", "native"}
      /\ OnPath(w) /\ run[w].created \subseteq Of(run[w].claim)
      /\ run[w].todo \subseteq UpTo(run[w].claim)
      /\ Progress(w)
  BY <1>0, BusyFacts DEF Held, Owns
<1>2. QuietDb(w) /\ (job.live => job'.live)
  BY NoWrite DEF Load, bounds
<1>3. PICK pc \in {"create", "extend"} :
        Goto(w, pc) /\ pc = (IF source = "notion" THEN "create" ELSE "extend")
  BY DEF Load
<1>4. /\ run' \in [Actors -> Run]
      /\ \A v \in Actors : v # w => run'[v] = run[v]
      /\ run'[w].pc = pc /\ run'[w].claim = run[w].claim
      /\ run'[w].created = run[w].created /\ run'[w].todo = run[w].todo
  <2>1. pc \in Steps
    BY <1>3 DEF Steps
  <2> QED
    BY <1>1, <1>3, <2>1, GotoFields
<1>5. TypeOK'
  BY <1>4 DEF Load, IInv, TypeOK, setting, db, bounds
<1>6. OnPath(w)'
  BY <1>0, <1>1, <1>3, <1>4 DEF OnPath, Office, Notion, Native, Undoing, Load, setting
<1>7. RunSane(w)'
  BY <1>0, <1>1, <1>2, <1>3, <1>4, <1>6, QuietGoesOn
<1>8. Progress(w)'
  BY <1>0, <1>1, <1>3, <1>4 DEF Progress, Working, Load, setting, db, bounds
<1>9. writer' = None /\ w # None
  BY <1>0, ImportAssumption DEF Load, WriterFree
<1> QED
  BY <1>0, <1>2, <1>4, <1>5, <1>7, <1>8, <1>9, QuietRunner

\* A run that is fenced, or whose task was cancelled.
LEMMA FenceOK == ASSUME IInv, NEW w \in Runners, Fence(w) \/ TaskCancelled(w) PROVE IInv'
<1>1. /\ UNCHANGED <<setting, admin, db, objects, writer, bounds>> /\ Leave(w)
      /\ run[w].pc \notin {"idle", "stopped", "undo"}
  BY DEF Fence, TaskCancelled
<1>2. Busy(w) /\ QuietDb(w) /\ (job.live => job'.live)
  BY <1>1, NoWrite DEF bounds, Busy
<1>3. writer' = writer /\ writer # w /\ run' \in [Actors -> Run]
  BY <1>1, <1>2, BusyFacts, LeaveFields
<1>4. TypeOK'
  BY <1>1, <1>3 DEF IInv, TypeOK, setting, db, bounds
<1> QED
  BY <1>1, <1>2, <1>3, <1>4, QuietLeave

\* A step whose statements are refused.
LEMMA RefuseOK == ASSUME IInv, NEW w \in Runners, Refuse(w) PROVE IInv'
<1>1. /\ UNCHANGED <<setting, admin, db, objects, writer, bounds>> /\ GiveUp(w, "failed")
      /\ run[w].pc \notin {"idle", "stopped", "undo"}
  BY DEF Refuse, Authorized
<1>2. Busy(w) /\ QuietDb(w) /\ (job.live => job'.live)
  BY <1>1, NoWrite DEF bounds, Busy
<1>3. writer' = writer /\ writer # w /\ run' \in [Actors -> Run]
  BY <1>1, <1>2, BusyFacts, GiveUpFields
<1>4. TypeOK'
  BY <1>1, <1>3 DEF IInv, TypeOK, setting, db, bounds
<1> QED
  BY <1>1, <1>2, <1>3, <1>4, QuietGiveUp

\* Only a run that knows of everything it created is retried.
LEMMA SeedUnavailableOK == ASSUME IInv, NEW w \in Runners, SeedUnavailable(w) PROVE IInv'
<1>1. /\ UNCHANGED <<setting, admin, db, objects, writer, bounds>> /\ GiveUp(w, "transient")
      /\ run[w].pc \in {"body", "create"} /\ source # "native"
  BY DEF SeedUnavailable
<1>2. Busy(w) /\ QuietDb(w) /\ (job.live => job'.live)
  BY <1>1, NoWrite DEF bounds, Busy
<1>3. writer' = writer /\ writer # w /\ run' \in [Actors -> Run]
  BY <1>1, <1>2, BusyFacts, GiveUpFields
<1>4. TypeOK'
  BY <1>1, <1>3 DEF IInv, TypeOK, setting, db, bounds
<1>5. Owns(w) => rows \subseteq run[w].created /\ (stalls = 0 => objects = {})
  BY <1>1, <1>2, BusyFacts DEF Progress, Working
<1>6. rows' = rows /\ objects' = objects /\ stalls' = stalls
  BY <1>1 DEF db, bounds
<1> QED
  BY <1>1, <1>2, <1>3, <1>4, <1>5, <1>6, QuietGiveUp

\* What a put that fails, or a crash during one, may leave in storage.
LEMMA PutQuiet ==
    ASSUME IInv, NEW x \in Actors, UNCHANGED <<setting, db, stalls>>,
           objects' \in {objects} \cup
              {objects \cup {run[v].claim} : v \in {v \in {x} : run[v].pc = "put"}}
    PROVE  QuietDb(x) /\ objects' \subseteq Attempts /\ (job.live => job'.live)
<1>1. \/ objects' = objects
      \/ objects' = objects \cup {run[x].claim} /\ run[x].pc = "put"
  OBVIOUS
<1>2. run[x].pc = "put" => x \in Runners /\ run[x].claim \in Attempts
  <2>1. run[Sweeper].pc # "put"
    BY DEF IInv, SweepSane
  <2> QED
    BY <2>1, BusyFacts DEF Actors, Busy
<1> QED
  BY <1>1, <1>2 DEF setting, db, QuietDb, SameRow, IInv, EventsAreTrue, TypeOK

\* An item fails; a failed put may have stored the object.
LEMMA ItemFailsOK == ASSUME IInv, NEW w \in Runners, ItemFails(w) PROVE IInv'
<1>1. /\ UNCHANGED <<setting, admin, db, writer, bounds>> /\ GiveUp(w, "failed")
      /\ run[w].pc \notin {"idle", "stopped", "undo"} /\ w \in Actors
  BY DEF ItemFails, Authorized, Actors
<1>2. Busy(w) /\ QuietDb(w) /\ objects' \subseteq Attempts /\ (job.live => job'.live)
  BY <1>1, PutQuiet DEF bounds, Busy, ItemFails
<1>3. writer' = writer /\ writer # w /\ run' \in [Actors -> Run]
  BY <1>1, <1>2, BusyFacts, GiveUpFields
<1>4. TypeOK'
  BY <1>1, <1>2, <1>3 DEF IInv, TypeOK, setting, db, bounds
<1> QED
  BY <1>1, <1>2, <1>3, <1>4, QuietGiveUp

\* put_bytes.
LEMMA PutOK == ASSUME IInv, NEW w \in Runners, Put(w) PROVE IInv'
<1>0. /\ UNCHANGED <<setting, admin, db, writer, bounds>> /\ run[w].pc = "put"
      /\ objects' = objects \cup {run[w].claim} /\ w \in Actors /\ Busy(w)
      /\ source' = source /\ stalls' = stalls
  BY DEF Put, Actors, Busy, setting, bounds
<1>1. /\ run \in [Actors -> Run] /\ source \in {"office", "notion", "native"}
      /\ OnPath(w) /\ run[w].created \subseteq Of(run[w].claim)
      /\ run[w].todo \subseteq UpTo(run[w].claim) /\ run[w].claim \in Attempts
      /\ Owns(w) => Progress(w)
      /\ writer # w
  BY <1>0, BusyFacts
<1>2. QuietDb(w) /\ (job.live => job'.live)
  BY <1>0 DEF setting, db, QuietDb, SameRow, IInv, EventsAreTrue, TypeOK
<1>3. PICK pc \in {"publish", "mark"} :
        Goto(w, pc) /\ pc = (IF source = "native" THEN "publish" ELSE "mark")
  BY DEF Put
<1>4. /\ run' \in [Actors -> Run]
      /\ \A v \in Actors : v # w => run'[v] = run[v]
      /\ run'[w].pc = pc /\ run'[w].claim = run[w].claim
      /\ run'[w].created = run[w].created /\ run'[w].todo = run[w].todo
  <2>1. pc \in Steps
    BY <1>3 DEF Steps
  <2> QED
    BY <1>0, <1>1, <1>3, <2>1, GotoFields
<1>5. TypeOK'
  BY <1>0, <1>1, <1>4 DEF IInv, TypeOK, setting, db, bounds
<1>6. OnPath(w)'
  BY <1>0, <1>1, <1>3, <1>4 DEF OnPath, Office, Notion, Native, Undoing
<1>7. RunSane(w)'
  BY <1>0, <1>1, <1>2, <1>3, <1>4, <1>6, QuietGoesOn
<1>8. Owns(w)' => Progress(w)'
  <2>1. Owns(w)' => Owns(w)
    BY <1>0, <1>4 DEF Owns, db
  <2> QED
    BY <2>1, <1>0, <1>1, <1>3, <1>4 DEF Progress, Working, db
<1> QED
  BY <1>0, <1>1, <1>2, <1>4, <1>5, <1>7, <1>8, QuietRunner

\* A late body is noted or announced only of a document that is there.
LEMMA BodyQuiet ==
    ASSUME IInv, NEW w \in Runners, run[w].pc = "body", BodyRow(w), Permitted(w),
           UNCHANGED <<setting, objects, stalls>>
    PROVE  /\ QuietDb(w) /\ DbType' /\ job'.live = job.live
           /\ rows' = rows /\ atts' = atts /\ journal' = journal
           /\ Busy(w)
<1>0. Busy(w) /\ source' = source /\ backend' = backend
  BY DEF Busy, setting
<1> DEFINE d == Doc(run[w].claim)
<1>1. /\ d \in rows /\ d \in Rows /\ UNCHANGED <<rows, atts, journal>> /\ DbType
      /\ announced \subseteq rows /\ RowSane
      /\ source # "native"
  BY <1>0, BusyFacts DEF Permitted, IInv, TypeOK, BodyRow, DbType, EventsAreTrue, OnPath, Native
<1>2. announced' = IF source = "office" THEN announced \cup {d} ELSE announced
  BY DEF BodyRow, Told
<1>3. job' = IF job.status = "running" THEN Noted(job, {d}) ELSE job
  BY DEF BodyRow
<1> HIDE DEF d
<1>4. /\ job' \in Job /\ SameRow /\ job'.live = job.live
      /\ job.parked \subseteq job'.parked
      /\ job'.parked \subseteq job.parked \cup {d}
      /\ source # "notion" \/ job.status # "running" => job'.parked = job.parked
  <2>1. CASE job.status = "running"
    <3>1. job \in Job /\ {d} \in SUBSET Rows
      BY <1>1 DEF DbType
    <3>2. job' = Noted(job, {d})
      BY <2>1, <1>3
    <3>3. /\ job' \in Job
          /\ job'.status = job.status /\ job'.token = job.token
          /\ job'.live = job.live /\ job'.attempts = job.attempts
          /\ job'.refs = job.refs
          /\ source = "notion" => job'.parked = job.parked \cup {d}
          /\ source # "notion" => job'.parked = job.parked
      BY <3>1, <3>2, NotedFields, Zenon
    <3> QED
      BY <2>1, <3>3 DEF SameRow
  <2>2. CASE job.status # "running"
    BY <2>2, <1>1, <1>3 DEF SameRow, DbType
  <2> QED
    BY <2>1, <2>2
<1>5. DbType'
  BY <1>1, <1>2, <1>4 DEF DbType
<1>6. QuietDb(w)
  BY <1>0, <1>1, <1>2, <1>4 DEF QuietDb
<1> QED
  BY <1>0, <1>1, <1>4, <1>5, <1>6

\* The body is written by a run that may have lost its lease.
LEMMA WriteBody == ASSUME IInv, NEW w \in Runners, Write(w), run[w].pc = "body" PROVE IInv'
<1>0. /\ UNCHANGED <<setting, admin, objects, writer, bounds>> /\ BodyRow(w) /\ Permitted(w)
      /\ source' = source /\ stalls' = stalls /\ Advance(w) /\ WriterFree
      /\ Doc(run[w].claim) \in rows
  BY DEF Write, Effect, Commits, setting, bounds, Permitted
<1>1. /\ QuietDb(w) /\ DbType' /\ job'.live = job.live
      /\ rows' = rows /\ atts' = atts /\ journal' = journal /\ Busy(w)
  BY <1>0, BodyQuiet
<1>2. /\ run \in [Actors -> Run] /\ w \in Actors /\ source \in {"office", "notion", "native"}
      /\ OnPath(w) /\ run[w].created \subseteq Of(run[w].claim)
      /\ run[w].todo \subseteq UpTo(run[w].claim) /\ run[w].claim \in Attempts
      /\ Owns(w) => Progress(w)
      /\ writer # w
  BY <1>1, BusyFacts
<1>3. PICK pc \in {"reserve", "finish"} :
        Goto(w, pc) /\ pc = (IF source = "notion" THEN "reserve" ELSE "finish")
  BY <1>0, AdvanceSteps
<1>4. /\ run' \in [Actors -> Run]
      /\ \A v \in Actors : v # w => run'[v] = run[v]
      /\ run'[w].pc = pc /\ run'[w].claim = run[w].claim
      /\ run'[w].created = run[w].created /\ run'[w].todo = run[w].todo
  <2>1. pc \in Steps
    BY <1>3 DEF Steps
  <2> QED
    BY <1>2, <1>3, <2>1, GotoFields
<1>5. TypeOK'
  BY <1>0, <1>1, <1>4 DEF IInv, TypeOK, setting, bounds, DbType
<1>6. OnPath(w)'
  BY <1>0, <1>2, <1>3, <1>4 DEF OnPath, Office, Notion, Native, Undoing
<1>7. RunSane(w)'
  BY <1>1, <1>2, <1>3, <1>4, <1>6, QuietGoesOn
<1>8. Owns(w)' => Progress(w)'
  <2>1. Owns(w)' => Owns(w)
    BY <1>1, <1>4 DEF Owns, QuietDb, SameRow
  <2>2. Owns(w) => /\ rows \subseteq run[w].created /\ job.parked \subseteq rows
                   /\ source = "notion" => Doc(run[w].claim) \in job.parked
                   /\ source = "office" => Doc(run[w].claim) \in announced
    BY <1>0, <1>2 DEF Progress, Working
  <2>3. job.parked \subseteq job'.parked /\ job'.parked \subseteq job.parked \cup rows
        /\ (Doc(run[w].claim) \in announced => Doc(run[w].claim) \in announced')
    BY <1>0, <1>1 DEF QuietDb
  <2> QED
    BY <2>1, <2>2, <2>3, <1>0, <1>1, <1>2, <1>3, <1>4 DEF Progress, Working
<1> QED
  BY <1>0, <1>1, <1>2, <1>4, <1>5, <1>7, <1>8, QuietRunner

\* A COMMIT without an answer: the transaction is done or not, and the run
\* ends, or undoes what it knows of and then fails the job.
LEMMA UnansweredOK == ASSUME IInv, NEW w \in Runners, Unanswered(w) PROVE IInv'
<1>0. /\ Commits(w) /\ WriterFree /\ writer' = writer /\ writer # w
      /\ UNCHANGED <<setting, admin, objects, stalls>>
      /\ faults' \in 0..MaxFaults
      /\ source' = source /\ objects' = objects /\ stalls' = stalls
      /\ Stop(w) \/ Leave(w) \/ GiveUp(w, "failed")
      /\ GiveUp(w, "failed") \/ Stop(w) \/ Leave(w)
  BY ImportAssumption DEF Unanswered, Commits, WriterFree, setting, IInv, TypeOK
<1>1. run[w].pc \notin {"idle", "stopped"}
  BY DEF Unanswered, Effect
<1>2. Busy(w)
  BY <1>1 DEF Busy
<1>3. run' \in [Actors -> Run]
  BY <1>0, <1>2, BusyFacts, LeaveFields, GiveUpFields
<1>4. CASE UNCHANGED db
  <2>1. QuietDb(w) /\ (job.live => job'.live)
    BY <1>0, <1>4, NoWrite
  <2>2. TypeOK'
    BY <1>0, <1>3, <1>4 DEF IInv, TypeOK, setting, db
  <2> QED
    BY <1>0, <1>2, <2>1, <2>2, QuietLeave, QuietGiveUp
<1>5. CASE Effect(w) /\ run[w].pc = "body"
  <2>1. BodyRow(w) /\ Permitted(w)
    BY <1>0, <1>5 DEF Effect, Commits
  <2>2. QuietDb(w) /\ DbType' /\ job'.live = job.live
    BY <1>0, <1>5, <2>1, BodyQuiet
  <2>3. TypeOK'
    BY <1>0, <1>3, <2>2 DEF IInv, TypeOK, setting, DbType
  <2> QED
    BY <1>0, <1>2, <2>2, <2>3, QuietLeave, QuietGiveUp
<1>6. CASE Effect(w) /\ run[w].pc # "body"
  <2>1. Owns(w) /\ Permitted(w)
    BY <1>0, <1>6 DEF Commits, Held, Owns
  <2>2. /\ DbType' /\ DbInv'
        /\ job'.attempts = job.attempts /\ job'.token \in {job.token, 0}
        /\ run[w].pc \in {"reset", "extend", "create", "reserve", "mark", "task", "stage"}
                => Kept
    BY <1>0, <1>6, <2>1, EffectOK
  <2>3. CASE Stop(w) \/ Leave(w)
    BY <2>3, <1>0, <1>2, <2>1, <2>2, LeavesAfter
  <2>4. CASE ~(Stop(w) \/ Leave(w))
    <3>1. GiveUp(w, "failed")
      BY <1>0, <2>4
    <3>2. run[w].pc \notin {"reserve", "mark", "stage", "publish", "fail", "finish", "settle"}
      BY <2>4 DEF Unanswered
    <3>3. run[w].pc \in {"reset", "extend", "create", "task"}
      BY <1>6, <3>2 DEF Effect
    <3> QED
      BY <1>0, <1>2, <2>1, <2>2, <3>1, <3>3, GivesUpAfter
  <2> QED
    BY <2>3, <2>4
<1> QED
  BY <1>4, <1>5, <1>6 DEF Unanswered

\* A claim is a new attempt: what is left belongs to earlier ones, and no
\* run of those owns the job any more.
LEMMA ClaimStep ==
    ASSUME IInv, NEW w \in Runners, run[w].pc = "idle", WriterFree, Claimable, ClaimRow,
           UNCHANGED <<setting, admin, rows, atts, announced, journal, objects, writer, stalls>>,
           faults' \in 0..MaxFaults,
           run' \in [Actors -> Run], \A v \in Actors : v # w => run'[v] = run[v],
           RunSane(w)',
           Busy(w)' => run'[w].claim = job.attempts + 1 /\ Progress(w)'
    PROVE  IInv'
<1>0. /\ job \in Job /\ job.status = "running" /\ ~job.live
      /\ job.attempts < MaxAttempts /\ RowSane /\ Journaled /\ EventsAreTrue
      /\ source' = source /\ backend' = backend
  BY DEF IInv, TypeOK, Claimable, setting
<1>1. /\ job' \in Job /\ job'.status = "running" /\ job'.token = job.attempts + 1
      /\ job'.live = TRUE /\ job'.attempts = job.attempts + 1
      /\ job'.refs = job.refs /\ job'.parked = job.parked
  <2>1. job.attempts + 1 \in 0..MaxAttempts
    BY <1>0, JobFields, ImportAssumption
  <2>2. job' = [job EXCEPT !.attempts = job.attempts + 1, !.token = job.attempts + 1,
                           !.live = TRUE]
    BY DEF ClaimRow
  <2> QED
    BY <1>0, <2>1, <2>2 DEF Job
<1>2. job.attempts \in Nat
  BY <1>0, JobFields, ImportAssumption
<1>3. TypeOK'
  BY <1>0, <1>1 DEF IInv, TypeOK
<1>4. RowSane'
  <2>1. UpTo(job.attempts) \subseteq UpTo(job'.attempts)
    BY <1>1, <1>2, ImportAssumption, RefFacts DEF UpTo, Attempts
  <2> QED
    BY <1>0, <1>1, <2>1 DEF RowSane, Won, UpTo
<1>5. Journaled' /\ CompletedIsWhole' /\ EventsAreTrue'
  BY <1>0, <1>1 DEF Journaled, CompletedIsWhole, EventsAreTrue
<1>6. ASSUME NEW v \in Runners, v # w
      PROVE  /\ run'[v] = run[v] /\ RunSane(v)'
             /\ Busy(v) => run[v].claim # job.attempts + 1
  <2>1. run'[v] = run[v] /\ RunSane(v)
    BY <1>6 DEF IInv, Actors
  <2>2. Busy(v) => run[v].claim \in Nat /\ run[v].claim >= 1 /\ run[v].claim <= job.attempts
                   /\ stalls # 0
    BY <1>0, OneOwner
  <2> QED
    BY <1>0, <1>1, <1>2, <2>1, <2>2 DEF RunSane, Busy, Won, OnPath, Postgres
<1>7. Distinct'
  BY <1>6 DEF IInv, Distinct, Busy
<1>8. SweepSane'
  <2>1. run'[Sweeper] = run[Sweeper] /\ writer' = None
    BY ImportAssumption DEF Actors, WriterFree
  <2> QED
    BY <1>0, <1>1, <2>1 DEF IInv, SweepSane
<1>9. \A v \in Runners : Busy(v)' /\ Owns(v)' => Progress(v)'
  BY <1>1, <1>6 DEF Busy, Owns
<1> QED
  BY <1>3, <1>4, <1>5, <1>6, <1>7, <1>8, <1>9 DEF IInv

\* A claim whose COMMIT is not answered.
LEMMA ClaimUnansweredOK == ASSUME IInv, NEW w \in Runners, ClaimUnanswered(w) PROVE IInv'
<1>1. /\ run[w].pc = "idle" /\ WriterFree /\ Claimable /\ ClaimRow
      /\ UNCHANGED <<setting, admin, rows, atts, announced, journal, objects, writer, stalls>>
      /\ faults' \in 0..MaxFaults /\ (Leave(w) \/ Stop(w))
  BY ImportAssumption DEF ClaimUnanswered, IInv, TypeOK
<1>2. /\ run' \in [Actors -> Run] /\ \A v \in Actors : v # w => run'[v] = run[v]
      /\ run'[w].pc \in {"idle", "stopped"}
      /\ run'[w].pc = "idle" => run'[w] = Idle
  BY <1>1, LeaveFields DEF IInv, TypeOK, Actors
<1>3. RunSane(w)' /\ ~Busy(w)'
  BY <1>2 DEF RunSane, Busy
<1> QED
  BY <1>1, <1>2, <1>3, ClaimStep

\* A claim, which starts with the leftovers of the attempts before.
LEMMA ClaimOK == ASSUME IInv, NEW w \in Runners, Claim(w) PROVE IInv'
<1> DEFINE undo == source # "native" /\ job.refs # {}
           n == job.attempts + 1
<1>1. /\ run[w].pc = "idle" /\ WriterFree /\ Claimable /\ ClaimRow
      /\ UNCHANGED <<setting, admin, rows, atts, announced, journal, objects, writer, stalls>>
      /\ faults' = faults /\ faults' \in 0..MaxFaults /\ source' = source
  BY DEF Claim, bounds, setting, IInv, TypeOK
<1>2. /\ run \in [Actors -> Run] /\ w \in Actors /\ run[w] = Idle
      /\ job \in Job /\ job.attempts \in Nat /\ job.attempts < MaxAttempts
      /\ RowSane /\ Journaled /\ job.status = "running"
      /\ source \in {"office", "notion", "native"}
  BY <1>1, JobFields, ImportAssumption DEF IInv, TypeOK, Actors, RunSane, Claimable
<1>3. /\ run' \in [Actors -> Run] /\ \A v \in Actors : v # w => run'[v] = run[v]
      /\ run'[w].pc = (IF undo THEN "undo" ELSE "load") /\ run'[w].claim = n
      /\ run'[w].todo = (IF undo THEN job.refs ELSE {})
      /\ run'[w].created = {} /\ run'[w].failed = FALSE /\ run'[w].err = "none"
  <2>1. /\ n \in 0..MaxAttempts /\ job.refs \in SUBSET Refs
        /\ (IF undo THEN "undo" ELSE "load") \in Steps
        /\ (IF undo THEN job.refs ELSE {}) \in SUBSET Refs
    BY <1>2, JobFields, ImportAssumption DEF Steps
  <2>2. run' = [run EXCEPT ![w] = [run[w] EXCEPT
                  !.claim = n, !.pc = IF undo THEN "undo" ELSE "load",
                  !.todo = IF undo THEN job.refs ELSE {}]]
    BY DEF Claim
  <2>3. PICK pc \in Steps, T \in SUBSET Refs :
          pc = (IF undo THEN "undo" ELSE "load") /\ T = (IF undo THEN job.refs ELSE {})
    BY <2>1
  <2>3q. PICK q : q = [run[w] EXCEPT !.claim = n, !.pc = pc, !.todo = T]
    OBVIOUS
  <2>4. run' = [run EXCEPT ![w] = q]
    BY <2>2, <2>3, <2>3q
  <2>5. run[w] \in Run /\ run[w].created = {} /\ run[w].failed = FALSE /\ run[w].err = "none"
    <3>1. Idle.created = {} /\ Idle.failed = FALSE /\ Idle.err = "none"
      BY DEF Idle
    <3> QED
      BY <1>2, <3>1
  <2> HIDE DEF undo, n
  <2>6. /\ q \in Run /\ q.pc = pc /\ q.claim = n /\ q.todo = T
        /\ q.created = {} /\ q.failed = FALSE /\ q.err = "none"
    BY <2>1, <2>3, <2>3q, <2>5 DEF Run
  <2> QED
    BY <1>2, <2>3, <2>4, <2>6
<1>4. /\ job'.status = "running" /\ job'.token = n /\ job'.live = TRUE
      /\ job'.attempts = n /\ job'.refs = job.refs /\ job'.parked = job.parked
  BY <1>1, <1>2 DEF ClaimRow, Job
<1>5. RunSane(w)'
  <2>1. UpTo(job.attempts) \subseteq UpTo(n) /\ n \in 1..n
    BY <1>2, ImportAssumption, RefFacts DEF UpTo, Attempts
  <2>2. run'[w].todo \subseteq UpTo(n)
    BY <1>2, <1>3, <2>1 DEF RowSane
  <2>3. OnPath(w)'
    BY <1>1, <1>2, <1>3 DEF OnPath, Office, Notion, Native, Undoing
  <2> HIDE DEF n
  <2> QED
    BY <1>3, <1>4, <2>1, <2>2, <2>3 DEF RunSane, Busy, Won, Owns
<1>6. Progress(w)'
  <2>1. rows \subseteq job.refs /\ (source = "native" => rows = {})
        /\ job.parked \subseteq job.refs /\ (source # "notion" => job.parked = {})
    BY <1>2 DEF Journaled, RowSane
  <2>2. source # "native" /\ stalls = 0 => \A o \in objects : Key(o) \in job.refs
    BY <1>2 DEF Journaled, RowSane
  <2>3. CASE undo
    <3>1. run'[w].pc = "undo" /\ run'[w].todo = job.refs /\ source # "native"
      BY <1>3, <2>3
    <3> HIDE DEF undo
    <3> QED
      BY <1>1, <2>1, <2>2, <3>1 DEF Progress, Working
  <2>4. CASE ~undo
    <3>1. rows = {} /\ job.parked = {}
      BY <2>1, <2>4
    <3>2. source # "native" /\ stalls = 0 => objects = {}
      BY <2>2, <2>4
    <3>3. run'[w].pc = "load"
      BY <1>3, <2>4
    <3> HIDE DEF undo
    <3> QED
      BY <1>1, <1>4, <3>1, <3>2, <3>3 DEF Progress, Working
  <2> QED
    BY <2>3, <2>4
<1> QED
  BY <1>1, <1>3, <1>5, <1>6, ClaimStep

-----------------------------------------------------------------------------
(* Compensation.                                                           *)

\* What an actor undoes is its own or older, or of a failed job.
LEMMA UndoScope ==
    ASSUME IInv, NEW x \in Actors, run[x].pc = "undo"
    PROVE  /\ \A r \in run[x].todo : MayUndo(x, r[2])
           /\ \A a \in KeysOf(run[x].todo) : MayUndo(x, a)
           /\ run[x].todo \subseteq Refs /\ run[x].failed \in BOOLEAN
           /\ x \in Runners => Busy(x) /\ source # "native"
           /\ x \notin Runners => x = Sweeper /\ job.status = "failed"
<1>1. run[x].todo \subseteq Refs /\ run[x].failed \in BOOLEAN
  BY RunFields DEF IInv, TypeOK
<1>2. x \notin Runners => x = Sweeper /\ job.status = "failed"
  BY DEF Actors, IInv, SweepSane
<1>3. x \in Runners => Busy(x) /\ source # "native" /\ run[x].todo \subseteq UpTo(run[x].claim)
  BY BusyFacts DEF Busy, OnPath, Native
<1>4. ASSUME NEW r \in run[x].todo PROVE MayUndo(x, r[2])
  <2>1. r[2] \in Attempts
    BY <1>1, RefFacts
  <2> QED
    BY <1>2, <1>3, <2>1 DEF MayUndo, UpTo
<1>5. ASSUME NEW a \in KeysOf(run[x].todo) PROVE MayUndo(x, a)
  BY <1>4, RefFacts DEF KeysOf
<1> QED
  BY <1>1, <1>2, <1>3, <1>4, <1>5

\* Rows go with their attachments and the events of their creation.
LEMMA PurgeQuiet ==
    ASSUME IInv, NEW x \in Actors, run[x].pc = "undo", NEW rs \in SUBSET Rows,
           rs \subseteq run[x].todo, Purge(rs),
           UNCHANGED <<setting, job, journal, objects, stalls>>
    PROVE  /\ QuietDb(x) /\ rows' = rows \ rs /\ rows' \subseteq Rows
           /\ atts' \in [Attempts -> {"none", "uploading", "stored"}]
           /\ announced' \subseteq Rows
<1>0. /\ rows \subseteq Rows /\ atts \in [Attempts -> {"none", "uploading", "stored"}]
      /\ announced \subseteq rows /\ source' = source /\ backend' = backend
  BY DEF IInv, TypeOK, EventsAreTrue, setting
<1>1. /\ rows' = rows \ rs /\ announced' = announced \ rs
      /\ atts' = [a \in Attempts |-> IF Doc(a) \in rs THEN "none" ELSE atts[a]]
  BY DEF Purge
<1>2. \A r \in rs : MayUndo(x, r[2])
  BY UndoScope
<1>3. \A a \in Attempts : atts'[a] = atts[a] \/ (atts'[a] = "none" /\ MayUndo(x, a))
  <2> TAKE a \in Attempts
  <2>1. Doc(a)[2] = a
    BY RefFacts
  <2> QED
    BY <1>1, <1>2, <2>1
<1>4. atts' \in [Attempts -> {"none", "uploading", "stored"}]
  BY <1>0, <1>1
<1> QED
  BY <1>0, <1>1, <1>2, <1>3, <1>4 DEF QuietDb, SameRow

\* What follows the compensation of a runner.
LEMMA AfterUndoFields ==
    ASSUME run \in [Actors -> Run], NEW w \in Runners, NEW f \in BOOLEAN, AfterUndo(w, f),
           run[w].pc = "undo"
    PROVE  /\ run' \in [Actors -> Run]
           /\ \A v \in Actors : v # w => run'[v] = run[v]
           /\ run'[w].claim = run[w].claim /\ run'[w].created = run[w].created
           /\ run'[w].todo = {}
           /\ \/ /\ run[w].err # "none" /\ run'[w].pc = "settle"
                 /\ run'[w].failed = f /\ run'[w].err = run[w].err
              \/ /\ run[w].err = "none" /\ f /\ run'[w].pc = "undo"
                 /\ run'[w].failed = FALSE /\ run'[w].err = "incomplete"
              \/ /\ run[w].err = "none" /\ ~f /\ run'[w].pc = "reset"
                 /\ run'[w].failed = run[w].failed /\ run'[w].err = run[w].err
<1>1. w # Sweeper /\ w \in Actors /\ run[w] \in Run
  BY ImportAssumption DEF Actors
<1>2. {"settle", "reset", "undo"} \subseteq Steps
  BY DEF Steps
<1>3. PICK q : /\ run' = [run EXCEPT ![w] = q]
               /\ q = IF run[w].err # "none"
                      THEN [run[w] EXCEPT !.pc = "settle", !.todo = {}, !.failed = f]
                      ELSE IF f
                           THEN [run[w] EXCEPT !.todo = {}, !.failed = FALSE,
                                               !.err = "incomplete"]
                           ELSE [run[w] EXCEPT !.pc = "reset", !.todo = {}]
  BY <1>1 DEF AfterUndo
<1>4. /\ q \in Run /\ q.claim = run[w].claim /\ q.created = run[w].created /\ q.todo = {}
      /\ \/ /\ run[w].err # "none" /\ q.pc = "settle"
            /\ q.failed = f /\ q.err = run[w].err
         \/ /\ run[w].err = "none" /\ f /\ q.pc = "undo"
            /\ q.failed = FALSE /\ q.err = "incomplete"
         \/ /\ run[w].err = "none" /\ ~f /\ q.pc = "reset"
            /\ q.failed = run[w].failed /\ q.err = run[w].err
  <2>1. CASE run[w].err # "none"
    <3>1. q = [run[w] EXCEPT !.pc = "settle", !.todo = {}, !.failed = f]
      BY <1>3, <2>1
    <3> QED
      BY <1>1, <1>2, <2>1, <3>1 DEF Run
  <2>2. CASE run[w].err = "none" /\ f
    <3>1. q = [run[w] EXCEPT !.todo = {}, !.failed = FALSE, !.err = "incomplete"]
      BY <1>3, <2>2
    <3> QED
      BY <1>1, <1>2, <2>2, <3>1 DEF Run
  <2>3. CASE run[w].err = "none" /\ ~f
    <3>1. q = [run[w] EXCEPT !.pc = "reset", !.todo = {}]
      BY <1>3, <2>3
    <3> QED
      BY <1>1, <1>2, <2>3, <3>1 DEF Run
  <2> QED
    BY <2>1, <2>2, <2>3
<1> QED
  BY <1>1, <1>3, <1>4

\* A runner is done with its compensation, completely or not.
LEMMA UndoneOK ==
    ASSUME IInv, TypeOK', NEW w \in Runners, run[w].pc = "undo", QuietDb(w),
           job.live => job'.live, NEW f \in BOOLEAN, AfterUndo(w, f),
           writer' \in {writer, None}, writer' # w,
           ~f /\ Owns(w) /\ run[w].err \in {"none", "transient"} => Clean'
    PROVE  IInv'
<1>0. /\ Busy(w) /\ source # "native" /\ source' = source
  BY UndoScope DEF Actors, QuietDb
<1>1. /\ run \in [Actors -> Run] /\ OnPath(w) /\ source \in {"office", "notion", "native"}
      /\ run[w].created \subseteq Of(run[w].claim)
  BY <1>0, BusyFacts
<1>2. /\ \A v \in Actors : v # w => run'[v] = run[v]
      /\ run'[w].claim = run[w].claim /\ run'[w].created = run[w].created
      /\ run'[w].todo = {}
      /\ run'[w].pc \in {"undo", "reset", "settle"}
      /\ run'[w].pc = "undo" => run'[w].failed = FALSE /\ run'[w].err = "incomplete"
      /\ run'[w].pc = "reset" => ~f /\ run[w].err = "none"
      /\ run'[w].pc = "settle" => run'[w].failed = f /\ run'[w].err = run[w].err
  BY <1>1, AfterUndoFields
<1>3. OnPath(w)'
  BY <1>0, <1>1, <1>2 DEF OnPath, Office, Notion, Undoing
<1>4. RunSane(w)'
  BY <1>0, <1>1, <1>2, <1>3, QuietGoesOn
<1>5. Owns(w)' => Progress(w)'
  <2>1. Owns(w)' => Owns(w)
    BY <1>2 DEF QuietDb, SameRow, Owns
  <2> QED
    BY <2>1, <1>2 DEF Progress, Working, Clean
<1> QED
  BY <1>0, <1>2, <1>4, <1>5, QuietRunner

\* A quiet step of the sweep.
LEMMA QuietSweeper ==
    ASSUME IInv, TypeOK', QuietDb(Sweeper), job.live => job'.live,
           \A v \in Actors : v # Sweeper => run'[v] = run[v], SweepSane'
    PROVE  IInv'
<1>1. Sweeper \notin Runners /\ \A v \in Runners : run'[v] = run[v]
  BY ImportAssumption DEF Actors
<1> QED
  BY <1>1, QuietStep

\* The sweep is done with a job.
LEMMA SweptOK ==
    ASSUME IInv, QuietDb(Sweeper), job.live => job'.live,
           \A v \in Actors : v # Sweeper => run'[v] = run[v], run'[Sweeper] = Idle,
           TypeOK', writer' \in {writer, None}, writer' # Sweeper
    PROVE  IInv'
<1>1. run'[Sweeper].pc = "idle"
  BY DEF Idle
<1>2. writer' # None => writer' \in Actors /\ run'[writer'] = run[writer]
  BY DEF IInv, TypeOK
<1>3. SweepSane'
  BY <1>1, <1>2 DEF IInv, SweepSane, QuietDb, Postgres
<1> QED
  BY <1>3, QuietSweeper

\* The sweep is idle after its compensation.
LEMMA AfterUndoSweeper ==
    ASSUME run \in [Actors -> Run], NEW f, AfterUndo(Sweeper, f)
    PROVE  /\ run' \in [Actors -> Run] /\ run'[Sweeper] = Idle
           /\ \A v \in Actors : v # Sweeper => run'[v] = run[v]
<1>1. Sweeper \in Actors /\ Idle \in Run
  BY ImportAssumption DEF Actors, Idle, Run, Steps
<1>2. run' = [run EXCEPT ![Sweeper] = Idle]
  BY DEF AfterUndo
<1> QED
  BY <1>1, <1>2

\* A changed list of what is left to do.
LEMMA TodoFields ==
    ASSUME run \in [Actors -> Run], NEW x \in Actors, NEW T \in SUBSET Refs,
           NEW f \in BOOLEAN,
           run' = [run EXCEPT ![x] = [run[x] EXCEPT !.todo = T, !.failed = f]]
    PROVE  /\ run' \in [Actors -> Run]
           /\ \A v \in Actors : v # x => run'[v] = run[v]
           /\ run'[x].pc = run[x].pc /\ run'[x].claim = run[x].claim
           /\ run'[x].created = run[x].created /\ run'[x].todo = T
           /\ run'[x].failed = f /\ run'[x].err = run[x].err
<1>1. run[x] \in Run
  OBVIOUS
<1>2. PICK q : q = [run[x] EXCEPT !.todo = T, !.failed = f]
  OBVIOUS
<1>3. /\ q \in Run /\ q.pc = run[x].pc /\ q.claim = run[x].claim
      /\ q.created = run[x].created /\ q.todo = T /\ q.failed = f /\ q.err = run[x].err
  BY <1>1, <1>2 DEF Run
<1> QED
  BY <1>2, <1>3

\* One row after the other is purged, with or without an answer.
LEMMA PurgeStep ==
    ASSUME IInv, TypeOK', NEW x \in Actors, run[x].pc = "undo", Postgres, QuietDb(x),
           job' = job, writer' = writer, NEW T \in SUBSET Refs, NEW f \in BOOLEAN,
           run' = [run EXCEPT ![x] = [run[x] EXCEPT !.todo = T, !.failed = f]],
           x \in Runners => T \subseteq UpTo(run[x].claim),
           x \in Runners /\ ~f /\ ~run[x].failed /\ rows \subseteq run[x].todo =>
               rows' \subseteq T,
           ~f => ~run[x].failed,
           ~f => objects' = objects /\ stalls' = stalls
                 /\ \A o : Key(o) \in run[x].todo => Key(o) \in T
    PROVE  IInv'
<1>0. run \in [Actors -> Run] /\ source' = source /\ backend' = backend
      /\ writer = None
  BY DEF IInv, TypeOK, QuietDb, SweepSane
<1>1. /\ \A v \in Actors : v # x => run'[v] = run[v]
      /\ run'[x].pc = "undo" /\ run'[x].claim = run[x].claim
      /\ run'[x].created = run[x].created /\ run'[x].todo = T
      /\ run'[x].failed = f /\ run'[x].err = run[x].err
  BY <1>0, TodoFields
<1>2. CASE x \notin Runners
  <2>1. x = Sweeper /\ job.status = "failed"
    BY <1>2, UndoScope
  <2>2. SweepSane'
    BY <1>0, <1>1, <2>1 DEF SweepSane
  <2> QED
    BY <1>1, <2>1, <2>2, QuietSweeper
<1>3. CASE x \in Runners
  <2>1. Busy(x) /\ OnPath(x) /\ run[x].created \subseteq Of(run[x].claim)
        /\ (Owns(x) => Progress(x))
    BY <1>3, UndoScope, BusyFacts
  <2>2. OnPath(x)'
    BY <1>0, <1>1, <2>1 DEF OnPath
  <2>3. RunSane(x)'
    BY <1>1, <1>3, <2>1, <2>2, QuietGoesOn
  <2>4. Owns(x)' => Progress(x)'
    <3>1. Owns(x)' => Owns(x)
      BY <1>1 DEF Owns
    <3>2. Owns(x) /\ run[x].err \in {"none", "transient"} /\ ~f =>
              /\ rows \subseteq run[x].todo
              /\ stalls = 0 => \A o \in objects : Key(o) \in run[x].todo
      BY <2>1 DEF Progress
    <3> QED
      BY <1>1, <1>3, <3>1, <3>2 DEF Progress, Working
  <2>5. writer' # x
    BY <1>0, ImportAssumption DEF Actors
  <2> QED
    BY <1>1, <1>3, <2>1, <2>3, <2>4, <2>5, QuietRunner
<1> QED
  BY <1>2, <1>3

\* One row is purged; its attachment's key is kept in mind.
LEMMA UndoRowOK == ASSUME IInv, NEW x \in Actors, UndoRow(x) PROVE IInv'
<1>0. /\ Postgres /\ run[x].pc = "undo"
      /\ UNCHANGED <<setting, admin, job, journal, objects, writer, bounds>>
      /\ stalls' = stalls
  BY DEF UndoRow, bounds
<1>1. PICK r \in NextRow(x) :
        /\ Purge({r})
        /\ run' = [run EXCEPT ![x].todo = (@ \ {r}) \cup {Key(a) : a \in KeysOf({r})}]
  BY DEF UndoRow
<1> DEFINE T == (run[x].todo \ {r}) \cup {Key(a) : a \in KeysOf({r})}
<1>2. r \in run[x].todo /\ r \in Rows
  BY <1>1 DEF NextRow
<1>3. /\ run[x].todo \subseteq Refs /\ run[x].failed \in BOOLEAN /\ run \in [Actors -> Run]
  BY <1>0, UndoScope DEF IInv, TypeOK
<1>4. \A a \in KeysOf({r}) : a \in Attempts /\ a = r[2] /\ Key(a) \in Refs /\ Key(a)[2] = a
  BY <1>2, RefFacts DEF KeysOf
<1>5. T \in SUBSET Refs
  BY <1>3, <1>4
<1>6. x \in Runners => T \subseteq UpTo(run[x].claim)
  <2>1. x \in Runners => run[x].todo \subseteq UpTo(run[x].claim)
    BY <1>0, UndoScope, BusyFacts
  <2>2. r[2] <= run[x].claim => \A a \in KeysOf({r}) : Key(a) \in UpTo(run[x].claim)
    BY <1>4 DEF UpTo
  <2> QED
    BY <1>2, <2>1, <2>2 DEF UpTo
<1>7. run' = [run EXCEPT ![x] = [run[x] EXCEPT !.todo = T, !.failed = run[x].failed]]
  <2>1. run[x] \in Run
    BY <1>3
  <2>2. [run[x] EXCEPT !.todo = T] = [run[x] EXCEPT !.todo = T, !.failed = run[x].failed]
    BY <2>1 DEF Run
  <2> QED
    BY <1>1, <2>2
<1>8. /\ QuietDb(x) /\ rows' = rows \ {r} /\ rows' \subseteq Rows
      /\ atts' \in [Attempts -> {"none", "uploading", "stored"}]
      /\ announced' \subseteq Rows
  BY <1>0, <1>1, <1>2, PurgeQuiet
<1>9. \A o : Key(o) \in run[x].todo => Key(o) \in T
  BY <1>2, RefFacts
<1>10. rows \subseteq run[x].todo => rows' \subseteq T
  BY <1>8
<1> HIDE DEF T
<1>11. TypeOK'
  <2>1. run' \in [Actors -> Run]
    BY <1>3, <1>5, <1>7, TodoFields
  <2> QED
    BY <1>0, <1>8, <2>1 DEF IInv, TypeOK, setting, bounds
<1> QED
  BY <1>0, <1>3, <1>5, <1>6, <1>7, <1>8, <1>9, <1>10, <1>11, PurgeStep

\* A purge fails or is not answered.
LEMMA UndoRowFailsOK == ASSUME IInv, NEW x \in Actors, UndoRowFails(x) PROVE IInv'
<1>0. /\ Postgres /\ run[x].pc = "undo"
      /\ UNCHANGED <<setting, admin, job, journal, objects, writer, stalls>>
      /\ faults' \in 0..MaxFaults
  BY ImportAssumption DEF UndoRowFails, IInv, TypeOK
<1>1. PICK r \in NextRow(x) :
        /\ Purge({r}) \/ UNCHANGED <<rows, atts, announced>>
        /\ run' = [run EXCEPT ![x].todo = @ \ {r}, ![x].failed = TRUE]
  BY DEF UndoRowFails
<1> DEFINE T == run[x].todo \ {r}
<1>2. r \in run[x].todo /\ r \in Rows
  BY <1>1 DEF NextRow
<1>3. /\ run[x].todo \subseteq Refs /\ run \in [Actors -> Run]
  BY <1>0, UndoScope DEF IInv, TypeOK
<1>4. T \in SUBSET Refs
  BY <1>3
<1>5. x \in Runners => T \subseteq UpTo(run[x].claim)
  BY <1>0, UndoScope, BusyFacts
<1>6. run' = [run EXCEPT ![x] = [run[x] EXCEPT !.todo = T, !.failed = TRUE]]
  BY <1>1
<1>7. /\ QuietDb(x) /\ rows' \subseteq Rows
      /\ atts' \in [Attempts -> {"none", "uploading", "stored"}]
      /\ announced' \subseteq Rows
  <2>1. CASE Purge({r})
    BY <2>1, <1>0, <1>2, PurgeQuiet
  <2>2. CASE UNCHANGED <<rows, atts, announced>>
    <3>1. QuietDb(x)
      BY <1>0, <2>2, NoWrite DEF db
    <3> QED
      BY <2>2, <3>1 DEF IInv, TypeOK
  <2> QED
    BY <1>1, <2>1, <2>2
<1> HIDE DEF T
<1>8. TypeOK'
  <2>1. run' \in [Actors -> Run]
    BY <1>3, <1>4, <1>6, TodoFields
  <2> QED
    BY <1>0, <1>7, <2>1 DEF IInv, TypeOK, setting
<1> QED
  BY <1>0, <1>4, <1>5, <1>6, <1>7, <1>8, PurgeStep

\* Keys are purged after the rows; what stays makes the undo incomplete.
LEMMA UndoKeysOK == ASSUME IInv, NEW x \in Actors, UndoKeys(x) PROVE IInv'
<1>0. /\ Postgres /\ run[x].pc = "undo" /\ NextRow(x) = {}
      /\ UNCHANGED <<setting, admin, db, writer, stalls>>
  BY DEF UndoKeys
<1>1. PICK kept \in SUBSET KeysOf(run[x].todo) :
        /\ kept # {} => run[x].failed \/ faults < MaxFaults
        /\ objects' = objects \ (KeysOf(run[x].todo) \ kept)
        /\ faults' = IF kept = {} \/ run[x].failed THEN faults ELSE faults + 1
        /\ AfterUndo(x, run[x].failed \/ kept # {})
  BY DEF UndoKeys
<1>2. PICK f \in BOOLEAN : f = (run[x].failed \/ kept # {})
  OBVIOUS
<1>3. AfterUndo(x, f)
  BY <1>1, <1>2
<1>4. run \in [Actors -> Run] /\ faults' \in 0..MaxFaults /\ objects' \subseteq Attempts
      /\ rows \subseteq Rows /\ objects \subseteq Attempts
      /\ writer = None
  BY <1>0, <1>1, ImportAssumption DEF IInv, TypeOK, SweepSane
<1>5. QuietDb(x) /\ (job.live => job'.live)
  <2>1. \A a \in objects \ objects' : MayUndo(x, a)
    BY <1>0, <1>1, UndoScope
  <2> QED
    BY <1>0, <1>1, <2>1 DEF setting, db, QuietDb, SameRow, IInv, EventsAreTrue
<1>6. run' \in [Actors -> Run]
  BY <1>0, <1>3, <1>4, AfterUndoFields, AfterUndoSweeper DEF Actors
<1>7. TypeOK'
  BY <1>0, <1>4, <1>6 DEF IInv, TypeOK, setting, db
<1>8. CASE x \in Runners
  <2>1. ASSUME ~f, Owns(x), run[x].err \in {"none", "transient"} PROVE Clean'
    <3>1. ~run[x].failed /\ kept = {} /\ Busy(x)
      BY <1>0, <1>2, <1>8, <2>1, UndoScope
    <3>2. /\ rows \subseteq run[x].todo
          /\ stalls = 0 => \A o \in objects : Key(o) \in run[x].todo
      BY <1>0, <1>8, <2>1, <3>1, BusyFacts DEF Progress
    <3>3. rows = {}
      <4>1. run[x].todo \cap Rows = {}
        BY <1>0, RefFacts DEF NextRow
      <4> QED
        BY <1>4, <3>2, <4>1
    <3>4. stalls = 0 => objects' = {}
      BY <1>1, <1>4, <3>1, <3>2 DEF KeysOf
    <3> QED
      BY <1>0, <3>3, <3>4 DEF Clean, db
  <2>2. writer' \in {writer, None} /\ writer' # x
    BY <1>0, <1>4, ImportAssumption DEF Actors
  <2> QED
    BY <1>0, <1>3, <1>5, <1>7, <1>8, <2>1, <2>2, UndoneOK
<1>9. CASE x \notin Runners
  <2>1. x = Sweeper
    BY <1>9 DEF Actors
  <2>2. writer' \in {writer, None} /\ writer' # Sweeper
    BY <1>0, <1>4, ImportAssumption DEF Actors
  <2> QED
    BY <1>3, <1>4, <1>5, <1>7, <2>1, <2>2, AfterUndoSweeper, SweptOK
<1> QED
  BY <1>8, <1>9

\* The end of an undo that failed, of either actor.
LEMMA UndoFailed ==
    ASSUME IInv, NEW x \in Actors, run[x].pc = "undo", AfterUndo(x, TRUE),
           UNCHANGED <<setting, admin, db, objects, stalls>>, faults' \in 0..MaxFaults,
           writer' \in {writer, None}, writer' # x
    PROVE  IInv'
<1>0. run \in [Actors -> Run]
  BY DEF IInv, TypeOK
<1>1. QuietDb(x) /\ (job.live => job'.live)
  BY NoWrite
<1>2. run' \in [Actors -> Run]
  BY <1>0, AfterUndoFields, AfterUndoSweeper DEF Actors
<1>3. TypeOK'
  BY <1>2 DEF IInv, TypeOK, setting, db
<1>4. CASE x \in Runners
  BY <1>1, <1>3, <1>4, UndoneOK
<1>5. CASE x = Sweeper
  BY <1>0, <1>1, <1>3, <1>5, AfterUndoSweeper, SweptOK
<1> QED
  BY <1>4, <1>5 DEF Actors

\* The family's writer is taken before the objects are purged.
LEMMA UndoBeginOK == ASSUME IInv, NEW x \in Actors, UndoBegin(x) PROVE IInv'
<1>0. /\ ~Postgres /\ run[x].pc = "undo" /\ writer = None
      /\ UNCHANGED <<setting, admin, db, bounds>> /\ stalls' = stalls
      /\ faults' \in 0..MaxFaults
  BY DEF UndoBegin, WriterFree, bounds, IInv, TypeOK
<1>1. CASE OwnsCleanup(x)
  <2>1. objects' = objects \ KeysOf(run[x].todo) /\ writer' = x /\ run' = run
    BY <1>1 DEF UndoBegin
  <2>2. QuietDb(x) /\ (job.live => job'.live)
    <3>1. \A a \in objects \ objects' : MayUndo(x, a)
      BY <1>0, <2>1, UndoScope
    <3> QED
      BY <1>0, <2>1, <3>1 DEF setting, db, QuietDb, SameRow, IInv, EventsAreTrue
  <2>3. TypeOK'
    BY <1>0, <2>1 DEF IInv, TypeOK, setting, db, bounds
  <2>4. SweepSane'
    BY <1>0, <2>1, ImportAssumption DEF IInv, SweepSane, setting, db, Postgres, Actors
  <2>5. x \in Runners => /\ RunSane(x)'
                         /\ Busy(x)' => Busy(x) /\ run'[x].claim = run[x].claim
                         /\ Busy(x)' /\ Owns(x)' => Progress(x)'
    <3> HAVE x \in Runners
    <3>1. RunSane(x)'
      BY <1>0, <2>1 DEF IInv, RunSane, Busy, Won, Owns, OnPath, Postgres, setting, db
    <3>2. Busy(x) /\ Owns(x) => Progress(x)
      BY DEF IInv
    <3>3. Busy(x)' /\ Owns(x)' => Progress(x)'
      BY <1>0, <2>1, <3>2 DEF Progress, Busy, Owns, setting, db, Working
    <3> QED
      BY <2>1, <3>1, <3>3 DEF Busy
  <2> QED
    BY <2>1, <2>2, <2>3, <2>4, <2>5, QuietStep
<1>2. CASE ~OwnsCleanup(x)
  <2>1. AfterUndo(x, TRUE) /\ UNCHANGED <<objects, writer>>
    BY <1>2 DEF UndoBegin
  <2>2. writer' # x
    BY <1>0, <2>1, ImportAssumption DEF Actors
  <2> QED
    BY <1>0, <2>1, <2>2, UndoFailed
<1> QED
  BY <1>1, <1>2

\* A runner's commit: everything the run knows of is gone.
LEMMA RunnerUndone ==
    ASSUME IInv, NEW w \in Runners, run[w].pc = "undo", ~Postgres, UndoCommits(w),
           UNCHANGED <<setting, objects, stalls>>
    PROVE  /\ QuietDb(w) /\ (job.live => job'.live) /\ DbType'
           /\ Owns(w) /\ run[w].err \in {"none", "transient"} => Clean'
<1>0. w \in Actors /\ w # Sweeper
  BY ImportAssumption DEF Actors
<1>1. /\ job' = job /\ journal' = journal /\ Held(w) /\ run[w].todo \subseteq job.refs
      /\ KeysOf(run[w].todo) \cap objects = {}
      /\ Purge(run[w].todo \cap Rows)
  BY <1>0 DEF UndoCommits, OwnsCleanup
<1>2. /\ QuietDb(w) /\ rows' = rows \ (run[w].todo \cap Rows) /\ rows' \subseteq Rows
      /\ atts' \in [Attempts -> {"none", "uploading", "stored"}]
      /\ announced' \subseteq Rows
  BY <1>0, <1>1, PurgeQuiet
<1>3. DbType'
  BY <1>1, <1>2 DEF IInv, TypeOK, DbType
<1>4. ASSUME Owns(w), run[w].err \in {"none", "transient"} PROVE Clean'
  <2>1. ~run[w].failed /\ Progress(w)
    BY <1>0, <1>4, UndoScope DEF IInv, RunSane
  <2>2. /\ rows \subseteq run[w].todo /\ rows \subseteq Rows
        /\ stalls = 0 => \A o \in objects : Key(o) \in run[w].todo
    BY <1>4, <2>1 DEF Progress, IInv, TypeOK
  <2>3. rows' = {}
    BY <1>2, <2>2
  <2>4. stalls = 0 => objects = {}
    BY <1>1, <2>2 DEF KeysOf, IInv, TypeOK
  <2> QED
    BY <2>3, <2>4 DEF Clean
<1> QED
  BY <1>1, <1>2, <1>3, <1>4

\* The sweep's commit: the failed job is empty and its references are gone.
LEMMA SweeperUndone ==
    ASSUME IInv, run[Sweeper].pc = "undo", writer = Sweeper, writer' = None,
           UndoCommits(Sweeper), AfterUndo(Sweeper, FALSE),
           UNCHANGED <<setting, admin, objects, bounds>>
    PROVE  IInv'
<1>0. /\ job \in Job /\ job.status = "failed" /\ job.token = 0 /\ job.parked = {}
      /\ rows \subseteq Rows /\ objects \subseteq Attempts
      /\ atts \in [Attempts -> {"none", "uploading", "stored"}]
      /\ RowSane /\ Journaled /\ EventsAreTrue /\ run[Sweeper].todo = job.refs
      /\ source' = source /\ backend' = backend /\ stalls' = stalls
      /\ Sweeper \in Actors /\ Sweeper \notin Runners
      /\ run \in [Actors -> Run]
  BY ImportAssumption DEF IInv, TypeOK, SweepSane, RowSane, UndoCommits, OwnsCleanup, setting,
     bounds, Actors
<1>1. /\ job' \in Job /\ job'.status = "failed" /\ job'.token = 0 /\ job'.parked = {}
      /\ job'.attempts = job.attempts /\ job'.refs = {} /\ journal' = journal
      /\ job'.live = job.live
  <2>1. job' = [job EXCEPT !.refs = {}] /\ journal' = journal
    BY DEF UndoCommits
  <2> QED
    BY <1>0, <2>1 DEF Job
<1>2. /\ rows' = rows \ (job.refs \cap Rows) /\ announced' = announced \ (job.refs \cap Rows)
      /\ atts' = [a \in Attempts |-> IF Doc(a) \in job.refs \cap Rows THEN "none" ELSE atts[a]]
      /\ KeysOf(job.refs) \cap objects = {}
  BY <1>0 DEF UndoCommits, Purge
<1>3. rows \subseteq job.refs
  BY <1>0 DEF Journaled
<1>4. rows' = {} /\ announced' = {}
  BY <1>0, <1>2, <1>3 DEF EventsAreTrue
<1>5. \A a \in objects : Key(a) \notin job.refs
  BY <1>0, <1>2 DEF KeysOf
<1>6. /\ run' \in [Actors -> Run] /\ run'[Sweeper] = Idle
      /\ \A v \in Runners : run'[v] = run[v]
  BY <1>0, AfterUndoSweeper DEF Actors
<1>7. TypeOK'
  <2>1. atts' \in [Attempts -> {"none", "uploading", "stored"}]
    BY <1>0, <1>2
  <2> QED
    BY <1>0, <1>1, <1>4, <1>6, <2>1 DEF IInv, TypeOK, setting, bounds
<1>8. RowSane'
  BY <1>0, <1>1, <1>2, <1>4 DEF RowSane, Won, UpTo
<1>9. Journaled' /\ CompletedIsWhole' /\ EventsAreTrue'
  <2>1. stalls = 0 => \A a \in objects : a \in journal
    BY <1>0, <1>5 DEF Journaled
  <2> QED
    BY <2>1, <1>0, <1>1, <1>4 DEF Journaled, CompletedIsWhole, EventsAreTrue
<1>10. ASSUME NEW v \in Runners PROVE RunSane(v)' /\ ~Owns(v)'
  <2>1. RunSane(v) /\ run'[v] = run[v]
    BY <1>6 DEF IInv
  <2> QED
    BY <1>0, <1>1, <2>1 DEF RunSane, Busy, Owns, Won, OnPath, Postgres
<1>11. Distinct'
  BY <1>6 DEF IInv, Distinct, Busy
<1>12. SweepSane'
  BY <1>6 DEF SweepSane, Idle
<1> QED
  BY <1>7, <1>8, <1>9, <1>10, <1>11, <1>12 DEF IInv

\* The family's transaction of the compensation.
LEMMA UndoEndOK == ASSUME IInv, NEW x \in Actors, UndoEnd(x) PROVE IInv'
<1>0. /\ writer = x /\ writer' = None /\ run[x].pc = "undo" /\ ~Postgres /\ x # None
      /\ UNCHANGED <<setting, admin, objects, bounds>>
      /\ stalls' = stalls /\ faults' = faults /\ faults' \in 0..MaxFaults
  BY ImportAssumption DEF UndoEnd, IInv, TypeOK, SweepSane, Actors, bounds
<1>1. CASE UndoCommits(x) /\ AfterUndo(x, FALSE)
  <2>1. CASE x = Sweeper
    BY <1>0, <1>1, <2>1, SweeperUndone
  <2>2. CASE x \in Runners
    <3>1. /\ QuietDb(x) /\ (job.live => job'.live) /\ DbType'
          /\ Owns(x) /\ run[x].err \in {"none", "transient"} => Clean'
      BY <1>0, <1>1, <2>2, RunnerUndone
    <3>2. run' \in [Actors -> Run]
      BY <1>0, <1>1, <2>2, AfterUndoFields DEF IInv, TypeOK
    <3>3. TypeOK'
      BY <1>0, <3>1, <3>2 DEF IInv, TypeOK, DbType, setting
    <3> QED
      BY <1>0, <1>1, <2>2, <3>1, <3>3, UndoneOK
  <2> QED
    BY <2>1, <2>2 DEF Actors
<1>2. CASE AfterUndo(x, TRUE) /\ UNCHANGED db
  BY <1>0, <1>2, UndoFailed
<1> QED
  BY <1>1, <1>2 DEF UndoEnd

\* It rolls back, or commits without an answer.
LEMMA UndoEndFailsOK == ASSUME IInv, NEW x \in Actors, UndoEndFails(x) PROVE IInv'
<1>0. /\ writer = x /\ writer' = None /\ run[x].pc = "undo" /\ ~Postgres /\ x # None
      /\ UNCHANGED <<setting, admin, objects, stalls>>
      /\ faults' \in 0..MaxFaults
  BY ImportAssumption DEF UndoEndFails, IInv, TypeOK, SweepSane, Actors
<1>1. CASE AfterUndo(x, TRUE) /\ UNCHANGED db
  BY <1>0, <1>1, UndoFailed
<1>2. CASE x # Sweeper /\ Stop(x) /\ (UndoCommits(x) \/ UNCHANGED db)
  <2>1. x \in Runners
    BY <1>2 DEF Actors
  <2>2. QuietDb(x) /\ (job.live => job'.live) /\ DbType'
    <3>1. CASE UndoCommits(x)
      BY <1>0, <2>1, <3>1, RunnerUndone
    <3>2. CASE UNCHANGED db
      <4>1. DbType'
        BY <3>2 DEF IInv, TypeOK, DbType, db
      <4> QED
        BY <1>0, <3>2, <4>1, NoWrite
    <3> QED
      BY <1>2, <3>1, <3>2
  <2>3. run' \in [Actors -> Run]
    BY <1>2, LeaveFields DEF IInv, TypeOK
  <2>4. TypeOK'
    BY <1>0, <2>2, <2>3 DEF IInv, TypeOK, DbType, setting
  <2> QED
    BY <1>0, <1>2, <2>1, <2>2, <2>4, QuietLeave
<1> QED
  BY <1>1, <1>2 DEF UndoEndFails

-----------------------------------------------------------------------------
(* The sweep, the cleanup journal, time and crashes.                       *)

\* The sweep fails a job: its lease had run out, so without a stall nobody
\* works under it, and afterwards nobody owns it.
LEMMA FailedBySweep ==
    ASSUME IInv, TypeOK', Expired \/ job.status = "failed", job' = Ended("failed"),
           UNCHANGED <<setting, rows, atts, announced, journal, objects, stalls>>,
           \A v \in Actors : v # Sweeper => run'[v] = run[v], SweepSane'
    PROVE  IInv'
<1>0. /\ job \in Job /\ RowSane /\ Journaled /\ EventsAreTrue
      /\ job.status # "completed" /\ source' = source /\ backend' = backend
  BY DEF IInv, TypeOK, Expired, setting
<1>1. /\ job'.status = "failed" /\ job'.token = 0 /\ job'.attempts = job.attempts
      /\ job'.refs = job.refs /\ job'.parked = {}
  BY <1>0, EndedFields, Zenon
<1>2. RowSane'
  BY <1>0, <1>1 DEF RowSane, Won, UpTo
<1>3. Journaled' /\ CompletedIsWhole' /\ EventsAreTrue'
  BY <1>0, <1>1 DEF Journaled, CompletedIsWhole, EventsAreTrue
<1>4. \A v \in Runners : run'[v] = run[v]
  BY ImportAssumption DEF Actors
<1>5. ASSUME NEW v \in Runners PROVE RunSane(v)' /\ ~Owns(v)'
  <2>1. RunSane(v) /\ run'[v] = run[v]
    BY <1>4 DEF IInv
  <2>2. Busy(v) => stalls # 0
    BY OneOwner DEF Owns, Expired
  <2> QED
    BY <1>0, <1>1, <2>1, <2>2 DEF RunSane, Busy, Owns, Won, OnPath, Postgres
<1>6. Distinct'
  BY <1>4 DEF IInv, Distinct, Busy
<1> QED
  BY <1>2, <1>3, <1>5, <1>6 DEF IInv

\* What the sweep does next: only its step and its list change.
LEMMA SweeperFields ==
    ASSUME run \in [Actors -> Run], NEW pc \in Steps, NEW T \in SUBSET Refs,
           run' = [run EXCEPT ![Sweeper].pc = pc, ![Sweeper].todo = T]
    PROVE  /\ run' \in [Actors -> Run] /\ run'[Sweeper].pc = pc
           /\ \A v \in Actors : v # Sweeper => run'[v] = run[v]
<1>1. Sweeper \in Actors /\ run[Sweeper] \in Run
  BY DEF Actors
<1>2. PICK q : q = [run[Sweeper] EXCEPT !.pc = pc, !.todo = T]
  OBVIOUS
<1>3. q \in Run /\ q.pc = pc
  BY <1>1, <1>2 DEF Run
<1>4. run' = [run EXCEPT ![Sweeper] = q]
  BY <1>2
<1> QED
  BY <1>1, <1>3, <1>4

\* claim_expired_import_job.
LEMMA SweepClaimOK == ASSUME IInv, SweepClaim PROVE IInv'
<1>0. /\ Expired /\ job' = Ended("failed") /\ run[Sweeper].pc = "idle" /\ Postgres
      /\ UNCHANGED <<setting, admin, rows, atts, announced, journal, objects, writer>>
      /\ stalls' = stalls /\ faults' = faults
      /\ run' = [run EXCEPT ![Sweeper].pc = "undo", ![Sweeper].todo = job.refs]
  BY DEF SweepClaim, bounds
<1>1. /\ job \in Job /\ job.refs \in SUBSET Refs /\ "undo" \in Steps
      /\ run \in [Actors -> Run]
  BY JobFields DEF IInv, TypeOK, Steps
<1>2. /\ run' \in [Actors -> Run] /\ run'[Sweeper].pc = "undo"
      /\ \A v \in Actors : v # Sweeper => run'[v] = run[v]
  BY <1>0, <1>1, SweeperFields
<1>3. job' \in Job /\ job'.status = "failed"
  BY <1>0, <1>1, EndedFields, Zenon
<1>4. TypeOK'
  BY <1>0, <1>2, <1>3 DEF IInv, TypeOK, setting
<1>5. SweepSane'
  BY <1>0, <1>2, <1>3 DEF IInv, SweepSane
<1> QED
  BY <1>0, <1>2, <1>4, <1>5, FailedBySweep

\* import_cleanup_candidates only looks.
LEMMA SweepPickOK == ASSUME IInv, SweepPick PROVE IInv'
<1>0. /\ writer = None /\ UNCHANGED <<setting, admin, db, objects, writer>>
      /\ stalls' = stalls /\ faults' = faults
      /\ run' = [run EXCEPT ![Sweeper].pc = "prepare", ![Sweeper].todo = job.refs]
  BY DEF SweepPick, bounds, WriterFree
<1>1. /\ job \in Job /\ job.refs \in SUBSET Refs /\ "prepare" \in Steps
      /\ run \in [Actors -> Run]
  BY JobFields DEF IInv, TypeOK, Steps
<1>2. /\ run' \in [Actors -> Run] /\ run'[Sweeper].pc = "prepare"
      /\ \A v \in Actors : v # Sweeper => run'[v] = run[v]
  BY <1>0, <1>1, SweeperFields
<1>3. TypeOK'
  BY <1>0, <1>2 DEF IInv, TypeOK, setting, db
<1>4. SweepSane'
  BY <1>0, <1>2 DEF SweepSane
<1>5. QuietDb(Sweeper) /\ (job.live => job'.live)
  BY <1>0, NoWrite
<1> QED
  BY <1>2, <1>3, <1>4, <1>5, QuietSweeper

\* prepare_import_cleanup fails the job or drops it.
LEMMA SweepPrepareOK == ASSUME IInv, SweepPrepare PROVE IInv'
<1>0. /\ writer = None
      /\ UNCHANGED <<setting, admin, rows, atts, announced, journal, objects, writer>>
      /\ stalls' = stalls /\ faults' = faults
      /\ job \in Job /\ run \in [Actors -> Run] /\ Sweeper \in Actors
  BY DEF SweepPrepare, bounds, WriterFree, IInv, TypeOK, Actors
<1>1. CASE /\ Expired \/ job.status = "failed"
           /\ job' = Ended("failed") /\ Goto(Sweeper, "undo")
  <2>1. "undo" \in Steps
    BY DEF Steps
  <2>2. /\ run' \in [Actors -> Run] /\ run'[Sweeper].pc = "undo"
        /\ \A v \in Actors : v # Sweeper => run'[v] = run[v]
    BY <1>0, <1>1, <2>1, GotoFields
  <2>3. job' \in Job /\ job'.status = "failed"
    BY <1>0, <1>1, EndedFields, Zenon
  <2>4. TypeOK'
    BY <1>0, <2>2, <2>3 DEF IInv, TypeOK, setting
  <2>5. SweepSane'
    BY <1>0, <2>2, <2>3 DEF SweepSane
  <2> QED
    BY <1>0, <1>1, <2>2, <2>4, <2>5, FailedBySweep
<1>2. CASE Leave(Sweeper) /\ UNCHANGED job
  <2>1. Idle \in Run
    BY ImportAssumption DEF Idle, Run, Steps
  <2>2. /\ run' \in [Actors -> Run] /\ run'[Sweeper] = Idle
        /\ \A v \in Actors : v # Sweeper => run'[v] = run[v]
    BY <1>0, <1>2, <2>1 DEF Leave
  <2>3. TypeOK'
    BY <1>0, <1>2, <2>2 DEF IInv, TypeOK, setting
  <2>4. QuietDb(Sweeper) /\ (job.live => job'.live)
    BY <1>0, <1>2, NoWrite DEF db
  <2>5. writer' # Sweeper
    BY <1>0, ImportAssumption
  <2> QED
    BY <1>0, <2>2, <2>3, <2>4, <2>5, SweptOK
<1> QED
  BY <1>1, <1>2 DEF SweepPrepare

\* reclaim_attachment_objects.  Only native runs journal keys; a key that
\* is due is not that of a live lease, so without a stall nobody works for
\* it, and the attachment row of a completed job protects its object.
LEMMA DrainOK == ASSUME IInv, NEW a \in Attempts, Drain(a) PROVE IInv'
<1>0. /\ UNCHANGED <<setting, admin, job, rows, atts, announced, run, writer, bounds>>
      /\ source' = source /\ backend' = backend /\ stalls' = stalls
      /\ a \in journal /\ journal' = journal \ {a} /\ ~(job.token = a /\ job.live)
      /\ objects' = IF atts[a] = "none" THEN objects \ {a} ELSE objects
  BY DEF Drain, setting, bounds
<1>1. RowSane /\ Journaled /\ CompletedIsWhole /\ EventsAreTrue /\ source = "native"
  BY <1>0 DEF IInv, RowSane
<1>2. TypeOK'
  BY <1>0 DEF IInv, TypeOK, setting, bounds
<1>3. a \in objects' => Won(a)
  BY <1>0, <1>1 DEF RowSane
<1>4. stalls = 0 => \A o \in objects' : o \in journal' \/ Won(o)
  BY <1>0, <1>1, <1>3 DEF RowSane
<1>5. RowSane'
  BY <1>0, <1>1, <1>4 DEF RowSane, Won, UpTo
<1>6. Journaled' /\ EventsAreTrue'
  BY <1>0, <1>1, <1>4 DEF Journaled, EventsAreTrue, Won
<1>7. CompletedIsWhole'
  <2>1. job.status = "completed" => \A b : atts[b] = "stored" /\ b \in objects => b \in objects'
    BY <1>0
  <2> QED
    BY <1>0, <1>1, <2>1 DEF CompletedIsWhole
<1>8. ASSUME NEW v \in Runners PROVE RunSane(v)'
  BY <1>0 DEF IInv, RunSane, Busy, Owns, Won, OnPath, Postgres
<1>9. ASSUME NEW v \in Runners, Busy(v)', Owns(v)' PROVE Progress(v)'
  <2>1. Busy(v) /\ Owns(v)
    BY <1>0, <1>9 DEF Busy, Owns
  <2>2. Progress(v) /\ OnPath(v)
    BY <2>1, BusyFacts
  <2>3. run[v].claim = a => stalls # 0
    BY <1>0, <2>1, OneOwner DEF Owns
  <2>4. run[v].pc \in Native
    BY <1>1, <2>2 DEF OnPath
  <2>5. \A o \in objects : o # a => o \in objects'
    BY <1>0
  <2>6. \A o \in journal : o # a => o \in journal'
    BY <1>0
  <2>7. run[v].pc \notin {"reset", "undo", "settle", "task", "finish", "mark"}
    BY <2>4 DEF Native
  <2>8. run[v].claim \in journal' =>
            run[v].claim \in journal /\ run[v].claim # a
    BY <1>0
  <2> QED
    BY <1>0, <1>1, <2>2, <2>3, <2>5, <2>6, <2>7, <2>8 DEF Progress
<1>10. Distinct' /\ SweepSane'
  BY <1>0 DEF IInv, Distinct, SweepSane, Busy, Postgres
<1> QED
  BY <1>2, <1>5, <1>6, <1>7, <1>8, <1>9, <1>10 DEF IInv

\* A step of nobody: the lease or the backoff runs out, or the creator
\* loses the permission.
LEMMA NobodyMoves ==
    ASSUME IInv, TypeOK',
           UNCHANGED <<setting, rows, atts, announced, journal, objects, run, writer>>,
           SameRow, job'.parked = job.parked, stalls' = 0 => stalls = 0,
           stalls' = 0 /\ job.live =>
               job'.live \/ \A v \in Runners : ~(Busy(v) /\ Owns(v))
    PROVE  IInv'
<1>1. QuietDb(None)
  BY DEF setting, QuietDb, SameRow, IInv, EventsAreTrue
<1>2. None \notin Runners
  BY ImportAssumption
<1>3. SweepSane'
  BY DEF IInv, SweepSane, SameRow, setting, Postgres
<1> QED
  BY <1>1, <1>2, <1>3, QuietStep

\* The lease runs out while nobody works under it, or is outlived.
LEMMA ExpireOK == ASSUME IInv, AbandonedExpires \/ Stall PROVE IInv'
<1>0. /\ Expire /\ job \in Job /\ stalls \in 0..MaxStalls
      /\ (~Worked /\ stalls' = stalls) \/ (stalls < MaxStalls /\ stalls' = stalls + 1)
  BY DEF AbandonedExpires, Stall, IInv, TypeOK
<1>1. /\ UNCHANGED <<setting, admin, rows, atts, announced, journal, objects, run, writer,
                     faults>>
      /\ job' = [job EXCEPT !.live = FALSE]
  BY <1>0 DEF Expire
<1>2. job' \in Job /\ SameRow /\ job'.parked = job.parked
  BY <1>0, <1>1 DEF Job, SameRow
<1>3. /\ stalls' \in 0..MaxStalls
      /\ stalls' = 0 => stalls = 0 /\ ~Worked
  BY <1>0, ImportAssumption
<1>4. ~Worked => \A v \in Runners : ~(Busy(v) /\ Owns(v))
  BY DEF Worked, Busy, Owns
<1>5. TypeOK'
  BY <1>1, <1>2, <1>3 DEF IInv, TypeOK, setting
<1> QED
  BY <1>1, <1>2, <1>3, <1>4, <1>5, NobodyMoves

\* The retry backoff is over.
LEMMA BackoffEndsOK == ASSUME IInv, BackoffEnds PROVE IInv'
<1>1. /\ UNCHANGED <<setting, admin, rows, atts, announced, journal, objects, run, writer,
                     bounds>>
      /\ job' = [job EXCEPT !.ready = TRUE] /\ job \in Job /\ stalls' = stalls
  BY DEF BackoffEnds, bounds, IInv, TypeOK
<1>2. job' \in Job /\ SameRow /\ job'.parked = job.parked /\ job'.live = job.live
  BY <1>1 DEF Job, SameRow
<1>3. TypeOK'
  BY <1>1, <1>2 DEF IInv, TypeOK, setting, bounds
<1> QED
  BY <1>1, <1>2, <1>3, NobodyMoves

\* The creator stops being one who may import; a stuttering step.
LEMMA RevokeOK == ASSUME IInv, Revoke \/ UNCHANGED vars PROVE IInv'
<1>1. /\ UNCHANGED <<setting, db, objects, run, writer, bounds>> /\ admin' \in BOOLEAN
      /\ job' = job /\ stalls' = stalls
  BY DEF Revoke, vars, db, bounds, IInv, TypeOK
<1>2. SameRow /\ UNCHANGED <<rows, atts, announced, journal>>
  BY <1>1 DEF SameRow, db
<1>3. TypeOK'
  BY <1>1 DEF IInv, TypeOK, setting, db, bounds
<1> QED
  BY <1>1, <1>2, <1>3, NobodyMoves

\* A server dies; what it knew is gone, its object may be there.
LEMMA CrashOK == ASSUME IInv, NEW x \in Actors, Crash(x) PROVE IInv'
<1>0. /\ Leave(x) /\ writer' = (IF writer = x THEN None ELSE writer)
      /\ UNCHANGED <<setting, admin, db, stalls>>
      /\ objects' \in {objects} \cup
            {objects \cup {run[v].claim} : v \in {v \in {x} : run[v].pc = "put"}}
      /\ faults' \in 0..MaxFaults
  BY ImportAssumption DEF Crash, IInv, TypeOK
<1>1. QuietDb(x) /\ objects' \subseteq Attempts /\ (job.live => job'.live)
  BY <1>0, PutQuiet
<1>2. Idle \in Run /\ run \in [Actors -> Run]
  BY ImportAssumption DEF Idle, Run, Steps, IInv, TypeOK
<1>3. /\ run' \in [Actors -> Run] /\ run'[x] = Idle
      /\ \A v \in Actors : v # x => run'[v] = run[v]
  BY <1>0, <1>2 DEF Leave
<1>4. writer' \in {writer, None} /\ writer' # x
  BY <1>0, ImportAssumption DEF Actors
<1>5. TypeOK'
  BY <1>0, <1>1, <1>3, <1>4 DEF IInv, TypeOK, setting, db
<1>6. CASE x \in Runners
  BY <1>0, <1>1, <1>4, <1>5, <1>6, QuietLeave
<1>7. CASE x = Sweeper
  BY <1>1, <1>3, <1>4, <1>5, <1>7, SweptOK
<1> QED
  BY <1>6, <1>7 DEF Actors

\* create_async_import_job: the row is queued, and nobody has claimed it.
LEMMA SubmitOK == ASSUME IInv, Submit PROVE IInv'
<1>0. /\ UNCHANGED <<setting, admin, rows, atts, announced, journal, objects, run, writer,
                     bounds>>
      /\ job.status = "none" /\ job' = [job EXCEPT !.status = "running"] /\ job \in Job
      /\ source' = source /\ backend' = backend /\ stalls' = stalls
  BY DEF Submit, setting, bounds, IInv, TypeOK
<1>1. /\ job' \in Job /\ job'.status = "running" /\ job'.token = job.token
      /\ job'.attempts = job.attempts /\ job'.refs = job.refs /\ job'.parked = job.parked
      /\ job'.live = job.live
  BY <1>0 DEF Job
<1>2. RowSane /\ Journaled /\ EventsAreTrue /\ job.token = 0
  BY <1>0 DEF IInv, RowSane
<1>3. TypeOK'
  BY <1>0, <1>1 DEF IInv, TypeOK, setting, bounds
<1>4. RowSane'
  BY <1>0, <1>1, <1>2 DEF RowSane, Won, UpTo
<1>5. Journaled' /\ CompletedIsWhole' /\ EventsAreTrue'
  BY <1>0, <1>1, <1>2 DEF Journaled, CompletedIsWhole, EventsAreTrue
<1>6. ASSUME NEW v \in Runners PROVE RunSane(v)' /\ (Busy(v)' => ~Owns(v)')
  <2>1. RunSane(v) /\ run'[v] = run[v]
    BY <1>0 DEF IInv
  <2>2. Busy(v) => stalls # 0 /\ run[v].claim >= 1 /\ run[v].claim \in Nat
    BY <1>0, OneOwner DEF Owns
  <2>3. Busy(v) => run[v].claim # 0
    BY <2>2
  <2> QED
    BY <1>0, <1>1, <1>2, <2>1, <2>2, <2>3 DEF RunSane, Busy, Owns, Won, OnPath, Postgres
<1>7. Distinct' /\ SweepSane'
  BY <1>0, <1>1 DEF IInv, Distinct, SweepSane, Busy, Postgres
<1> QED
  BY <1>3, <1>4, <1>5, <1>6, <1>7 DEF IInv

-----------------------------------------------------------------------------
(* The theorems.                                                           *)

\* A new database: no job, no row, nobody at work.
LEMMA InitOK == ASSUME Init PROVE IInv
<1>1. job \in Job /\ job.status = "none" /\ job.token = 0 /\ job.attempts = 0
      /\ job.refs = {} /\ job.parked = {}
  <2>1. 0 \in 0..MaxAttempts
    BY ImportAssumption
  <2> QED
    BY <2>1 DEF Init, Job
<1>2. Idle \in Run /\ Idle.pc = "idle"
  BY ImportAssumption DEF Idle, Run, Steps
<1>3. run \in [Actors -> Run] /\ \A x \in Actors : run[x] = Idle
  BY <1>2 DEF Init
<1>4. /\ rows = {} /\ objects = {} /\ announced = {} /\ journal = {} /\ writer = None
      /\ faults \in 0..MaxFaults /\ stalls \in 0..MaxStalls
      /\ \A a \in Attempts : atts[a] = "none"
      /\ atts \in [Attempts -> {"none", "uploading", "stored"}]
  BY ImportAssumption DEF Init
<1>5. TypeOK
  BY <1>1, <1>3, <1>4 DEF Init, TypeOK
<1>6. RowSane /\ Journaled /\ CompletedIsWhole /\ EventsAreTrue
  BY <1>1, <1>4 DEF RowSane, Journaled, CompletedIsWhole, EventsAreTrue
<1>7. \A w \in Runners : RunSane(w) /\ ~Busy(w)
  BY <1>2, <1>3 DEF RunSane, Busy, Actors
<1>8. Distinct /\ SweepSane
  BY <1>2, <1>3, <1>4, <1>7 DEF Distinct, SweepSane, Actors
<1> QED
  BY <1>5, <1>6, <1>7, <1>8 DEF IInv

\* Every step of a runner keeps the invariant.
LEMMA RunsOK == ASSUME IInv, NEW w \in Runners, Runs(w) PROVE IInv'
<1>1. CASE Write(w)
  <2>1. CASE run[w].pc = "body"
    BY <1>1, <2>1, WriteBody
  <2>2. CASE run[w].pc # "body"
    BY <1>1, <2>2, WriteOwned
  <2> QED
    BY <2>1, <2>2
<1> QED
  BY <1>1, ClaimOK, LoadOK, FenceOK, RefuseOK, ItemFailsOK, SeedUnavailableOK, PutOK DEF Runs

\* Every step of a compensation keeps it, whoever undoes.
LEMMA UndoesOK == ASSUME IInv, NEW x \in Actors, Undoes(x) PROVE IInv'
BY UndoRowOK, UndoKeysOK, UndoBeginOK, UndoEndOK DEF Undoes

\* Every step keeps the invariant.
LEMMA NextOK == ASSUME IInv, [Next]_vars PROVE IInv'
<1>1. CASE Sweeps
  BY <1>1, SweepClaimOK, SweepPickOK, SweepPrepareOK, UndoesOK DEF Sweeps, Actors
<1>2. ASSUME NEW w \in Runners,
             Runs(w) \/ Undoes(w) \/ Unanswered(w) \/ ClaimUnanswered(w)
      PROVE  IInv'
  BY <1>2, RunsOK, UndoesOK, UnansweredOK, ClaimUnansweredOK DEF Actors
<1>3. ASSUME NEW x \in Actors, UndoRowFails(x) \/ UndoEndFails(x) \/ Crash(x)
      PROVE  IInv'
  BY <1>3, UndoRowFailsOK, UndoEndFailsOK, CrashOK
<1>4. ASSUME NEW a \in Attempts, Drain(a) PROVE IInv'
  BY <1>4, DrainOK
<1>5. CASE AbandonedExpires \/ Stall
  BY <1>5, ExpireOK
<1>6. CASE Submit
  BY <1>6, SubmitOK
<1>7. CASE BackoffEnds
  BY <1>7, BackoffEndsOK
<1>8. CASE Revoke \/ UNCHANGED vars
  BY <1>8, RevokeOK
<1> QED
  BY <1>1, <1>2, <1>3, <1>4, <1>5, <1>6, <1>7, <1>8 DEF Next

\* The invariant of the import job holds in every reachable state, for any
\* number of runners, attempts, faults and outlived leases.
THEOREM Invariance == Spec => []IInv
<1>1. Init => IInv
  BY InitOK
<1>2. IInv /\ [Next]_vars => IInv'
  BY NextOK
<1> QED
  BY <1>1, <1>2, PTL DEF Spec

\* created_refs is a write-ahead list: every row of an attempt that did not
\* complete the job is in it, and every object too, or in the cleanup
\* journal, unless a lease was outlived.
THEOREM WorkIsJournaled == Spec => []Journaled
<1>1. IInv => Journaled
  BY DEF IInv
<1> QED
  BY <1>1, Invariance, PTL

\* A completed job has exactly the graph of the attempt that completed it.
THEOREM CompletedJobIsWhole == Spec => []CompletedIsWhole
<1>1. IInv => CompletedIsWhole
  BY DEF IInv
<1> QED
  BY <1>1, Invariance, PTL

\* Events name rows that exist, and those of a Notion or native run appear
\* with the completed job, all of them.
THEOREM ImportEventsAreTrue == Spec => []EventsAreTrue
<1>1. IInv => EventsAreTrue
  BY DEF IInv
<1> QED
  BY <1>1, Invariance, PTL
=============================================================================
