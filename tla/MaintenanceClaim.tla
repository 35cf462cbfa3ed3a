-------------------------- MODULE MaintenanceClaim --------------------------
(***************************************************************************)
(* Who runs a maintenance job (src/jobs/, src/db/maintenance_claim.rs).    *)
(*                                                                         *)
(* Every server ticks; the one that gets the job's claim runs a sweep, a   *)
(* chain of transactions ("units"), and gives the claim back.  On          *)
(* PostgreSQL the claim is a session advisory lock beside the pool that    *)
(* the units use.  In the SQLite family it is a row with an owner, a       *)
(* generation and an expiry, and every unit proves its claim inside its    *)
(* own writer transaction, of which the database has one at a time.        *)
(*                                                                         *)
(* The instant of expiry is the time left until it.  An owner is the       *)
(* token of one server process: a restarted server has another, and the    *)
(* row of the old one is then owned by Gone.                               *)
(***************************************************************************)
EXTENDS Integers

CONSTANTS
    Servers,
    None,           \* no owner, no writer, nothing in flight
    Gone,           \* a token whose process has ended
    Backends,       \* the databases "postgres", "local" and "remote"
    Lease,          \* FamilyMaintenanceLeasePolicy::lease in ticks
    MaxGen,         \* bound on claims
    MaxFaults,      \* bound on crashes, failed and unanswered commits
    MaxLosses       \* bound on lost lock sessions

ASSUME MaintenanceAssumption ==
    /\ None \notin Servers /\ Gone \notin Servers /\ None # Gone
    /\ Backends \subseteq {"postgres", "local", "remote"}
    /\ Lease \in Nat \ {0}
    /\ MaxGen \in Nat /\ MaxFaults \in Nat /\ MaxLosses \in Nat

VARIABLES
    backend,    \* the database of this deployment
    owner,      \* owner_token; on PostgreSQL the holder of the advisory lock
    gen,        \* generation; on PostgreSQL a count of claims
    left,       \* time left until expires_at
    writer,     \* the server whose unit has the writer reservation
    fresh,      \* time left until the expiry that this unit has renewed to
    flight,     \* what a COMMIT without an answer may still make durable
    pc,         \* where the maintenance loop of each server is
    mine,       \* the generation of its proof
    latest,     \* the claim of the last unit that was committed
    faults, losses

vars == <<backend, owner, gen, left, writer, fresh, flight, pc, mine, latest,
          faults, losses>>

Owner == Servers \cup {None, Gone}
Change == [owner : Owner, gen : Nat, left : 0 .. Lease, unit : BOOLEAN]
Place == {"idle", "acquiring", "holding", "working", "checked", "failing",
          "releasing", "stopped"}

\* The types of every variable.
TypeOK ==
    /\ backend \in Backends
    /\ owner \in Owner
    /\ gen \in Nat
    /\ left \in 0 .. Lease
    /\ writer \in Servers \cup {None}
    /\ fresh \in 0 .. Lease
    /\ flight \in Change \cup {None}
    /\ pc \in [Servers -> Place]
    /\ mine \in [Servers -> Nat]
    /\ latest \in Nat
    /\ faults \in Nat
    /\ losses \in Nat

Init ==
    /\ backend \in Backends
    /\ owner = None
    /\ gen = 0
    /\ left = 0
    /\ writer = None
    /\ fresh = 0
    /\ flight = None
    /\ pc = [s \in Servers |-> "idle"]
    /\ mine = [s \in Servers |-> 0]
    /\ latest = 0
    /\ faults = 0
    /\ losses = 0

-----------------------------------------------------------------------------
(* The row and its transactions.                                           *)

Family == backend # "postgres"

\* Variant: a claim does not expire.
LiveForever == owner # None

Live == owner # None /\ left > 0

\* Variant: any live claim will do.
ProvedLive(s) == Live

\* check_family_maintenance_claim
Proved(s) == owner = s /\ gen = mine[s] /\ Live

WriterFree == writer = None /\ flight = None

Goto(s, place) == pc' = [pc EXCEPT ![s] = place]

Durable(c) ==
    /\ owner' = c.owner
    /\ gen' = c.gen
    /\ left' = c.left
    /\ latest' = IF c.unit THEN c.gen ELSE latest
NotDurable == UNCHANGED <<owner, gen, left, latest>>

Fault == faults < MaxFaults /\ faults' = faults + 1

\* COMMIT is acknowledged: the server goes on at `next`.
CommitAnswered(s, c, next) ==
    /\ Durable(c)
    /\ Goto(s, next)
    /\ UNCHANGED <<flight, faults>>

\* COMMIT fails.  A local database has settled it, one way or the other, when
\* the next writer begins, and the server goes on at `next` to find out.  A
\* remote one may still execute it, and the server stops.
CommitUnknown(s, c, next) ==
    /\ Fault
    /\ IF backend = "local"
       THEN /\ Durable(c) \/ NotDurable
            /\ Goto(s, next)
            /\ UNCHANGED flight
       ELSE /\ NotDurable
            /\ flight' = c
            /\ Goto(s, "stopped")

\* The remote database ends a transaction whose COMMIT had no answer.
SettleRemote ==
    /\ flight # None
    /\ Durable(flight) \/ NotDurable
    /\ flight' = None
    /\ UNCHANGED <<backend, writer, fresh, pc, mine, faults, losses>>

-----------------------------------------------------------------------------
(* FamilyMaintenanceClaimRequest::try_acquire                              *)

\* FamilyMaintenanceLeasePolicy::expiry counts from now.
Expiry == Lease

Claimed(s) == [owner |-> s, gen |-> gen + 1, left |-> Expiry, unit |-> FALSE]

Acquire(s) ==
    /\ Family
    /\ pc[s] = "idle"
    /\ WriterFree
    /\ ~Live
    /\ gen < MaxGen
    /\ mine' = [mine EXCEPT ![s] = gen + 1]
    /\ \/ CommitAnswered(s, Claimed(s), "holding")
       \/ CommitUnknown(s, Claimed(s), "acquiring")
    /\ UNCHANGED <<backend, writer, fresh, losses>>

\* The server's own claim, which an earlier sweep could not give back.
Reacquire(s) ==
    /\ Family
    /\ pc[s] = "idle"
    /\ WriterFree
    /\ Live
    /\ owner = s
    /\ mine' = [mine EXCEPT ![s] = gen]
    /\ Goto(s, "holding")
    /\ UNCHANGED <<backend, owner, gen, left, writer, fresh, flight, latest,
                   faults, losses>>

\* Variant: the acquisition is taken for granted.
ObserveNothing(s) ==
    /\ pc[s] = "acquiring"
    /\ WriterFree
    /\ Goto(s, "holding")
    /\ UNCHANGED <<backend, owner, gen, left, writer, fresh, flight, mine,
                   latest, faults, losses>>

\* observe after an acquisition: the row is what the transaction prepared.
ObserveAcquired(s) ==
    /\ pc[s] = "acquiring"
    /\ WriterFree
    /\ Goto(s, IF Proved(s) THEN "holding" ELSE "stopped")
    /\ UNCHANGED <<backend, owner, gen, left, writer, fresh, flight, mine,
                   latest, faults, losses>>

-----------------------------------------------------------------------------
(* A unit: renew_maintenance_writer, the job's statements and              *)
(* commit_maintenance_writer in one writer transaction.                    *)

UnitBegin(s) ==
    /\ Family
    /\ pc[s] = "holding"
    /\ WriterFree
    /\ IF Proved(s)
       THEN writer' = s /\ fresh' = Expiry /\ Goto(s, "working")
       ELSE UNCHANGED <<writer, fresh>> /\ Goto(s, "failing")
    /\ UNCHANGED <<backend, owner, gen, left, flight, mine, latest, faults,
                   losses>>

\* An ordinary error of a statement: the unit is rolled back.  Nothing tells
\* that a remote rollback has settled, so its claim is left to expire.
UnitError(s) ==
    /\ pc[s] = "working"
    /\ Fault
    /\ writer' = None
    /\ Goto(s, IF backend = "local" THEN "holding" ELSE "stopped")
    /\ UNCHANGED <<backend, owner, gen, left, fresh, flight, mine, latest,
                   losses>>

\* The last look: a unit that outlived its own renewal is rolled back.
UnitCheck(s) ==
    /\ pc[s] = "working"
    /\ IF fresh > 0
       THEN UNCHANGED writer /\ Goto(s, "checked")
       ELSE writer' = None /\ Goto(s, "failing")
    /\ UNCHANGED <<backend, owner, gen, left, fresh, flight, mine, latest,
                   faults, losses>>

Worked(s) == [owner |-> s, gen |-> mine[s], left |-> fresh, unit |-> TRUE]

UnitCommit(s) ==
    /\ pc[s] = "checked"
    /\ writer' = None
    /\ \/ CommitAnswered(s, Worked(s), "holding")
       \/ CommitUnknown(s, Worked(s), "failing")
    /\ UNCHANGED <<backend, fresh, mine, losses>>

-----------------------------------------------------------------------------
(* finish_family_claim                                                     *)

Freed == [owner |-> None, gen |-> gen, left |-> 0, unit |-> FALSE]

Release(s) ==
    /\ Family
    /\ pc[s] = "holding"
    /\ WriterFree
    /\ Proved(s)
    /\ \/ CommitAnswered(s, Freed, "idle")
       \/ CommitUnknown(s, Freed, "releasing")
    /\ UNCHANGED <<backend, writer, fresh, mine, losses>>

\* The claim has passed on: the loop ends, and the server with it.
ReleaseLost(s) ==
    /\ Family
    /\ pc[s] = "holding"
    /\ WriterFree
    /\ ~Proved(s)
    /\ Goto(s, "stopped")
    /\ UNCHANGED <<backend, owner, gen, left, writer, fresh, flight, mine,
                   latest, faults, losses>>

\* An ordinary error: the row stays, a local server ticks on.
ReleaseError(s) ==
    /\ Family
    /\ pc[s] = "holding"
    /\ Fault
    /\ Goto(s, IF backend = "local" THEN "idle" ELSE "stopped")
    /\ UNCHANGED <<backend, owner, gen, left, writer, fresh, flight, mine,
                   latest, losses>>

\* observe after a release
ObserveReleased(s) ==
    /\ pc[s] = "releasing"
    /\ WriterFree
    /\ Goto(s, IF gen = mine[s] /\ owner = None THEN "idle" ELSE "stopped")
    /\ UNCHANGED <<backend, owner, gen, left, writer, fresh, flight, mine,
                   latest, faults, losses>>

\* After a failed sweep the claim is given back if it is still held, and
\* the loop ends.
FinishFailed(s) ==
    /\ pc[s] = "failing"
    /\ WriterFree
    /\ Proved(s)
    /\ \/ CommitAnswered(s, Freed, "stopped")
       \/ CommitUnknown(s, Freed, "stopped")
    /\ UNCHANGED <<backend, writer, fresh, mine, losses>>

FinishLost(s) ==
    /\ pc[s] = "failing"
    /\ WriterFree
    /\ ~Proved(s)
    /\ Goto(s, "stopped")
    /\ UNCHANGED <<backend, owner, gen, left, writer, fresh, flight, mine,
                   latest, faults, losses>>

-----------------------------------------------------------------------------
(* JobClaim: the session lock of PostgreSQL.                               *)

TryClaim(s) ==
    /\ ~Family
    /\ pc[s] = "idle"
    /\ owner = None
    /\ gen < MaxGen
    /\ owner' = s
    /\ gen' = gen + 1
    /\ mine' = [mine EXCEPT ![s] = gen']
    /\ Goto(s, "holding")
    /\ UNCHANGED <<backend, left, writer, fresh, flight, latest, faults,
                   losses>>

\* A unit runs on a connection of the pool and does not look at the lock.
PoolUnit(s) ==
    /\ ~Family
    /\ pc[s] = "holding"
    /\ latest' = mine[s]
    /\ UNCHANGED <<backend, owner, gen, left, writer, fresh, flight, pc, mine,
                   faults, losses>>

Unlock(s) ==
    /\ ~Family
    /\ pc[s] = "holding"
    /\ owner' = IF owner = s THEN None ELSE owner
    /\ Goto(s, "idle")
    /\ UNCHANGED <<backend, gen, left, writer, fresh, flight, mine, latest,
                   faults, losses>>

\* The session is lost and the lock with it; the job does not notice.
LoseSession ==
    /\ ~Family
    /\ owner # None
    /\ losses < MaxLosses
    /\ losses' = losses + 1
    /\ owner' = None
    /\ UNCHANGED <<backend, gen, left, writer, fresh, flight, pc, mine, latest,
                   faults>>

-----------------------------------------------------------------------------
(* Servers and time.                                                       *)

\* A process ends, its open transaction is rolled back and its session lock
\* is free.
Crash(s) ==
    /\ pc[s] # "stopped"
    /\ Fault
    /\ Goto(s, "stopped")
    /\ writer' = IF writer = s THEN None ELSE writer
    /\ owner' = IF ~Family /\ owner = s THEN None ELSE owner
    /\ UNCHANGED <<backend, gen, left, fresh, flight, mine, latest, losses>>

\* spawn_maintenance_backend prepares a new token.
Restart(s) ==
    /\ pc[s] = "stopped"
    /\ Goto(s, "idle")
    /\ owner' = IF owner = s THEN Gone ELSE owner
    /\ flight' = IF flight = None THEN None
                 ELSE IF flight.owner = s THEN [flight EXCEPT !.owner = Gone]
                 ELSE flight
    /\ UNCHANGED <<backend, gen, left, writer, fresh, mine, latest, faults,
                   losses>>

Sooner(t) == IF t > 0 THEN t - 1 ELSE 0
Tick ==
    /\ left' = Sooner(left)
    /\ fresh' = Sooner(fresh)
    /\ flight' = IF flight = None THEN None
                 ELSE [flight EXCEPT !.left = Sooner(@)]
    /\ UNCHANGED <<backend, owner, gen, writer, pc, mine, latest, faults,
                   losses>>

-----------------------------------------------------------------------------
UnitStep(s) == UnitCheck(s) \/ UnitCommit(s)
Observe(s) ==
    \/ ObserveAcquired(s) \/ ObserveReleased(s)
    \/ FinishFailed(s) \/ FinishLost(s)

Next ==
    \/ \E s \in Servers :
        \/ Acquire(s) \/ Reacquire(s) \/ UnitBegin(s) \/ UnitError(s)
        \/ UnitStep(s) \/ Release(s) \/ ReleaseLost(s) \/ ReleaseError(s)
        \/ Observe(s)
        \/ TryClaim(s) \/ PoolUnit(s) \/ Unlock(s)
        \/ Crash(s) \/ Restart(s)
    \/ SettleRemote \/ LoseSession \/ Tick

Spec == Init /\ [][Next]_vars

\* Started units and finishes end, sweeps are bounded, servers poll, the
\* remote database settles what it was sent, and time passes.
FairSpec ==
    /\ Spec
    /\ \A s \in Servers :
        /\ WF_vars(UnitStep(s))
        /\ SF_vars(Observe(s))
        /\ SF_vars(Release(s) \/ ReleaseLost(s))
        /\ SF_vars(Acquire(s) \/ Reacquire(s))
        /\ WF_vars(Restart(s))
    /\ WF_vars(SettleRemote)
    /\ WF_vars(Tick)

-----------------------------------------------------------------------------
(* Properties.                                                             *)

InSweep(s) == pc[s] \in {"holding", "working", "checked"}

\* A server that was told that it has the claim has it, or a later claim has
\* replaced it: an unanswered COMMIT is never taken for a claim.
AcquiredIsDurable ==
    losses = 0 =>
        \A s \in Servers : InSweep(s) =>
            gen > mine[s] \/ (gen = mine[s] /\ owner = s)

\* What a proof of the two properties below needs to know of a unit that is
\* open and of a COMMIT that is in flight.
UnitInv ==
    /\ latest <= gen
    /\ \A s \in Servers : InSweep(s) => mine[s] <= gen
    /\ \A s \in Servers :
        writer = s <=> pc[s] \in {"working", "checked"}
    /\ Family => losses = 0
    /\ \A s \in Servers : pc[s] \notin {"idle", "holding", "stopped"} => Family
    /\ ~Family /\ losses = 0 =>
        \A s \in Servers : pc[s] = "holding" => owner = s /\ mine[s] = gen
    /\ writer # None =>
        Family /\ flight = None /\ owner = writer /\ mine[writer] = gen
    /\ flight # None =>
        /\ Family
        /\ flight.gen >= gen
        /\ flight.gen = gen =>
            \A s \in Servers : InSweep(s) => mine[s] < gen

\* Inductive: types, whose unit is open or in flight, who was told what.
ClaimInv == TypeOK /\ UnitInv /\ AcquiredIsDurable

\* The units of two claims do not mix: once a unit of a later claim is
\* committed, no unit of an earlier one is, however slow its server was.  On
\* PostgreSQL this needs the lock session to outlive the last COMMIT that its
\* server sent.
UnitsInOrder == [][losses = 0 => latest' >= latest]_vars

\* Nobody waits for a server that is gone: its claim is taken over.
OrphanedClaimEnds ==
    (owner = Gone /\ gen < MaxGen) ~> (owner # Gone \/ gen = MaxGen)
=============================================================================
