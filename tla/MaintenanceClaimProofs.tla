----------------------- MODULE MaintenanceClaimProofs -----------------------
(***************************************************************************)
(* Proofs about MaintenanceClaim, for every number of servers, lease, and  *)
(* bound.                                                                  *)
(***************************************************************************)
EXTENDS MaintenanceClaim, TLAPS

\* The changes that transactions make are well formed.
LEMMA ChangeTypes ==
    ASSUME TypeOK, NEW s \in Servers
    PROVE  /\ Claimed(s) \in Change
           /\ Worked(s) \in Change
           /\ Freed \in Change
BY MaintenanceAssumption
DEF TypeOK, Claimed, Worked, Freed, Expiry, Change, Owner

\* A change keeps its generation when its owner or its time is replaced.
LEMMA ChangeKeepsGen ==
    ASSUME NEW c \in Change, NEW v
    PROVE  /\ [c EXCEPT !.owner = v].gen = c.gen
           /\ [c EXCEPT !.left = v].gen = c.gen
BY DEF Change

\* Every step keeps the types.
LEMMA TypeStep == TypeOK /\ [Next]_vars => TypeOK'
<1> SUFFICES ASSUME TypeOK, [Next]_vars PROVE TypeOK'
    OBVIOUS
<1> USE MaintenanceAssumption
<1>1. ASSUME NEW s \in Servers, Acquire(s) PROVE TypeOK'
  <2>1. Claimed(s) \in Change
    BY ChangeTypes
  <2> QED
    BY <1>1, <2>1 DEF TypeOK, Acquire, CommitAnswered, CommitUnknown, Durable,
        NotDurable, Goto, Fault, Change, Place, Owner
<1>2. ASSUME NEW s \in Servers, UnitCommit(s) PROVE TypeOK'
  <2>1. Worked(s) \in Change
    BY ChangeTypes
  <2> QED
    BY <1>2, <2>1 DEF TypeOK, UnitCommit, CommitAnswered, CommitUnknown, Durable,
        NotDurable, Goto, Fault, Change, Place, Owner
<1>3. ASSUME NEW s \in Servers, Release(s) \/ FinishFailed(s) PROVE TypeOK'
  <2>1. Freed \in Change
    BY ChangeTypes
  <2> QED
    BY <1>3, <2>1 DEF TypeOK, Release, FinishFailed, CommitAnswered,
        CommitUnknown, Durable, NotDurable, Goto, Fault, Change, Place, Owner
<1>4. ASSUME SettleRemote PROVE TypeOK'
  <2>1. flight \in Change
    BY <1>4 DEF SettleRemote, TypeOK
  <2> QED
    BY <1>4, <2>1 DEF TypeOK, SettleRemote, Durable, NotDurable, Change, Owner
<1>5. ASSUME NEW s \in Servers,
             \/ Reacquire(s) \/ UnitBegin(s) \/ UnitError(s) \/ UnitCheck(s)
             \/ ReleaseLost(s) \/ ReleaseError(s) \/ ObserveAcquired(s)
             \/ ObserveReleased(s) \/ FinishLost(s)
      PROVE  TypeOK'
  BY <1>5 DEF TypeOK, Reacquire, UnitBegin, UnitError, UnitCheck, ReleaseLost,
      ReleaseError, ObserveAcquired, ObserveReleased, FinishLost, Goto, Fault,
      Place, Expiry
<1>6. ASSUME NEW s \in Servers,
             TryClaim(s) \/ PoolUnit(s) \/ Unlock(s) \/ Crash(s)
      PROVE  TypeOK'
  BY <1>6 DEF TypeOK, TryClaim, PoolUnit, Unlock, Crash, Goto, Fault, Place,
      Owner
<1>7. ASSUME NEW s \in Servers, Restart(s) PROVE TypeOK'
  <2>1. flight' \in Change \cup {None}
    BY <1>7 DEF TypeOK, Restart, Change, Owner
  <2> QED
    BY <1>7, <2>1 DEF TypeOK, Restart, Goto, Place, Owner
<1>8. ASSUME Tick PROVE TypeOK'
  <2>1. \A t \in 0 .. Lease : Sooner(t) \in 0 .. Lease
    BY DEF Sooner
  <2>2. flight' \in Change \cup {None}
    BY <1>8, <2>1 DEF TypeOK, Tick, Change
  <2> QED
    BY <1>8, <2>1, <2>2 DEF TypeOK, Tick
<1>9. CASE LoseSession
  BY <1>9 DEF TypeOK, LoseSession, Owner
<1>10. CASE UNCHANGED vars
  BY <1>10 DEF TypeOK, vars
<1> QED
  BY <1>1, <1>2, <1>3, <1>4, <1>5, <1>6, <1>7, <1>8, <1>9, <1>10
  DEF Next, UnitStep, Observe

\* What both invariants say of the row and of the sweeps is kept by a step
\* that leaves row, writer and flight alone and starts no sweep.
LEMMA QuietStep ==
    ASSUME ClaimInv,
           UNCHANGED <<backend, owner, gen, writer, flight, mine, latest,
                       losses>>,
           \A s \in Servers : pc'[s] \in {"working", "checked"}
                              <=> pc[s] \in {"working", "checked"},
           \A s \in Servers :
                pc'[s] \in {"idle", "holding", "stopped", pc[s]} \/ Family,
           \A s \in Servers : InSweep(s)' =>
                \/ InSweep(s)
                \/ Family /\ WriterFree /\ owner = s /\ gen = mine[s]
    PROVE  UnitInv' /\ AcquiredIsDurable'
BY DEF ClaimInv, TypeOK, UnitInv, AcquiredIsDurable, InSweep, Family, WriterFree

\* A transaction of the server s that has the writer, or finds it free, ends:
\* its change becomes durable at once, later or never.
LEMMA CommitStep ==
    ASSUME ClaimInv, Family, NEW s \in Servers, NEW c \in Change,
           NEW next \in Place, NEW place \in Place,
           flight = None,
           writer \in {None, s},
           writer' = None,
           UNCHANGED <<backend, losses>>,
           \A t \in Servers \ {s} : mine'[t] = mine[t],
           mine' \in [Servers -> Nat],
           c.gen >= gen,
           c.gen = gen => owner = s,
           \A t \in Servers \ {s} : ~InSweep(t) \/ mine[t] < gen \/ owner = t,
           next \notin {"working", "checked"},
           next = "holding" => c.owner = s /\ mine'[s] = c.gen,
           place \notin {"holding", "working", "checked"},
           \/ CommitAnswered(s, c, next)
           \/ CommitUnknown(s, c, place)
    PROVE  UnitInv' /\ AcquiredIsDurable'
<1> USE MaintenanceAssumption
<1>1. /\ pc'[s] \in {next, place, "stopped"}
      /\ \A t \in Servers \ {s} : pc'[t] = pc[t]
  BY DEF CommitAnswered, CommitUnknown, Goto, ClaimInv, TypeOK
<1>2. \A t \in Servers : pc'[t] \notin {"working", "checked"}
  BY <1>1 DEF ClaimInv, UnitInv
<1>3. \A t \in Servers \ {s} :
        InSweep(t)' => InSweep(t) /\ mine'[t] = mine[t] /\ mine[t] <= gen
  BY <1>1 DEF ClaimInv, UnitInv, InSweep
<1>4. c.gen \in Nat /\ gen \in Nat /\ latest \in Nat /\ latest <= gen /\ losses = 0
  BY DEF ClaimInv, TypeOK, UnitInv, Change
<1>5. \A t \in Servers \ {s} : InSweep(t)' => mine'[t] < c.gen
  BY <1>3, <1>4 DEF ClaimInv, TypeOK
<1>6. ASSUME Durable(c), flight' = None,
             InSweep(s)' => c.owner = s /\ mine'[s] = c.gen
      PROVE  UnitInv' /\ AcquiredIsDurable'
  BY <1>2, <1>4, <1>5, <1>6
  DEF Durable, UnitInv, AcquiredIsDurable, InSweep, Family, ClaimInv, TypeOK
<1>7. ASSUME NotDurable, ~InSweep(s)',
             flight' = None \/ (flight' = c /\ c.gen = flight'.gen)
      PROVE  UnitInv' /\ AcquiredIsDurable'
  <2>1. \A t \in Servers :
          InSweep(t) => mine[t] < gen \/ (mine[t] = gen /\ owner = t)
    BY <1>4 DEF ClaimInv, AcquiredIsDurable, TypeOK, InSweep
  <2>2. AcquiredIsDurable'
    BY <1>3, <1>4, <1>7, <2>1
    DEF NotDurable, AcquiredIsDurable, InSweep, ClaimInv, TypeOK
  <2>3. \A t \in Servers : InSweep(t)' => mine'[t] <= gen'
    BY <1>3, <1>4, <1>7 DEF NotDurable, InSweep
  <2>4. flight' # None =>
          /\ flight'.gen >= gen'
          /\ flight'.gen = gen' =>
              \A t \in Servers : InSweep(t)' => mine'[t] < gen'
    BY <1>4, <1>5, <1>7 DEF NotDurable, InSweep
  <2> QED
    BY <1>2, <1>4, <1>7, <2>2, <2>3, <2>4 DEF NotDurable, UnitInv, Family
<1>8. CASE CommitAnswered(s, c, next)
  BY <1>6, <1>8 DEF CommitAnswered, Goto, InSweep, ClaimInv, TypeOK
<1>9. CASE CommitUnknown(s, c, place)
  <2>1. ~InSweep(s)'
    BY <1>9 DEF CommitUnknown, Goto, InSweep, ClaimInv, TypeOK
  <2> QED
    BY <1>6, <1>7, <1>9, <2>1 DEF CommitUnknown
<1> QED
  BY <1>8, <1>9

\* Every step keeps the inductive invariant.
LEMMA InvStep == ClaimInv /\ [Next]_vars => ClaimInv'
<1> SUFFICES ASSUME ClaimInv, [Next]_vars PROVE UnitInv' /\ AcquiredIsDurable'
  BY TypeStep DEF ClaimInv
<1> USE MaintenanceAssumption
<1>0. TypeOK /\ UnitInv /\ AcquiredIsDurable /\ TypeOK'
  BY TypeStep DEF ClaimInv
<1>t. mine' \in [Servers -> Nat]
  BY <1>0 DEF TypeOK
<1>w. \A s \in Servers : InSweep(s) /\ Family =>
        mine[s] < gen \/ owner = s
  BY <1>0 DEF UnitInv, AcquiredIsDurable, TypeOK, InSweep
<1>1. ASSUME NEW s \in Servers, Acquire(s) PROVE UnitInv' /\ AcquiredIsDurable'
  <2>1. Claimed(s) \in Change
    BY <1>0, ChangeTypes
  <2>2. /\ Claimed(s).gen >= gen /\ Claimed(s).gen # gen
        /\ Claimed(s).owner = s /\ mine'[s] = Claimed(s).gen
        /\ \A t \in Servers \ {s} : mine'[t] = mine[t]
    BY <1>0, <1>1 DEF Claimed, TypeOK, Acquire
  <2>3. /\ Family /\ flight = None /\ writer = None /\ writer' = None
        /\ UNCHANGED <<backend, losses>>
        /\ \/ CommitAnswered(s, Claimed(s), "holding")
           \/ CommitUnknown(s, Claimed(s), "acquiring")
    BY <1>1 DEF Acquire, WriterFree
  <2> QED
    BY <1>t, <1>w, <2>1, <2>2, <2>3, CommitStep DEF Place
<1>2. ASSUME NEW s \in Servers, UnitCommit(s) PROVE UnitInv' /\ AcquiredIsDurable'
  <2>1. Worked(s) \in Change
    BY <1>0, ChangeTypes
  <2>2. writer = s /\ Family /\ flight = None /\ owner = s /\ mine[s] = gen
    BY <1>0, <1>2 DEF UnitCommit, UnitInv
  <2>3. /\ Worked(s).gen = gen /\ Worked(s).owner = s /\ mine' = mine
        /\ Worked(s).gen >= gen
    BY <1>0, <1>2, <2>2 DEF Worked, UnitCommit, TypeOK
  <2>4. /\ writer' = None
        /\ UNCHANGED <<backend, losses>>
        /\ \/ CommitAnswered(s, Worked(s), "holding")
           \/ CommitUnknown(s, Worked(s), "failing")
    BY <1>2 DEF UnitCommit
  <2> QED
    BY <1>t, <1>w, <2>1, <2>2, <2>3, <2>4, CommitStep DEF Place
<1>3. ASSUME NEW s \in Servers, Release(s) \/ FinishFailed(s)
      PROVE  UnitInv' /\ AcquiredIsDurable'
  <2>1. Freed \in Change
    BY <1>0, ChangeTypes
  <2>2. /\ flight = None /\ writer = None /\ writer' = None
        /\ owner = s /\ mine' = mine
        /\ UNCHANGED <<backend, losses>>
    BY <1>3 DEF Release, FinishFailed, WriterFree, Proved
  <2>3. Freed.gen = gen /\ Freed.gen >= gen
    BY <1>0 DEF Freed, TypeOK
  <2>f. Family
    BY <1>0, <1>3 DEF Release, FinishFailed, UnitInv
  <2>4. CASE Release(s)
    <3>1. \/ CommitAnswered(s, Freed, "idle")
          \/ CommitUnknown(s, Freed, "releasing")
      BY <2>4 DEF Release
    <3> QED
      BY <1>t, <1>w, <2>1, <2>2, <2>3, <2>f, <3>1, CommitStep DEF Place
  <2>5. CASE FinishFailed(s)
    <3>1. \/ CommitAnswered(s, Freed, "stopped")
          \/ CommitUnknown(s, Freed, "stopped")
      BY <2>5 DEF FinishFailed
    <3> QED
      BY <1>t, <1>w, <2>1, <2>2, <2>3, <2>f, <3>1, CommitStep DEF Place
  <2> QED
    BY <1>3, <2>4, <2>5
<1>4. ASSUME SettleRemote PROVE UnitInv' /\ AcquiredIsDurable'
  <2>1. flight \in Change /\ flight.gen \in Nat
    BY <1>0, <1>4 DEF SettleRemote, TypeOK, Change
  <2>2. writer = None /\ Family /\ flight.gen >= gen /\ losses = 0
    BY <1>0, <1>4 DEF SettleRemote, UnitInv
  <2>3. \A s \in Servers : InSweep(s) => mine[s] < flight.gen
    BY <1>0, <1>4, <2>1 DEF SettleRemote, UnitInv, TypeOK
  <2> QED
    BY <1>0, <1>4, <2>1, <2>2, <2>3
    DEF SettleRemote, Durable, NotDurable, UnitInv, AcquiredIsDurable, InSweep,
        TypeOK, Family
<1>5. ASSUME NEW s \in Servers, Reacquire(s) PROVE UnitInv' /\ AcquiredIsDurable'
  BY <1>0, <1>5
  DEF Reacquire, Goto, WriterFree, UnitInv, AcquiredIsDurable, InSweep, TypeOK,
      Family
<1>6. ASSUME NEW s \in Servers,
             \/ ReleaseLost(s) \/ ReleaseError(s)
             \/ ObserveAcquired(s) \/ ObserveReleased(s) \/ FinishLost(s)
      PROVE  UnitInv' /\ AcquiredIsDurable'
  <2>1. UNCHANGED <<backend, owner, gen, writer, flight, mine, latest, losses>>
    BY <1>6 DEF ReleaseLost, ReleaseError, ObserveAcquired, ObserveReleased,
        FinishLost
  <2>2. /\ \A t \in Servers \ {s} : pc'[t] = pc[t]
        /\ pc[s] \notin {"working", "checked"}
        /\ pc'[s] \in {"idle", "holding", "stopped"}
    BY <1>0, <1>6 DEF ReleaseLost, ReleaseError, ObserveAcquired,
        ObserveReleased, FinishLost, Goto, TypeOK
  <2>3. pc'[s] = "holding" => Family /\ WriterFree /\ owner = s /\ gen = mine[s]
    BY <1>0, <1>6 DEF ReleaseLost, ReleaseError, ObserveAcquired,
        ObserveReleased, FinishLost, Goto, TypeOK, UnitInv, Proved
  <2> QED
    BY <2>1, <2>2, <2>3, QuietStep DEF InSweep
<1>7. ASSUME NEW s \in Servers, UnitBegin(s) PROVE UnitInv' /\ AcquiredIsDurable'
  BY <1>0, <1>7
  DEF UnitBegin, Goto, WriterFree, Proved, UnitInv, AcquiredIsDurable, InSweep,
      TypeOK, Family
<1>8. ASSUME NEW s \in Servers, UnitError(s) \/ UnitCheck(s)
      PROVE  UnitInv' /\ AcquiredIsDurable'
  BY <1>0, <1>8
  DEF UnitError, UnitCheck, Goto, Fault, UnitInv, AcquiredIsDurable, InSweep,
      TypeOK, Family
<1>9. ASSUME NEW s \in Servers, TryClaim(s) \/ PoolUnit(s) \/ Unlock(s)
      PROVE  UnitInv' /\ AcquiredIsDurable'
  BY <1>0, <1>9
  DEF TryClaim, PoolUnit, Unlock, Goto, UnitInv, AcquiredIsDurable, InSweep,
      TypeOK, Family
<1>10. ASSUME NEW s \in Servers, Crash(s) PROVE UnitInv' /\ AcquiredIsDurable'
  BY <1>0, <1>10
  DEF Crash, Goto, UnitInv, AcquiredIsDurable, InSweep, TypeOK, Family
<1>11. ASSUME NEW s \in Servers, Restart(s) PROVE UnitInv' /\ AcquiredIsDurable'
  <2>1. /\ flight = None => flight' = None
        /\ flight # None => flight'.gen = flight.gen
    BY <1>0, <1>11, ChangeKeepsGen DEF Restart, TypeOK
  <2> QED
    BY <1>0, <1>11, <2>1
    DEF Restart, Goto, UnitInv, AcquiredIsDurable, InSweep, TypeOK, Family
<1>12. CASE LoseSession
  BY <1>0, <1>12 DEF LoseSession, UnitInv, AcquiredIsDurable, InSweep, TypeOK,
      Family
<1>13. CASE Tick
  <2>1. /\ flight = None => flight' = None
        /\ flight # None => flight'.gen = flight.gen
    BY <1>0, <1>13, ChangeKeepsGen DEF Tick, TypeOK
  <2> QED
    BY <1>0, <1>13, <2>1
    DEF Tick, UnitInv, AcquiredIsDurable, InSweep, TypeOK, Family
<1>14. CASE UNCHANGED vars
  BY <1>0, <1>14 DEF vars, UnitInv, AcquiredIsDurable, InSweep, Family
<1> QED
  BY <1>1, <1>2, <1>3, <1>4, <1>5, <1>6, <1>7, <1>8, <1>9, <1>10, <1>11, <1>12,
     <1>13, <1>14
  DEF Next, UnitStep, Observe

\* Types, the open unit, which belongs to the current claim, the COMMIT in
\* flight, which cannot bring an earlier one back, and what servers were told.
THEOREM Invariance == Spec => []ClaimInv
<1>1. Init => ClaimInv
  BY MaintenanceAssumption
  DEF Init, ClaimInv, TypeOK, UnitInv, AcquiredIsDurable, InSweep, Owner, Place,
      Family
<1> QED
  BY <1>1, InvStep, PTL DEF Spec

\* The types of every variable, for every number of servers and every bound.
THEOREM TypeCorrectness == Spec => []TypeOK
<1>1. ClaimInv => TypeOK
  BY DEF ClaimInv
<1> QED
  BY <1>1, Invariance, PTL

\* A claim that was reported is durable until a later one replaces it: no
\* two servers work under the current claim.
THEOREM ReportedClaimsAreDurable == Spec => []AcquiredIsDurable
<1>1. ClaimInv => AcquiredIsDurable
  BY DEF ClaimInv
<1> QED
  BY <1>1, Invariance, PTL

\* Units are committed in the order of their claims.
THEOREM UnitsAreOrdered == Spec => UnitsInOrder
<1>1. ClaimInv /\ [Next]_vars => [losses = 0 => latest' >= latest]_vars
  <2> SUFFICES ASSUME ClaimInv, Next, losses = 0 PROVE latest' >= latest
    BY DEF ClaimInv, TypeOK, vars
  <2>0. TypeOK /\ UnitInv /\ AcquiredIsDurable
    BY DEF ClaimInv
  <2>1. ASSUME NEW s \in Servers, NEW c, NEW next,
               CommitAnswered(s, c, next) \/ CommitUnknown(s, c, next),
               c.unit => c.gen = gen
        PROVE  latest' >= latest
    BY <2>0, <2>1 DEF CommitAnswered, CommitUnknown, Durable, NotDurable,
        UnitInv, TypeOK
  <2>2. ASSUME NEW s \in Servers,
               Acquire(s) \/ Release(s) \/ FinishFailed(s)
        PROVE  latest' >= latest
    BY <2>1, <2>2 DEF Acquire, Release, FinishFailed, Claimed, Freed
  <2>3. ASSUME NEW s \in Servers, UnitCommit(s) PROVE latest' >= latest
    <3>1. writer = s /\ mine[s] = gen
      BY <2>0, <2>3, MaintenanceAssumption DEF UnitCommit, UnitInv, TypeOK
    <3>2. Worked(s).gen = gen
      BY <3>1 DEF Worked
    <3> QED
      BY <2>1, <2>3, <3>2 DEF UnitCommit
  <2>4. CASE SettleRemote
    <3>1. flight \in Change /\ flight.gen \in Nat
      BY <2>0, <2>4 DEF SettleRemote, TypeOK, Change
    <3>2. flight.gen >= gen
      BY <2>0, <2>4 DEF SettleRemote, UnitInv
    <3> QED
      BY <2>0, <2>4, <3>1, <3>2 DEF SettleRemote, Durable, NotDurable, UnitInv,
          TypeOK
  <2>5. ASSUME NEW s \in Servers, PoolUnit(s) PROVE latest' >= latest
    BY <2>0, <2>5 DEF PoolUnit, AcquiredIsDurable, InSweep, UnitInv, TypeOK
  <2>6. CASE latest' = latest
    BY <2>0, <2>6 DEF TypeOK
  <2> QED
    BY <2>2, <2>3, <2>4, <2>5, <2>6
    DEF Next, UnitStep, Observe, Reacquire, UnitBegin, UnitError, UnitCheck,
        ReleaseLost, ReleaseError, ObserveAcquired, ObserveReleased, FinishLost,
        TryClaim, Unlock, Crash, Restart, LoseSession, Tick
<1> QED
  BY <1>1, Invariance, PTL DEF Spec, UnitsInOrder
=============================================================================
