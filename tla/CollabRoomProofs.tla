-------------------------- MODULE CollabRoomProofs --------------------------
(***************************************************************************)
(* Proofs about CollabRoom, for any servers, clients, updates and bounds.  *)
(***************************************************************************)
EXTENDS CollabRoom, TLAPS

-----------------------------------------------------------------------------
(* The history.                                                            *)

\* An update is in the history up to n when a receipt up to n carries it.
LEMMA HistoryMember ==
    ASSUME NEW n, NEW u
    PROVE  u \in History(n) <=> \E x \in receipts : x.seq <= n /\ u \in x.payload
BY DEF History, Payloads

\* Snapshot and tail, merged as a load merges them, are the whole history.
LEMMA ContentIsHistory ==
    ASSUME StoreTypeOK, StoreConsistent
    PROVE  StoredContent = History(tail)
<1>1. ASSUME NEW u PROVE u \in StoredContent <=> u \in History(tail)
  <2>1. u \in StoredContent <=>
            \/ u \in History(cutoff)
            \/ \E x \in receipts : x.seq > cutoff /\ x.seq > cutoff /\ u \in x.payload
    BY DEF StoredContent, Payloads, TailRows, StoreConsistent
  <2>2. \A x \in receipts : x.seq \in Nat /\ x.seq <= tail
    BY DEF StoreConsistent, StoreTypeOK
  <2>3. cutoff \in Nat /\ tail \in Nat /\ cutoff <= tail
    BY DEF StoreConsistent, StoreTypeOK
  <2>4. u \in History(cutoff) <=> \E x \in receipts : x.seq <= cutoff /\ u \in x.payload
    BY HistoryMember
  <2>5. u \in History(tail) <=> \E x \in receipts : x.seq <= tail /\ u \in x.payload
    BY HistoryMember
  <2>. QED  BY <2>1, <2>2, <2>3, <2>4, <2>5
<1>. QED  BY <1>1

\* The history is made of updates.
LEMMA HistoryType ==
    ASSUME StoreTypeOK, NEW n
    PROVE  History(n) \subseteq Updates
BY DEF StoreTypeOK, History, Payloads, Operation

\* The history only grows with n.
LEMMA HistoryGrows ==
    ASSUME StoreTypeOK, StoreConsistent, NEW m \in Nat, NEW n \in Nat, m <= n
    PROVE  History(m) \subseteq History(n)
<1>1. \A x \in receipts : x.seq \in Nat
  BY DEF StoreConsistent, StoreTypeOK
<1>2. ASSUME NEW u \in History(m) PROVE u \in History(n)
  <2>1. \E x \in receipts : x.seq <= m /\ u \in x.payload
    BY HistoryMember
  <2>2. \E x \in receipts : x.seq <= n /\ u \in x.payload
    BY <2>1, <1>1
  <2>. QED  BY <2>2, HistoryMember
<1>. QED  BY <1>2

-----------------------------------------------------------------------------
(* Rooms between two commands.                                             *)

\* What any room may keep when it has finished its command.
Rested(r) ==
    /\ r \in Room
    /\ r.tail <= tail
    /\ r.known = History(r.tail)
    /\ r.clean => r.primary = r.known
    /\ r.synced \subseteq r.conns
    /\ r.gen <= generation
    /\ r.gen # 0 /\ r.gen = generation =>
          r.tail = tail /\ \A c \in r.synced : r.known \subseteq doc[c]

\* Finishing the command leaves a consistent room.
LEMMA IdleConsistent ==
    ASSUME NEW r, Rested(r), NEW pc \in {"ready", "persist"}
    PROVE  LET m == [Idle(r) EXCEPT !.pc = pc]
           IN  /\ m \in Room /\ RoomConsistent(m)
               /\ m.gen = r.gen /\ m.op = 0
BY DEF Rested, Idle, Room, Command, RoomConsistent, CommandFits, KnowsPrefix,
       OperationFits, WriterCurrent, PeersFollow, Forward

\* Idle already stands between commands.
LEMMA IdleReady == ASSUME NEW r \in Room PROVE [Idle(r) EXCEPT !.pc = "ready"] = Idle(r)
BY DEF Idle, Room

\* Most states of a command are rested as they are.
LEMMA ConsistentRests ==
    ASSUME NEW r \in Room, RoomConsistent(r),
           r.pc \notin {"verify", "diverge", "unhealthy"}
    PROVE  Rested(r)
BY DEF Rested, RoomConsistent, KnowsPrefix, WriterCurrent, PeersFollow

\* Reloading the engine keeps a room rested.
LEMMA ReloadedRests ==
    ASSUME NEW r, Rested(r)
    PROVE  Rested(Reloaded(r)) /\ Reloaded(r).clean
BY DEF Rested, Reloaded, Room

\* So does reloading it only when it is not clean,
LEMMA EnsuredRests ==
    ASSUME NEW r, Rested(r)
    PROVE  Rested(Ensured(r)) /\ Ensured(r).clean
BY ReloadedRests DEF Ensured, Rested

\* and losing it.
LEMMA UnloadedRests ==
    ASSUME NEW r, Rested(r)
    PROVE  Rested(Unloaded(r))
BY DEF Rested, Unloaded, Room

\* Closing connections keeps a room rested.
LEMMA CloseRests ==
    ASSUME NEW r, Rested(r), NEW c
    PROVE  Rested(Close(r, c)) /\ Rested(CloseAll(r))
BY DEF Rested, Close, CloseAll, Room

\* A room that gives up its generation, or loads the stored state, rests.
LEMMA SurrenderRests ==
    ASSUME NEW r \in Room, r.tail <= tail, r.known = History(r.tail), generation \in Nat
    PROVE  Rested(CloseAll([Reloaded(r) EXCEPT !.gen = 0]))
<1>. DEFINE m == CloseAll([Reloaded(r) EXCEPT !.gen = 0])
<1>1. m \in Room
  BY DEF Reloaded, CloseAll, Room
<1>2. /\ m.tail = r.tail /\ m.known = r.known /\ m.primary = r.known
      /\ m.gen = 0 /\ m.synced = {}
  BY DEF Reloaded, CloseAll, Room
<1>. HIDE DEF m
<1>3. Rested(m)
  BY <1>1, <1>2 DEF Rested
<1>. QED  BY <1>3 DEF m

\* A room that loads the stored state rests, whatever its generation.
LEMMA LoadedRests ==
    ASSUME NEW r, Rested(r), StoreTypeOK, StoreConsistent
    PROVE  /\ Rested(Reloaded(Committed(r))) /\ Reloaded(Committed(r)).clean
           /\ Rested(Unloaded(Committed(r)))
<1>1. StoredContent = History(tail) /\ History(tail) \subseteq Updates /\ tail \in Nat
  BY ContentIsHistory, HistoryType DEF StoreTypeOK
<1>. DEFINE m == Reloaded(Committed(r))
            n == Unloaded(Committed(r))
<1>2. m \in Room /\ n \in Room
  BY <1>1 DEF Rested, Committed, Reloaded, Unloaded, Room
<1>3. /\ m.tail = tail /\ m.known = History(tail) /\ m.primary = History(tail)
      /\ m.clean /\ m.gen = r.gen /\ m.synced = r.synced /\ m.conns = r.conns
  BY <1>1 DEF Rested, Committed, Reloaded, Room
<1>4. /\ n.tail = tail /\ n.known = History(tail) /\ ~n.clean
      /\ n.gen = r.gen /\ n.synced = r.synced /\ n.conns = r.conns
  BY <1>1 DEF Rested, Committed, Unloaded, Room
<1>. HIDE DEF m, n
<1>5. Rested(m) /\ Rested(n)
  BY <1>1, <1>2, <1>3, <1>4 DEF Rested
<1>. QED  BY <1>3, <1>5 DEF m, n

-----------------------------------------------------------------------------
(* Steps that leave the store alone.                                       *)

\* A step that changes one room to a consistent one, lets clients learn and
\* tells nobody anything that is not stored, keeps the invariant.
LEMMA LearningStep ==
    ASSUME RoomInv, NEW s \in Servers, NEW m \in Room,
           CommandFits(m), KnowsPrefix(m), OperationFits(m), WriterCurrent(m),
           PeersFollow(m)',
           UNCHANGED storeVars,
           room' = [room EXCEPT ![s] = m],
           m.gen = room[s].gen \/ m.gen = 0,
           \/ nextOp' = nextOp /\ (m.op = room[s].op \/ m.op = 0)
           \/ nextOp' = nextOp + 1 /\ m.op = nextOp + 1,
           lock' \in Servers \cup {NoServer},
           doc' \in [Clients -> SUBSET Updates],
           \A c \in Clients : doc[c] \subseteq doc'[c],
           used' \subseteq Updates, faults' \in Nat,
           acked' \subseteq History(tail), shown' \subseteq History(tail)
    PROVE  RoomInv'
<1>1. nextOp' \in Nat /\ nextOp <= nextOp' /\ nextOp \in Nat
  BY DEF RoomInv, TypeOK, RoomTypeOK
<1>2. History(tail) \subseteq Updates
  BY HistoryType DEF RoomInv, TypeOK
<1>3. room \in [Servers -> Room] /\ room' \in [Servers -> Room]
  BY DEF RoomInv, TypeOK, RoomTypeOK
<1>4. TypeOK'
  BY <1>1, <1>2, <1>3 DEF RoomInv, TypeOK, StoreTypeOK, RoomTypeOK, storeVars
<1>5. (\A n : History(n)' = History(n)) /\ (\A o : ReceiptOf(o)' = ReceiptOf(o))
      /\ (\A i : RestoreOf(i)' = RestoreOf(i))
  BY DEF History, Payloads, ReceiptOf, RestoreOf, storeVars
<1>6. StoreConsistent'
  <2>1. snapshot' = History(cutoff)'
    BY <1>5 DEF RoomInv, StoreConsistent, storeVars, History, Payloads
  <2>2. \A x \in receipts : x.op \in 1..nextOp'
    BY <1>1 DEF RoomInv, StoreConsistent
  <2>. QED  BY <2>1, <2>2 DEF RoomInv, StoreConsistent, storeVars
<1>7. ASSUME NEW n \in Room, RoomConsistent(n) PROVE RoomConsistent(n)'
  <2>1. CommandFits(n)'
    BY <1>7 DEF RoomConsistent, CommandFits
  <2>2. KnowsPrefix(n)'
    BY <1>7, <1>5 DEF RoomConsistent, KnowsPrefix, storeVars
  <2>3. OperationFits(n)' /\ WriterCurrent(n)'
    BY <1>7, <1>5 DEF RoomConsistent, OperationFits, WriterCurrent, storeVars
  <2>4. PeersFollow(n)'
    <3>1. \A c \in n.synced : c \in Clients
      BY DEF Room
    <3>. QED  BY <1>7, <3>1 DEF RoomConsistent, PeersFollow, storeVars
  <2>. QED  BY <2>1, <2>2, <2>3, <2>4 DEF RoomConsistent
<1>8. ASSUME NEW t \in Servers PROVE RoomConsistent(room[t])'
  <2>1. CASE t # s
    <3>1. PICK n \in Room : n = room[t]
      BY <1>3
    <3>2. n = room'[t] /\ RoomConsistent(n)
      BY <2>1, <3>1, <1>3 DEF RoomInv
    <3>3. RoomConsistent(n)'
      BY <1>7, <3>2
    <3>. QED  BY <3>2, <3>3
  <2>2. CASE t = s
    <3>1. room'[t] = m
      BY <2>2, <1>3
    <3>2. CommandFits(m)'
      BY DEF CommandFits
    <3>3. KnowsPrefix(m)'
      BY <1>5 DEF KnowsPrefix, storeVars
    <3>4. OperationFits(m)' /\ WriterCurrent(m)'
      BY <1>5 DEF OperationFits, WriterCurrent, storeVars
    <3>5. RoomConsistent(m)'
      BY <3>2, <3>3, <3>4 DEF RoomConsistent
    <3>. QED  BY <3>1, <3>5
  <2>. QED  BY <2>1, <2>2
<1>9. OwnersDistinct'
  <2>1. \A t \in Servers : room[t].op \in Nat /\ room[t].op <= nextOp
    BY <1>3 DEF RoomInv, OwnersDistinct, Room
  <2>2. m.op \in Nat /\ m.op <= nextOp'
    BY <1>1, <2>1 DEF Room
  <2>3. \A t \in Servers : room'[t] = IF t = s THEN m ELSE room[t]
    BY <1>3
  <2>4. \A t \in Servers : room'[t].op <= nextOp'
    BY <1>1, <2>1, <2>2, <2>3
  <2>5. ASSUME NEW t \in Servers, NEW v \in Servers, t # v
        PROVE  /\ room'[t].gen = room'[v].gen => room'[t].gen = 0
               /\ room'[t].op = room'[v].op => room'[t].op = 0
    BY <2>5, <1>1, <2>1, <2>2, <2>3 DEF RoomInv, OwnersDistinct
  <2>. QED  BY <2>4, <2>5 DEF OwnersDistinct
<1>10. acked' \subseteq History(tail)' /\ shown' \subseteq History(tail)'
  BY <1>5 DEF storeVars, History, Payloads
<1>. QED  BY <1>4, <1>6, <1>8, <1>9, <1>10 DEF RoomInv

\* The same, when the room is consistent before the clients learn.
LEMMA StoreKept ==
    ASSUME RoomInv, NEW s \in Servers, NEW m \in Room, RoomConsistent(m),
           UNCHANGED storeVars,
           room' = [room EXCEPT ![s] = m],
           m.gen = room[s].gen \/ m.gen = 0,
           \/ nextOp' = nextOp /\ (m.op = room[s].op \/ m.op = 0)
           \/ nextOp' = nextOp + 1 /\ m.op = nextOp + 1,
           lock' \in Servers \cup {NoServer},
           doc' \in [Clients -> SUBSET Updates],
           \A c \in Clients : doc[c] \subseteq doc'[c],
           used' \subseteq Updates, faults' \in Nat,
           acked' \subseteq History(tail), shown' \subseteq History(tail)
    PROVE  RoomInv'
<1>1. \A c \in m.synced : c \in Clients
  BY DEF Room
<1>2. PeersFollow(m)'
  BY <1>1 DEF RoomConsistent, PeersFollow, storeVars
<1>. QED  BY <1>2, LearningStep DEF RoomConsistent

\* The same for a step that tells nobody anything.
LEMMA QuietStep ==
    ASSUME RoomInv, NEW s \in Servers, NEW m \in Room, RoomConsistent(m),
           UNCHANGED storeVars,
           room' = [room EXCEPT ![s] = m],
           m.gen = room[s].gen \/ m.gen = 0,
           m.op = room[s].op \/ m.op = 0,
           lock' \in Servers \cup {NoServer}, faults' \in Nat,
           UNCHANGED <<doc, used, acked, shown, nextOp>>
    PROVE  RoomInv'
<1>1. /\ doc' \in [Clients -> SUBSET Updates] /\ \A c \in Clients : doc[c] \subseteq doc'[c]
      /\ used' \subseteq Updates /\ nextOp' = nextOp
      /\ acked' \subseteq History(tail) /\ shown' \subseteq History(tail)
  BY DEF RoomInv, TypeOK, RoomTypeOK
<1>. QED  BY <1>1, StoreKept

\* What the invariant says of one room, and the types the steps need.
LEMMA RoomOf ==
    ASSUME RoomInv, NEW s \in Servers
    PROVE  /\ room[s] \in Room /\ RoomConsistent(room[s])
           /\ StoreTypeOK /\ StoreConsistent
           /\ lock \in Servers \cup {NoServer} /\ faults \in Nat /\ nextOp \in Nat
           /\ tail \in Nat /\ generation \in Nat
BY DEF RoomInv, TypeOK, StoreTypeOK, RoomTypeOK

\* A finished command is a quiet step.
LEMMA RestStep ==
    ASSUME RoomInv, NEW s \in Servers, NEW x, Rested(x),
           UNCHANGED storeVars,
           room' = [room EXCEPT ![s] = Idle(x)],
           x.gen = room[s].gen \/ x.gen = 0,
           lock' \in Servers \cup {NoServer}, faults' \in Nat,
           UNCHANGED <<doc, used, acked, shown, nextOp>>
    PROVE  RoomInv'
<1>. DEFINE m == Idle(x)
<1>1. x \in Room
  BY DEF Rested
<1>2. m = [Idle(x) EXCEPT !.pc = "ready"]
  BY <1>1, IdleReady
<1>3. m \in Room /\ RoomConsistent(m) /\ m.gen = x.gen /\ m.op = 0
  BY <1>2, IdleConsistent
<1>. HIDE DEF m
<1>4. room' = [room EXCEPT ![s] = m] BY DEF m
<1>. QED  BY <1>3, <1>4, QuietStep

\* A room that was idle stays one when what it rests on changes.
LEMMA ReadyConsistent ==
    ASSUME NEW r, RoomConsistent(r), r.pc = "ready", NEW x, Rested(x),
           x.pc = "ready", x.kind = r.kind, x.intent = r.intent, x.op = r.op
    PROVE  RoomConsistent(x)
BY DEF Rested, RoomConsistent, CommandFits, KnowsPrefix, OperationFits,
       WriterCurrent, PeersFollow

\* A new room and a room that is gone know the empty history.
LEMMA NewRoomConsistent ==
    ASSUME RoomInv, NEW pc \in {"absent", "ready"}
    PROVE  /\ NewRoom(pc) \in Room /\ RoomConsistent(NewRoom(pc))
           /\ NewRoom(pc).gen = 0 /\ NewRoom(pc).op = 0
<1>1. \A u : u \notin History(0)
  <2>1. \A x \in receipts : x.seq \in Nat /\ x.seq > 0
    BY DEF RoomInv, StoreConsistent, TypeOK, StoreTypeOK
  <2>. QED  BY <2>1, HistoryMember
<1>2. History(0) = {}
  BY <1>1
<1>3. NewRoom(pc) \in Room
  BY DEF NewRoom, Room, Command
<1>4. tail \in Nat /\ generation \in Nat
  BY DEF RoomInv, TypeOK, StoreTypeOK
<1>. QED  BY <1>2, <1>3, <1>4 DEF NewRoom, RoomConsistent, CommandFits, KnowsPrefix,
             OperationFits, WriterCurrent, PeersFollow, Forward

\* The end of a room, for whatever reason.
LEMMA EndRoomKept ==
    ASSUME RoomInv, NEW s \in Servers, EndRoom(s), faults' \in Nat,
           UNCHANGED <<storeVars, doc, used, acked, shown, nextOp>>
    PROVE  RoomInv'
<1>1. lock' \in Servers \cup {NoServer}
  BY DEF EndRoom, RoomInv, TypeOK, RoomTypeOK
<1>. QED  BY <1>1, NewRoomConsistent, QuietStep DEF EndRoom, SetRoom

\* Rooms that come and go, connections that break.
LEMMA LifecycleKept ==
    ASSUME RoomInv, NEW s \in Servers,
           \/ StartRoom(s) \/ StopRoom(s) \/ Crash(s) \/ LoseLock(s) \/ AppendFenceLost(s)
    PROVE  RoomInv'
<1>1. CASE StartRoom(s)
  BY <1>1, NewRoomConsistent, QuietStep, RoomOf DEF StartRoom, SetRoom
<1>2. CASE StopRoom(s)
  BY <1>2, EndRoomKept, RoomOf DEF StopRoom
<1>3. CASE Crash(s)
  BY <1>3, EndRoomKept, RoomOf DEF Crash, Fault
<1>4. CASE AppendFenceLost(s)
  BY <1>4, EndRoomKept, RoomOf DEF AppendFenceLost
<1>5. CASE LoseLock(s)
  <2>1. PICK m \in Room : m = room[s] /\ RoomConsistent(m)
    BY RoomOf
  <2>2. room' = [room EXCEPT ![s] = m]
    BY <1>5, <2>1 DEF LoseLock, RoomInv, TypeOK, RoomTypeOK
  <2>3. /\ lock' \in Servers \cup {NoServer} /\ faults' \in Nat
        /\ UNCHANGED <<doc, used, acked, shown, nextOp>> /\ UNCHANGED storeVars
    BY <1>5, RoomOf DEF LoseLock, Fault
  <2>. QED  BY <2>1, <2>2, <2>3, QuietStep
<1>. QED  BY <1>1, <1>2, <1>3, <1>4, <1>5

\* Engine faults and refreshes of an idle room.
LEMMA ReadyKept ==
    ASSUME RoomInv, NEW s \in Servers, EngineFault(s) \/ Refresh(s)
    PROVE  RoomInv'
<1>. DEFINE r == room[s]
<1>1. r \in Room /\ RoomConsistent(r) /\ r.pc = "ready"
  BY RoomOf DEF EngineFault, Refresh
<1>2. Rested(r)
  BY <1>1, ConsistentRests
<1>3. CASE EngineFault(s)
  <2>1. Rested(Unloaded(r))
    BY <1>2, UnloadedRests
  <2>2. Unloaded(r).pc = "ready" /\ Unloaded(r).kind = r.kind
        /\ Unloaded(r).intent = r.intent /\ Unloaded(r).op = r.op /\ Unloaded(r).gen = r.gen
    BY <1>1 DEF Unloaded, Room
  <2>3. Unloaded(r) \in Room /\ RoomConsistent(Unloaded(r))
    BY <1>1, <2>1, <2>2, ReadyConsistent DEF Rested
  <2>4. /\ room' = [room EXCEPT ![s] = Unloaded(r)]
        /\ lock' \in Servers \cup {NoServer} /\ faults' \in Nat
        /\ UNCHANGED <<doc, used, acked, shown, nextOp>> /\ UNCHANGED storeVars
    BY <1>3, RoomOf DEF EngineFault, SetRoom, Fault
  <2>. QED  BY <2>2, <2>3, <2>4, QuietStep
<1>4. CASE Refresh(s)
  <2>. DEFINE x == Reloaded(Committed(r))
  <2>1. Rested(x)
    BY <1>2, LoadedRests, RoomOf
  <2>2. x.pc = "ready" /\ x.kind = r.kind /\ x.intent = r.intent /\ x.op = r.op /\ x.gen = r.gen
    BY <1>1 DEF Reloaded, Committed, Room
  <2>. HIDE DEF x
  <2>3. x \in Room /\ RoomConsistent(x)
    BY <1>1, <2>1, <2>2, ReadyConsistent DEF Rested
  <2>4. room' = [room EXCEPT ![s] = x]
    BY <1>4 DEF Refresh, SetRoom, x
  <2>. QED  BY <1>4, <2>2, <2>3, <2>4, QuietStep, RoomOf DEF Refresh
<1>. QED  BY <1>3, <1>4

\* A connection may break at any point of a command.
LEMMA DisconnectKept ==
    ASSUME RoomInv, NEW s \in Servers, NEW c \in Clients, Disconnect(s, c)
    PROVE  RoomInv'
<1>. DEFINE r == room[s]
            x == Close(r, c)
<1>1. r \in Room /\ RoomConsistent(r)
  BY RoomOf
<1>2. x \in Room
  BY <1>1 DEF Close, Room
<1>3. /\ x.pc = r.pc /\ x.gen = r.gen /\ x.tail = r.tail /\ x.known = r.known
      /\ x.primary = r.primary /\ x.clean = r.clean /\ x.kind = r.kind /\ x.op = r.op
      /\ x.payload = r.payload /\ x.intent = r.intent
      /\ x.synced = r.synced \ {c} /\ x.conns = r.conns \ {c} /\ x.who = r.who
  BY <1>1 DEF Close, Room
<1>4. room' = [room EXCEPT ![s] = x]
  BY DEF Disconnect, SetRoom
<1>. HIDE DEF x
<1>5. RoomConsistent(x)
  BY <1>1, <1>3 DEF RoomConsistent, CommandFits, KnowsPrefix, OperationFits,
                    WriterCurrent, PeersFollow
<1>. QED  BY <1>2, <1>3, <1>4, <1>5, QuietStep, RoomOf DEF Disconnect

\* A command that has its writer continues consistently.
LEMMA PreparedConsistent ==
    ASSUME NEW r, Rested(r), r.clean, r.gen # 0,
           r.kind \in {"join", "replace", "restore"},
           r.kind = "join" => r.who \in Clients,
           r.kind = "restore" <=> r.intent # NoIntent,
           r.op # 0 <=> r.kind \in Forward,
           ReceiptOf(r.op) = {}
    PROVE  /\ Prepared(r) \in Room /\ RoomConsistent(Prepared(r))
           /\ Prepared(r).gen = r.gen
           /\ Prepared(r).op = r.op \/ Prepared(r).op = 0
<1>. DEFINE m == Prepared(r)
<1>1. r \in Room
  BY DEF Rested
<1>2. CASE r.kind = "join" /\ r.tail = 0
  <2>. DEFINE x == [r EXCEPT !.conns = @ \cup {r.who}]
  <2>1. m = Idle(x)
    BY <1>2 DEF Prepared, Admit
  <2>2. Rested(x) /\ x.gen = r.gen
    BY <1>1, <1>2 DEF Rested, Room
  <2>3. Idle(x) = [Idle(x) EXCEPT !.pc = "ready"]
    BY <2>2, IdleReady DEF Rested
  <2>. HIDE DEF x
  <2>. QED  BY <2>1, <2>2, <2>3, IdleConsistent
<1>3. CASE r.kind = "join" /\ r.tail > 0
  <2>. DEFINE x == [r EXCEPT !.pc = "project", !.seq = r.tail]
  <2>1. m = x
    BY <1>1, <1>3 DEF Prepared, Room
  <2>2. x \in Room
    BY <1>1 DEF Room
  <2>3. /\ x.pc = "project" /\ x.who = r.who /\ x.gen = r.gen
        /\ x.tail = r.tail /\ x.known = r.known
        /\ x.primary = r.primary /\ x.clean = r.clean /\ x.kind = r.kind /\ x.op = r.op
        /\ x.payload = r.payload /\ x.intent = r.intent /\ x.synced = r.synced /\ x.conns = r.conns
    BY <1>1 DEF Room
  <2>. HIDE DEF x
  <2>4. RoomConsistent(x)
    BY <1>3, <2>3 DEF Rested, RoomConsistent, CommandFits, KnowsPrefix, OperationFits,
                      WriterCurrent, PeersFollow, Forward
  <2>. QED  BY <2>1, <2>2, <2>3, <2>4
<1>4. CASE r.kind = "replace"
  <2>. DEFINE x == [r EXCEPT !.pc = "append"]
  <2>1. m = x
    BY <1>4 DEF Prepared
  <2>2. x \in Room
    BY <1>1 DEF Room
  <2>3. /\ x.pc = "append" /\ x.gen = r.gen /\ x.tail = r.tail /\ x.known = r.known
        /\ x.primary = r.primary /\ x.clean = r.clean /\ x.kind = r.kind /\ x.op = r.op
        /\ x.payload = r.payload /\ x.intent = r.intent /\ x.synced = r.synced /\ x.conns = r.conns
    BY <1>1 DEF Room
  <2>. HIDE DEF x
  <2>4. RoomConsistent(x)
    BY <1>4, <2>3 DEF Rested, RoomConsistent, CommandFits, KnowsPrefix, OperationFits,
                      WriterCurrent, PeersFollow, Forward
  <2>. QED  BY <2>1, <2>2, <2>3, <2>4
<1>5. CASE r.kind = "restore"
  <2>. DEFINE x == [r EXCEPT !.pc = "lookup"]
  <2>1. m = x
    BY <1>5 DEF Prepared
  <2>2. x \in Room
    BY <1>1 DEF Room
  <2>3. /\ x.pc = "lookup" /\ x.gen = r.gen /\ x.tail = r.tail /\ x.known = r.known
        /\ x.primary = r.primary /\ x.clean = r.clean /\ x.kind = r.kind /\ x.op = r.op
        /\ x.payload = r.payload /\ x.intent = r.intent /\ x.synced = r.synced /\ x.conns = r.conns
    BY <1>1 DEF Room
  <2>. HIDE DEF x
  <2>4. RoomConsistent(x)
    BY <1>5, <2>3 DEF Rested, RoomConsistent, CommandFits, KnowsPrefix, OperationFits,
                      WriterCurrent, PeersFollow, Forward
  <2>. QED  BY <2>1, <2>2, <2>3, <2>4
<1>6. r.tail = 0 \/ r.tail > 0
  BY <1>1 DEF Room
<1>. QED  BY <1>2, <1>3, <1>4, <1>5, <1>6

\* A command begins consistently, whether or not the room is a writer yet.
LEMMA BeginConsistent ==
    ASSUME NEW r, Rested(r),
           r.kind \in {"join", "replace", "restore"},
           r.kind = "join" => r.who \in Clients,
           r.kind = "restore" <=> r.intent # NoIntent,
           r.op # 0 <=> r.kind \in Forward,
           ReceiptOf(r.op) = {}
    PROVE  /\ Begin(r) \in Room /\ RoomConsistent(Begin(r))
           /\ Begin(r).gen = r.gen
           /\ Begin(r).op = r.op \/ Begin(r).op = 0
<1>1. r \in Room
  BY DEF Rested
<1>2. CASE r.gen = 0
  <2>. DEFINE x == [r EXCEPT !.pc = "claim"]
  <2>1. Begin(r) = x
    BY <1>2 DEF Begin
  <2>2. x \in Room
    BY <1>1 DEF Room
  <2>3. /\ x.pc = "claim" /\ x.who = r.who /\ x.gen = r.gen
        /\ x.tail = r.tail /\ x.known = r.known
        /\ x.primary = r.primary /\ x.clean = r.clean /\ x.kind = r.kind /\ x.op = r.op
        /\ x.payload = r.payload /\ x.intent = r.intent /\ x.synced = r.synced /\ x.conns = r.conns
    BY <1>1 DEF Room
  <2>. HIDE DEF x
  <2>4. RoomConsistent(x)
    BY <1>2, <2>3 DEF Rested, RoomConsistent, CommandFits, KnowsPrefix, OperationFits,
                      WriterCurrent, PeersFollow, Forward
  <2>. QED  BY <2>1, <2>2, <2>3, <2>4
<1>3. CASE r.gen # 0
  <2>. DEFINE x == Ensured(r)
  <2>1. Rested(x) /\ x.clean
    BY EnsuredRests
  <2>2. /\ x.gen = r.gen /\ x.kind = r.kind /\ x.who = r.who /\ x.intent = r.intent
        /\ x.op = r.op
    BY <1>1 DEF Ensured, Reloaded, Room
  <2>3. Begin(r) = Prepared(x)
    BY <1>3 DEF Begin
  <2>. HIDE DEF x
  <2>. QED  BY <1>3, <2>1, <2>2, <2>3, PreparedConsistent
<1>. QED  BY <1>2, <1>3

\* No receipt carries an operation id that was not given out, nor 0.
LEMMA FreshOperation ==
    ASSUME RoomInv
    PROVE  ReceiptOf(0) = {} /\ ReceiptOf(nextOp + 1) = {}
<1>1. \A x \in receipts : x.op \in Nat /\ x.op > 0 /\ x.op <= nextOp
  BY DEF RoomInv, StoreConsistent, TypeOK, RoomTypeOK
<1>2. nextOp \in Nat
  BY DEF RoomInv, TypeOK, RoomTypeOK
<1>. QED  BY <1>1, <1>2 DEF ReceiptOf

\* Writers and readers that join.
LEMMA JoinKept ==
    ASSUME RoomInv, NEW s \in Servers, NEW c \in Clients,
           JoinWriter(s, c) \/ JoinReader(s, c)
    PROVE  RoomInv'
<1>. DEFINE r == room[s]
<1>1. r \in Room /\ RoomConsistent(r) /\ r.pc = "ready"
  BY RoomOf DEF JoinWriter, JoinReader
<1>2. Rested(r)
  BY <1>1, ConsistentRests
<1>3. /\ lock' \in Servers \cup {NoServer} /\ faults' \in Nat
      /\ UNCHANGED <<doc, used, acked, shown, nextOp>> /\ UNCHANGED storeVars
  BY RoomOf DEF JoinWriter, JoinReader
<1>4. CASE JoinReader(s, c)
  <2>. DEFINE l == IF r.gen = 0 THEN Reloaded(Committed(r)) ELSE Ensured(r)
              x == [l EXCEPT !.conns = @ \cup {c}]
  <2>1. Rested(l) /\ l.gen = r.gen
    <3>1. Rested(Reloaded(Committed(r))) /\ Rested(Ensured(r))
      BY <1>2, LoadedRests, EnsuredRests, RoomOf
    <3>2. Reloaded(Committed(r)).gen = r.gen /\ Ensured(r).gen = r.gen
      BY <1>1 DEF Ensured, Reloaded, Committed, Room
    <3>. QED  BY <3>1, <3>2
  <2>2. room' = [room EXCEPT ![s] = Idle(x)]
    BY <1>4 DEF JoinReader, SetRoom, Admit
  <2>. HIDE DEF l
  <2>3. Rested(x) /\ x.gen = r.gen
    BY <2>1 DEF Rested, Room
  <2>. HIDE DEF x
  <2>. QED  BY <1>3, <2>2, <2>3, RestStep
<1>5. CASE JoinWriter(s, c)
  <2>. DEFINE x == [r EXCEPT !.kind = "join", !.who = c]
  <2>1. /\ Rested(x) /\ x.kind = "join" /\ x.who = c /\ x.gen = r.gen /\ x.op = r.op
        /\ x.intent = r.intent
    BY <1>1, <1>2 DEF Rested, Room, Command
  <2>2. r.op = 0 /\ r.intent = NoIntent
    BY <1>1 DEF RoomConsistent, CommandFits, OperationFits, Forward
  <2>3. room' = [room EXCEPT ![s] = Begin(x)]
    BY <1>5 DEF JoinWriter, SetRoom
  <2>. HIDE DEF x
  <2>4. x.op # 0 <=> x.kind \in Forward
    BY <2>1, <2>2 DEF Forward
  <2>5. /\ Begin(x) \in Room /\ RoomConsistent(Begin(x))
        /\ Begin(x).gen = r.gen /\ Begin(x).op = 0
    BY <2>1, <2>2, <2>4, BeginConsistent, FreshOperation
  <2>. QED  BY <1>3, <2>3, <2>5, QuietStep
<1>. QED  BY <1>4, <1>5

\* A room that only moves to its next call.
LEMMA Moved ==
    ASSUME NEW r \in Room, NEW q \in {"append", "verify", "replay", "diverge"}
    PROVE  LET m == [r EXCEPT !.pc = q]
           IN  /\ m \in Room /\ m.pc = q /\ m.gen = r.gen /\ m.tail = r.tail
               /\ m.known = r.known /\ m.primary = r.primary /\ m.clean = r.clean
               /\ m.kind = r.kind /\ m.op = r.op /\ m.payload = r.payload
               /\ m.intent = r.intent /\ m.synced = r.synced /\ m.conns = r.conns
BY DEF Room

\* A client's update is applied to the engine before it is appended.
LEMMA UpdateKept ==
    ASSUME RoomInv, NEW s \in Servers, NEW c \in Clients, NEW p \in SUBSET Updates,
           ReceiveUpdate(s, c, p)
    PROVE  RoomInv'
<1>. DEFINE r == Ensured(room[s])
            m == [r EXCEPT !.pc = "append", !.kind = "update", !.who = c,
                           !.op = nextOp + 1, !.payload = p,
                           !.primary = @ \cup p, !.clean = FALSE]
<1>1. room[s] \in Room /\ RoomConsistent(room[s]) /\ room[s].pc = "ready"
  <2>1. room[s] \in Room /\ RoomConsistent(room[s])
    BY RoomOf
  <2>2. r.pc = room[s].pc
    BY <2>1 DEF Ensured, Reloaded, Room
  <2>. QED  BY <2>1, <2>2 DEF ReceiveUpdate
<1>2. Rested(r) /\ r.clean
  BY <1>1, ConsistentRests, EnsuredRests
<1>3. r.gen = room[s].gen /\ r.intent = NoIntent /\ r.gen # 0
  <2>1. room[s].intent = NoIntent
    BY <1>1 DEF RoomConsistent, CommandFits
  <2>2. r.gen = room[s].gen /\ r.intent = room[s].intent
    BY <1>1 DEF Ensured, Reloaded, Room
  <2>. QED  BY <2>1, <2>2 DEF ReceiveUpdate
<1>4. /\ room' = [room EXCEPT ![s] = m] /\ nextOp' = nextOp + 1
      /\ UNCHANGED storeVars /\ UNCHANGED <<lock, doc, used, acked, shown, faults>>
  BY DEF ReceiveUpdate, SetRoom
<1>5. nextOp \in Nat
  BY RoomOf
<1>. HIDE DEF r
<1>6. r \in Room /\ r.primary = r.known
  BY <1>2 DEF Rested
<1>7. m \in Room
  <2>1. /\ nextOp + 1 \in Nat /\ r.primary \cup p \in SUBSET Updates
        /\ "update" \in Command /\ c \in Clients \cup {NoClient}
    BY <1>5, <1>6 DEF Room, Command
  <2>2. m = [r EXCEPT !.pc = "append", !.kind = "update", !.who = c, !.op = nextOp + 1,
                      !.payload = p, !.primary = r.primary \cup p, !.clean = FALSE]
    OBVIOUS
  <2>. QED  BY <1>6, <2>1, <2>2 DEF Room
<1>8. /\ m.pc = "append" /\ m.gen = r.gen /\ m.tail = r.tail /\ m.known = r.known
      /\ m.primary = r.known \cup p /\ m.clean = FALSE /\ m.kind = "update"
      /\ m.op = nextOp + 1 /\ m.payload = p /\ m.intent = r.intent /\ m.synced = r.synced /\ m.conns = r.conns
  BY <1>6 DEF Room
<1>. HIDE DEF m
<1>9. RoomConsistent(m)
  <2>1. ReceiptOf(m.op) = {}
    BY <1>8, FreshOperation
  <2>2. m.op # 0
    BY <1>8, <1>5
  <2>. QED  BY <1>2, <1>3, <1>8, <2>1, <2>2 DEF Rested, RoomConsistent, CommandFits,
               KnowsPrefix, OperationFits, WriterCurrent, PeersFollow, Forward
<1>10. /\ doc' \in [Clients -> SUBSET Updates] /\ \A d \in Clients : doc[d] \subseteq doc'[d]
       /\ used' \subseteq Updates /\ lock' \in Servers \cup {NoServer} /\ faults' \in Nat
       /\ acked' \subseteq History(tail) /\ shown' \subseteq History(tail)
  BY <1>4 DEF RoomInv, TypeOK, RoomTypeOK
<1>. QED  BY <1>3, <1>4, <1>7, <1>8, <1>9, <1>10, StoreKept

\* Replacements and restores begin.
LEMMA ForwardKept ==
    ASSUME RoomInv, NEW s \in Servers, NEW u \in Updates,
           ReplaceBody(s, u) \/ \E i \in Intents : Restore(s, i, u)
    PROVE  RoomInv'
<1>. DEFINE r == room[s]
<1>1. r \in Room /\ RoomConsistent(r) /\ r.pc = "ready"
  BY RoomOf DEF ReplaceBody, Restore
<1>2. Rested(r)
  BY <1>1, ConsistentRests
<1>3. r.intent = NoIntent
  BY <1>1 DEF RoomConsistent, CommandFits
<1>4. nextOp \in Nat
  BY RoomOf
<1>5. ASSUME NEW x, Rested(x), x.kind \in Forward, x.op = nextOp + 1, x.gen = r.gen,
             x.kind = "restore" <=> x.intent # NoIntent,
             room' = [room EXCEPT ![s] = Begin(x)], nextOp' = nextOp + 1,
             used' = used \cup {u},
             UNCHANGED storeVars, UNCHANGED <<lock, doc, acked, shown, faults>>
      PROVE  RoomInv'
  <2>1. x.op # 0 /\ x.kind \in {"replace", "restore"} /\ ReceiptOf(x.op) = {}
    BY <1>5, <1>4, FreshOperation DEF Forward
  <2>2. /\ Begin(x) \in Room /\ RoomConsistent(Begin(x)) /\ Begin(x).gen = r.gen
        /\ Begin(x).op = nextOp + 1 \/ Begin(x).op = 0
    BY <1>5, <2>1, BeginConsistent
  <2>3. Begin(x).op = nextOp + 1
    <3>1. x \in Room
      BY <1>5 DEF Rested
    <3>2. Ensured(x).kind = x.kind /\ Ensured(x).op = x.op /\ Ensured(x) \in Room
      BY <3>1 DEF Ensured, Reloaded, Room
    <3>3. Prepared(Ensured(x)).op = Ensured(x).op
      BY <3>2, <2>1 DEF Prepared, Room
    <3>. QED  BY <3>1, <3>2, <3>3, <1>5 DEF Begin, Room
  <2>4. /\ doc' \in [Clients -> SUBSET Updates] /\ \A d \in Clients : doc[d] \subseteq doc'[d]
        /\ used' \subseteq Updates /\ lock' \in Servers \cup {NoServer} /\ faults' \in Nat
        /\ acked' \subseteq History(tail) /\ shown' \subseteq History(tail)
    BY <1>5 DEF RoomInv, TypeOK, RoomTypeOK
  <2>. QED  BY <1>5, <2>2, <2>3, <2>4, StoreKept
<1>6. CASE ReplaceBody(s, u)
  <2>. DEFINE x == [r EXCEPT !.kind = "replace", !.op = nextOp + 1, !.payload = {u}]
  <2>1. /\ Rested(x) /\ x.kind = "replace" /\ x.op = nextOp + 1 /\ x.gen = r.gen
        /\ x.intent = r.intent
    <3>1. nextOp + 1 \in Nat /\ "replace" \in Command /\ {u} \in SUBSET Updates
      BY <1>4 DEF Command
    <3>2. x \in Room
      BY <1>1, <3>1 DEF Room
    <3>3. /\ x.kind = "replace" /\ x.op = nextOp + 1 /\ x.gen = r.gen /\ x.intent = r.intent
          /\ x.tail = r.tail /\ x.known = r.known /\ x.primary = r.primary
          /\ x.clean = r.clean /\ x.synced = r.synced /\ x.conns = r.conns
      BY <1>1 DEF Room
    <3>. HIDE DEF x
    <3>. QED  BY <1>2, <3>2, <3>3 DEF Rested
  <2>2. /\ room' = [room EXCEPT ![s] = Begin(x)] /\ nextOp' = nextOp + 1
        /\ used' = used \cup {u}
        /\ UNCHANGED storeVars /\ UNCHANGED <<lock, doc, acked, shown, faults>>
    BY <1>6 DEF ReplaceBody, SetRoom
  <2>. HIDE DEF x
  <2>. QED  BY <1>3, <1>5, <2>1, <2>2 DEF Forward
<1>7. CASE \E i \in Intents : Restore(s, i, u)
  <2>1. PICK i \in Intents : Restore(s, i, u)
    BY <1>7
  <2>. DEFINE x == [r EXCEPT !.kind = "restore", !.op = nextOp + 1, !.payload = {u},
                             !.intent = i]
  <2>2. /\ Rested(x) /\ x.kind = "restore" /\ x.op = nextOp + 1 /\ x.gen = r.gen
        /\ x.intent = i
    <3>1. nextOp + 1 \in Nat /\ "restore" \in Command /\ {u} \in SUBSET Updates
      BY <1>4 DEF Command
    <3>2. x \in Room
      BY <1>1, <3>1 DEF Room
    <3>3. /\ x.kind = "restore" /\ x.op = nextOp + 1 /\ x.gen = r.gen /\ x.intent = i
          /\ x.tail = r.tail /\ x.known = r.known /\ x.primary = r.primary
          /\ x.clean = r.clean /\ x.synced = r.synced /\ x.conns = r.conns
      BY <1>1 DEF Room
    <3>. HIDE DEF x
    <3>. QED  BY <1>2, <3>2, <3>3 DEF Rested
  <2>3. /\ room' = [room EXCEPT ![s] = Begin(x)] /\ nextOp' = nextOp + 1
        /\ used' = used \cup {u}
        /\ UNCHANGED storeVars /\ UNCHANGED <<lock, doc, acked, shown, faults>>
    BY <2>1 DEF Restore, SetRoom
  <2>. HIDE DEF x
  <2>4. i # NoIntent
    BY StoreAssumption
  <2>. QED  BY <1>5, <2>2, <2>3, <2>4 DEF Forward
<1>. QED  BY <1>6, <1>7

\* What a room knows is stored.
LEMMA KnownStored ==
    ASSUME RoomInv, NEW r \in Room, r.tail <= tail, r.known = History(r.tail)
    PROVE  r.known \subseteq History(tail)
BY HistoryGrows, RoomOf DEF RoomInv, TypeOK, StoreTypeOK, Room

\* A client receives the engine's document, all of which is stored.
LEMMA SyncKept ==
    ASSUME RoomInv, NEW s \in Servers, NEW c \in Clients, Sync(s, c)
    PROVE  RoomInv'
<1>. DEFINE r == Ensured(room[s])
<1>1. room[s] \in Room /\ RoomConsistent(room[s])
  BY RoomOf
<1>2. /\ r.pc = room[s].pc /\ r.gen = room[s].gen /\ r.intent = room[s].intent
      /\ r.kind = room[s].kind /\ r.op = room[s].op
  BY <1>1 DEF Ensured, Reloaded, Room
<1>3. room[s].pc = "ready"
  BY <1>2 DEF Sync
<1>4. Rested(r) /\ r.clean
  BY <1>1, <1>3, ConsistentRests, EnsuredRests
<1>5. /\ room' = [room EXCEPT ![s] = [r EXCEPT !.synced = @ \cup {c}]]
      /\ doc' = [doc EXCEPT ![c] = @ \cup r.primary]
      /\ shown' = shown \cup r.primary /\ c \in r.conns
      /\ UNCHANGED storeVars /\ UNCHANGED <<lock, used, acked, nextOp, faults>>
  BY DEF Sync, SetRoom
<1>. HIDE DEF r
<1>6. r \in Room /\ r.primary = r.known /\ r.tail <= tail /\ r.known = History(r.tail)
  BY <1>4 DEF Rested
<1>7. r.primary \subseteq History(tail) /\ r.primary \subseteq Updates
  BY <1>6, KnownStored DEF Room
<1>8. PICK m \in Room : m = [r EXCEPT !.synced = @ \cup {c}]
  BY <1>6 DEF Room
<1>9. /\ m.pc = r.pc /\ m.gen = r.gen /\ m.tail = r.tail /\ m.known = r.known
      /\ m.primary = r.primary /\ m.clean = r.clean /\ m.kind = r.kind /\ m.op = r.op
      /\ m.payload = r.payload /\ m.intent = r.intent /\ m.synced = r.synced \cup {c}
      /\ m.conns = r.conns /\ c \in r.conns
  BY <1>5, <1>6, <1>8 DEF Room
<1>10. doc \in [Clients -> SUBSET Updates]
  BY DEF RoomInv, TypeOK, RoomTypeOK
<1>11. doc' \in [Clients -> SUBSET Updates] /\ \A d \in Clients : doc[d] \subseteq doc'[d]
  BY <1>5, <1>7, <1>10
<1>12. RoomConsistent(room[s]) /\ m.pc = "ready" /\ m.kind = room[s].kind
       /\ m.op = room[s].op /\ m.intent = room[s].intent /\ m.gen = room[s].gen
  BY <1>1, <1>2, <1>3, <1>9
<1>13. CommandFits(m) /\ KnowsPrefix(m) /\ OperationFits(m) /\ WriterCurrent(m)
  BY <1>3, <1>4, <1>9, <1>12 DEF Rested, RoomConsistent, CommandFits, KnowsPrefix,
     OperationFits, WriterCurrent
\* The client has what it was sent.
<1>14. PeersFollow(m)'
  <2>1. \A d \in r.synced : d \in Clients
    BY <1>6 DEF Room
  <2>2. r.known \subseteq doc'[c]
    BY <1>5, <1>6, <1>10
  <2>3. r.gen # 0 /\ r.gen = generation => \A d \in r.synced : r.known \subseteq doc[d]
    BY <1>4 DEF Rested
  <2>4. generation' = generation
    BY <1>5 DEF storeVars
  <2>5. ASSUME r.gen # 0, r.gen = generation, NEW d \in m.synced
        PROVE  r.known \subseteq doc'[d]
    BY <2>5, <1>9, <1>11, <2>1, <2>2, <2>3
  <2>6. m.synced \subseteq m.conns
    BY <1>4, <1>9 DEF Rested
  <2>. QED  BY <1>9, <2>4, <2>5, <2>6 DEF PeersFollow
<1>15. /\ used' \subseteq Updates /\ lock' \in Servers \cup {NoServer} /\ faults' \in Nat
       /\ acked' \subseteq History(tail) /\ shown' \subseteq History(tail)
  BY <1>5, <1>7 DEF RoomInv, TypeOK, RoomTypeOK
<1>16. /\ room' = [room EXCEPT ![s] = m] /\ UNCHANGED storeVars
       /\ nextOp' = nextOp /\ m.op = room[s].op /\ m.gen = room[s].gen
  BY <1>5, <1>8, <1>12
<1>. QED  BY <1>11, <1>13, <1>14, <1>15, <1>16, LearningStep

\* An edit of a client touches no room.
LEMMA EditKept ==
    ASSUME RoomInv, NEW c \in Clients, NEW u \in Updates, Edit(c, u)
    PROVE  RoomInv'
<1>1. /\ doc' \in [Clients -> SUBSET Updates] /\ \A d \in Clients : doc[d] \subseteq doc'[d]
      /\ used' \subseteq Updates
  BY DEF Edit, RoomInv, TypeOK, RoomTypeOK
<1>2. /\ UNCHANGED storeVars /\ room' = room /\ lock' = lock /\ nextOp' = nextOp
      /\ faults' = faults /\ acked' = acked /\ shown' = shown
  BY DEF Edit
<1>3. CASE Servers = {}
  <2>1. TypeOK'
    BY <1>1, <1>2 DEF RoomInv, TypeOK, StoreTypeOK, RoomTypeOK, storeVars
  <2>2. (\A n : History(n)' = History(n)) /\ tail' = tail /\ cutoff' = cutoff
    BY <1>2 DEF History, Payloads, storeVars
  <2>3. snapshot' = History(cutoff)'
    BY <1>2, <2>2 DEF RoomInv, StoreConsistent, storeVars, History, Payloads
  <2>4. StoreConsistent'
    BY <1>2, <2>3 DEF RoomInv, StoreConsistent, storeVars
  <2>5. acked' \subseteq History(tail)' /\ shown' \subseteq History(tail)'
    BY <1>2 DEF RoomInv, storeVars, History, Payloads
  <2>. QED  BY <1>3, <2>1, <2>4, <2>5 DEF RoomInv, OwnersDistinct
<1>4. ASSUME NEW s \in Servers PROVE RoomInv'
  <2>1. PICK m \in Room : m = room[s] /\ RoomConsistent(m)
    BY RoomOf
  <2>2. room' = [room EXCEPT ![s] = m]
    BY <1>2, <2>1 DEF RoomInv, TypeOK, RoomTypeOK
  <2>3. /\ lock' \in Servers \cup {NoServer} /\ faults' \in Nat
        /\ acked' \subseteq History(tail) /\ shown' \subseteq History(tail)
    BY <1>2 DEF RoomInv, TypeOK, RoomTypeOK
  <2>. QED  BY <1>1, <1>2, <2>1, <2>2, <2>3, StoreKept
<1>. QED  BY <1>3, <1>4

\* A finished command whose caller is told about what is stored.
LEMMA AnswerStep ==
    ASSUME RoomInv, NEW s \in Servers, NEW x, Rested(x), NEW pc \in {"ready", "persist"},
           UNCHANGED storeVars,
           room' = [room EXCEPT ![s] = [Idle(x) EXCEPT !.pc = pc]],
           x.gen = room[s].gen \/ x.gen = 0,
           faults' \in Nat, acked' \subseteq History(tail),
           UNCHANGED <<lock, doc, used, shown, nextOp>>
    PROVE  RoomInv'
<1>1. PICK m \in Room : /\ m = [Idle(x) EXCEPT !.pc = pc]
                        /\ RoomConsistent(m) /\ m.gen = x.gen /\ m.op = 0
  BY IdleConsistent
<1>2. /\ doc' \in [Clients -> SUBSET Updates] /\ \A d \in Clients : doc[d] \subseteq doc'[d]
      /\ used' \subseteq Updates /\ lock' \in Servers \cup {NoServer}
      /\ shown' \subseteq History(tail) /\ nextOp' = nextOp
  BY DEF RoomInv, TypeOK, RoomTypeOK
<1>3. room' = [room EXCEPT ![s] = m]
  BY <1>1
<1>. QED  BY <1>1, <1>2, <1>3, StoreKept

\* What a receipt carries is stored.
LEMMA ReceiptStored ==
    ASSUME RoomInv, NEW x \in receipts
    PROVE  x.payload \subseteq History(tail)
<1>1. x.seq <= tail
  BY DEF RoomInv, StoreConsistent, TypeOK, StoreTypeOK
<1>. QED  BY <1>1, HistoryMember

\* A retry of a restore is answered from its receipt.
LEMMA LookupKept ==
    ASSUME RoomInv, NEW s \in Servers, Lookup(s)
    PROVE  RoomInv'
<1>. DEFINE r == room[s]
<1>1. r \in Room /\ RoomConsistent(r) /\ r.pc = "lookup"
  BY RoomOf DEF Lookup
<1>2. Rested(r)
  BY <1>1, ConsistentRests
<1>3. UNCHANGED storeVars /\ UNCHANGED <<lock, doc, used, shown, nextOp, faults>>
  BY DEF Lookup
<1>4. faults' \in Nat /\ lock' \in Servers \cup {NoServer}
  BY <1>3, RoomOf
<1>5. CASE RestoreOf(r.intent) = {}
  <2>1. PICK m \in Room : /\ m = [r EXCEPT !.pc = "append"]
                          /\ m.pc = "append" /\ m.gen = r.gen /\ m.tail = r.tail
                          /\ m.known = r.known /\ m.primary = r.primary /\ m.clean = r.clean
                          /\ m.kind = r.kind /\ m.op = r.op /\ m.payload = r.payload
                          /\ m.intent = r.intent /\ m.synced = r.synced /\ m.conns = r.conns
    BY <1>1, Moved
  <2>2. RoomConsistent(m)
    BY <1>1, <1>5, <2>1 DEF RoomConsistent, CommandFits, KnowsPrefix, OperationFits,
       WriterCurrent, PeersFollow, Forward
  <2>3. room' = [room EXCEPT ![s] = m] /\ acked' = acked
    BY <1>5, <2>1 DEF Lookup, SetRoom
  <2>. QED  BY <1>3, <1>4, <2>1, <2>2, <2>3, QuietStep
<1>6. CASE RestoreOf(r.intent) # {}
  <2>1. room' = [room EXCEPT ![s] = Idle(r)] /\ acked' = acked \cup Payloads(RestoreOf(r.intent))
    BY <1>6 DEF Lookup, SetRoom
  <2>2. Payloads(RestoreOf(r.intent)) \subseteq History(tail)
    BY ReceiptStored DEF Payloads, RestoreOf
  <2>3. acked' \subseteq History(tail)
    BY <2>1, <2>2 DEF RoomInv
  <2>4. Idle(r) = [Idle(r) EXCEPT !.pc = "ready"]
    BY <1>1, IdleReady
  <2>5. room' = [room EXCEPT ![s] = [Idle(r) EXCEPT !.pc = "ready"]]
    BY <2>1, <2>4
  <2>. QED  BY <1>2, <1>3, <1>4, <2>3, <2>5, AnswerStep
<1>. QED  BY <1>5, <1>6

\* Refusing a command reloads the engine after an update.
LEMMA RefusedKept ==
    ASSUME RoomInv, NEW s \in Servers, Rested(room[s]),
           UNCHANGED storeVars, room' = [room EXCEPT ![s] = Refused(room[s])],
           UNCHANGED <<lock, doc, used, acked, shown, nextOp, faults>>
    PROVE  RoomInv'
<1>. DEFINE r == room[s]
            x == Close(Reloaded(r), r.who)
<1>1. lock' \in Servers \cup {NoServer} /\ faults' \in Nat
  BY RoomOf
<1>2. Rested(x)
  BY ReloadedRests, CloseRests
<1>3. x.gen = r.gen
  BY DEF Rested, Close, Reloaded, Room
<1>4. CASE r.kind = "update"
  <2>1. room' = [room EXCEPT ![s] = Idle(x)]
    BY <1>4 DEF Refused
  <2>. HIDE DEF x
  <2>. QED  BY <1>1, <1>2, <1>3, <2>1, RestStep
<1>5. CASE r.kind # "update"
  <2>1. room' = [room EXCEPT ![s] = Idle(r)]
    BY <1>5 DEF Refused
  <2>. QED  BY <1>1, <2>1, RestStep
<1>. QED  BY <1>4, <1>5

\* Giving up the generation.
LEMMA WriterStaleKept ==
    ASSUME RoomInv, NEW s \in Servers, NEW r \in Room, r.tail <= tail,
           r.known = History(r.tail),
           UNCHANGED storeVars, faults' \in Nat, acked' \subseteq History(tail),
           room' = [room EXCEPT ![s] = WriterStale(r)],
           UNCHANGED <<lock, doc, used, shown, nextOp>>
    PROVE  RoomInv'
<1>. DEFINE x == CloseAll([Reloaded(r) EXCEPT !.gen = 0])
<1>1. Rested(x)
  BY SurrenderRests, RoomOf
<1>2. x.gen = 0
  BY DEF CloseAll, Reloaded, Room
<1>3. room' = [room EXCEPT ![s] = Idle(x)]
  BY DEF WriterStale
<1>. HIDE DEF x
<1>4. Idle(x) = [Idle(x) EXCEPT !.pc = "ready"]
  BY <1>1, IdleReady DEF Rested
<1>5. room' = [room EXCEPT ![s] = [Idle(x) EXCEPT !.pc = "ready"]]
  BY <1>3, <1>4
<1>. QED  BY <1>1, <1>2, <1>5, AnswerStep

\* Moving to the next call.
LEMMA MoveStep ==
    ASSUME RoomInv, NEW s \in Servers, NEW r \in Room,
           r.gen = room[s].gen, r.op = room[s].op,
           NEW q \in {"append", "verify", "replay", "diverge"},
           RoomConsistent([r EXCEPT !.pc = q]),
           UNCHANGED storeVars, room' = [room EXCEPT ![s] = [r EXCEPT !.pc = q]],
           UNCHANGED <<lock, doc, used, acked, shown, nextOp, faults>>
    PROVE  RoomInv'
<1>1. PICK m \in Room : m = [r EXCEPT !.pc = q] /\ m.gen = r.gen /\ m.op = r.op
  BY Moved
<1>2. lock' \in Servers \cup {NoServer} /\ faults' \in Nat
  BY RoomOf
<1>. QED  BY <1>1, <1>2, QuietStep

\* Appends that store nothing.
LEMMA AppendQuietKept ==
    ASSUME RoomInv, NEW s \in Servers,
           \/ AppendAmbiguous(s) \/ AppendStaleWriter(s) \/ AppendRefused(s) \/ AppendReplay(s)
    PROVE  RoomInv'
<1>. DEFINE r == room[s]
<1>1. r \in Room /\ RoomConsistent(r) /\ r.pc = "append"
  BY RoomOf DEF AppendAmbiguous, AppendStaleWriter, AppendRefused, AppendReplay
<1>2. Rested(r)
  BY <1>1, ConsistentRests
<1>3. UNCHANGED storeVars /\ UNCHANGED <<lock, doc, used, acked, shown, nextOp, faults>>
  BY DEF AppendAmbiguous, AppendStaleWriter, AppendRefused, AppendReplay
<1>4. CASE AppendAmbiguous(s)
  <2>. DEFINE m == [r EXCEPT !.pc = "verify"]
  <2>1. /\ m.pc = "verify" /\ m.gen = r.gen /\ m.tail = r.tail
        /\ m.known = r.known /\ m.primary = r.primary /\ m.clean = r.clean
        /\ m.kind = r.kind /\ m.op = r.op /\ m.payload = r.payload
        /\ m.intent = r.intent /\ m.synced = r.synced /\ m.conns = r.conns
    BY <1>1, Moved
  <2>. HIDE DEF m
  <2>2. RoomConsistent(m)
    BY <1>1, <2>1 DEF RoomConsistent, CommandFits, KnowsPrefix, OperationFits,
       WriterCurrent, PeersFollow, Forward
  <2>3. room' = [room EXCEPT ![s] = [r EXCEPT !.pc = "verify"]]
    BY <1>4 DEF AppendAmbiguous, SetRoom
  <2>. QED  BY <1>1, <1>3, <2>2, <2>3, MoveStep DEF m
<1>5. CASE AppendStaleWriter(s)
  <2>1. room' = [room EXCEPT ![s] = WriterStale(r)]
    BY <1>5 DEF AppendStaleWriter, SetRoom
  <2>2. r.tail <= tail /\ r.known = History(r.tail)
    BY <1>2 DEF Rested
  <2>3. faults' \in Nat /\ acked' \subseteq History(tail)
    BY <1>3, RoomOf DEF RoomInv
  <2>. QED  BY <1>1, <1>3, <2>1, <2>2, <2>3, WriterStaleKept
<1>6. CASE AppendRefused(s)
  <2>1. room' = [room EXCEPT ![s] = Refused(r)]
    BY <1>6 DEF AppendRefused, SetRoom
  <2>. QED  BY <1>2, <1>3, <2>1, RefusedKept
<1>7. CASE AppendReplay(s)
  <2>. DEFINE m == [r EXCEPT !.pc = "replay"]
  <2>1. /\ m.pc = "replay" /\ m.gen = r.gen /\ m.tail = r.tail
        /\ m.known = r.known /\ m.primary = r.primary /\ m.clean = r.clean
        /\ m.kind = r.kind /\ m.op = r.op /\ m.payload = r.payload
        /\ m.intent = r.intent /\ m.synced = r.synced /\ m.conns = r.conns
    BY <1>1, Moved
  <2>. HIDE DEF m
  <2>2. r.intent # NoIntent /\ RestoreOf(r.intent) # {}
    BY <1>7 DEF AppendReplay, Answer, AppendAnswer
  <2>3. r.kind = "restore" /\ r.gen # generation
    BY <1>1, <2>2 DEF RoomConsistent, CommandFits, WriterCurrent
  <2>4. RoomConsistent(m)
    BY <1>1, <2>1, <2>3 DEF RoomConsistent, CommandFits, KnowsPrefix, OperationFits,
       WriterCurrent, PeersFollow, Forward
  <2>5. room' = [room EXCEPT ![s] = [r EXCEPT !.pc = "replay"]]
    BY <1>7 DEF AppendReplay, SetRoom
  <2>. QED  BY <1>1, <1>3, <2>4, <2>5, MoveStep DEF m
<1>. QED  BY <1>4, <1>5, <1>6, <1>7

\* A replayed restore goes on with the durable payload.
LEMMA ReplayKept ==
    ASSUME RoomInv, NEW s \in Servers, Replay(s)
    PROVE  RoomInv'
<1>. DEFINE r == room[s]
            l == Reloaded(Committed(r))
<1>1. r \in Room /\ RoomConsistent(r) /\ r.pc = "replay"
  BY RoomOf DEF Replay
<1>2. Rested(r)
  BY <1>1, ConsistentRests
<1>3. Rested(l) /\ l.clean
  BY <1>2, LoadedRests, RoomOf
<1>4. /\ l.gen = r.gen /\ l.op = r.op /\ l.kind = r.kind /\ l.intent = r.intent
      /\ l.tail = tail
  BY <1>1 DEF Reloaded, Committed, Room
<1>5. PICK x \in RestoreOf(r.intent) :
          room' = [room EXCEPT ![s] = [l EXCEPT !.pc = "project", !.seq = x.seq,
                                                !.payload = x.payload]]
  BY DEF Replay, SetRoom
<1>6. UNCHANGED storeVars /\ UNCHANGED <<lock, doc, used, acked, shown, nextOp, faults>>
  BY DEF Replay
<1>7. x \in receipts /\ x.seq \in Nat /\ x.payload \in SUBSET Updates
  BY RoomOf DEF RestoreOf, StoreTypeOK, Operation
<1>. HIDE DEF l
<1>8. PICK m \in Room : m = [l EXCEPT !.pc = "project", !.seq = x.seq, !.payload = x.payload]
  BY <1>3, <1>7 DEF Rested, Room
<1>9. /\ m.pc = "project" /\ m.gen = l.gen /\ m.tail = l.tail /\ m.known = l.known
      /\ m.primary = l.primary /\ m.clean = l.clean /\ m.kind = l.kind /\ m.op = l.op
      /\ m.payload = x.payload /\ m.intent = l.intent /\ m.synced = l.synced /\ m.conns = l.conns
  BY <1>3, <1>8 DEF Rested, Room
<1>10. m.payload \subseteq m.known
  BY <1>3, <1>4, <1>7, <1>9, ReceiptStored DEF Rested
<1>11. m.gen # generation /\ m.gen # 0 /\ m.kind = "restore"
  BY <1>1, <1>4, <1>9 DEF RoomConsistent, WriterCurrent, CommandFits
<1>12. RoomConsistent(m)
  <2>1. CommandFits(m)
    BY <1>1, <1>4, <1>9, <1>11 DEF RoomConsistent, CommandFits, Forward
  <2>2. KnowsPrefix(m)
    BY <1>3, <1>9, <1>10 DEF Rested, KnowsPrefix
  <2>3. OperationFits(m)
    BY <1>1, <1>4, <1>9 DEF RoomConsistent, OperationFits
  <2>4. WriterCurrent(m) /\ PeersFollow(m)
    BY <1>3, <1>9, <1>11 DEF Rested, WriterCurrent, PeersFollow
  <2>. QED  BY <2>1, <2>2, <2>3, <2>4 DEF RoomConsistent
<1>13. lock' \in Servers \cup {NoServer} /\ faults' \in Nat
  BY <1>6, RoomOf
<1>14. room' = [room EXCEPT ![s] = m] /\ m.gen = room[s].gen /\ m.op = room[s].op
  BY <1>4, <1>5, <1>8, <1>9
<1>. QED  BY <1>6, <1>12, <1>13, <1>14, QuietStep

\* A compaction that does not happen.
LEMMA SkippedKept ==
    ASSUME RoomInv, NEW s \in Servers, ClaimRefused(s) \/ CompactSkipped(s)
    PROVE  RoomInv'
<1>1. /\ room[s] \in Room /\ RoomConsistent(room[s]) /\ room[s].pc \in {"claim", "persist"}
      /\ lock \in Servers \cup {NoServer} /\ faults \in Nat
  BY RoomOf DEF ClaimRefused, CompactSkipped
<1>2. Rested(room[s])
  BY <1>1, ConsistentRests
<1>3. /\ room' = [room EXCEPT ![s] = Idle(room[s])]
      /\ UNCHANGED storeVars /\ UNCHANGED <<lock, doc, used, acked, shown, nextOp, faults>>
  BY DEF ClaimRefused, CompactSkipped, SetRoom
<1>. QED  BY <1>1, <1>2, <1>3, RestStep

\* A room may stop trusting itself at any moment.
LEMMA DivergeConsistent ==
    ASSUME NEW r \in Room, RoomConsistent(r)
    PROVE  RoomConsistent([r EXCEPT !.pc = "diverge"])
<1>. DEFINE m == [r EXCEPT !.pc = "diverge"]
<1>1. /\ m.pc = "diverge" /\ m.gen = r.gen /\ m.tail = r.tail
      /\ m.known = r.known /\ m.primary = r.primary /\ m.clean = r.clean
      /\ m.kind = r.kind /\ m.op = r.op /\ m.payload = r.payload
      /\ m.intent = r.intent /\ m.synced = r.synced /\ m.conns = r.conns
  BY Moved
<1>. HIDE DEF m
<1>2. RoomConsistent(m)
  BY <1>1 DEF RoomConsistent, CommandFits, KnowsPrefix, OperationFits, WriterCurrent, PeersFollow
<1>. QED  BY <1>2 DEF m

\* No receipt is found, or it cannot be read.
LEMMA VerifyQuietKept ==
    ASSUME RoomInv, NEW s \in Servers, VerifyRefuted(s) \/ VerifyDiverges(s)
    PROVE  RoomInv'
<1>. DEFINE r == room[s]
<1>1. r \in Room /\ RoomConsistent(r) /\ r.pc = "verify"
  BY RoomOf DEF VerifyRefuted, VerifyDiverges
<1>2. UNCHANGED storeVars /\ UNCHANGED <<lock, doc, used, acked, shown, nextOp, faults>>
  BY DEF VerifyRefuted, VerifyDiverges
<1>3. CASE VerifyRefuted(s)
  <2>1. ReceiptOf(r.op) = {} /\ room' = [room EXCEPT ![s] = Refused(r)]
    BY <1>3 DEF VerifyRefuted, SetRoom
  <2>2. Rested(r)
    BY <1>1, <2>1 DEF Rested, RoomConsistent, KnowsPrefix, WriterCurrent, PeersFollow
  <2>. QED  BY <1>2, <2>1, <2>2, RefusedKept
<1>4. CASE VerifyDiverges(s)
  <2>1. room' = [room EXCEPT ![s] = [r EXCEPT !.pc = "diverge"]]
    BY <1>4 DEF VerifyDiverges, SetRoom
  <2>2. RoomConsistent([r EXCEPT !.pc = "diverge"])
    BY <1>1, DivergeConsistent
  <2>. QED  BY <1>1, <1>2, <2>1, <2>2, MoveStep
<1>. QED  BY <1>3, <1>4

\* A compaction that is fenced off.
LEMMA CompactStaleKept ==
    ASSUME RoomInv, NEW s \in Servers, CompactStale(s)
    PROVE  RoomInv'
<1>. DEFINE r == Ensured(room[s])
<1>1. room[s] \in Room /\ RoomConsistent(room[s])
  BY RoomOf
<1>2. /\ r \in Room /\ r.pc = room[s].pc /\ r.gen = room[s].gen /\ r.op = room[s].op
      /\ r.kind = room[s].kind /\ r.intent = room[s].intent
  BY <1>1 DEF Ensured, Reloaded, Room
<1>3. room[s].pc \in {"ready", "persist"}
  BY <1>2 DEF CompactStale, Persisting
<1>4. Rested(r)
  BY <1>1, <1>3, ConsistentRests, EnsuredRests
<1>5. /\ room' = [room EXCEPT ![s] = [r EXCEPT !.pc = "diverge"]]
      /\ UNCHANGED storeVars /\ UNCHANGED <<lock, doc, used, acked, shown, nextOp, faults>>
  BY DEF CompactStale, SetRoom
<1>. HIDE DEF r
<1>6. RoomConsistent(r)
  BY <1>1, <1>2, <1>3, <1>4 DEF Rested, RoomConsistent, CommandFits, KnowsPrefix,
     OperationFits, WriterCurrent, PeersFollow
<1>7. RoomConsistent([r EXCEPT !.pc = "diverge"])
  BY <1>2, <1>6, DivergeConsistent
<1>. QED  BY <1>2, <1>5, <1>7, MoveStep

\* A room that recovers: it loads what is stored, or surrenders.
LEMMA RecoveryKept ==
    ASSUME RoomInv, NEW s \in Servers, Diverge(s) \/ PrimaryUnhealthy(s)
    PROVE  RoomInv'
<1>. DEFINE r == room[s]
            k == Committed(r)
<1>1. /\ r \in Room /\ RoomConsistent(r) /\ generation \in Nat /\ tail \in Nat
      /\ StoreTypeOK /\ StoreConsistent
  BY RoomOf
<1>2. /\ UNCHANGED storeVars /\ UNCHANGED <<doc, used, acked, shown, nextOp>>
      /\ lock' \in Servers \cup {NoServer} /\ faults' \in Nat
  BY RoomOf DEF Diverge, PrimaryUnhealthy
<1>3. r.tail <= tail /\ r.known = History(r.tail) /\ r.gen <= generation
  BY <1>1 DEF RoomConsistent, KnowsPrefix, WriterCurrent
<1>4. StoredContent = History(tail) /\ History(tail) \subseteq Updates
  BY <1>1, ContentIsHistory, HistoryType
<1>5. k \in Room /\ k.tail = tail /\ k.known = History(tail) /\ k.gen = r.gen
  BY <1>1, <1>4 DEF Committed, Room
<1>6. CASE Diverge(s)
  <2>1. PICK l \in {k, r} :
            room' = [room EXCEPT ![s] = Idle(CloseAll([Reloaded(l) EXCEPT !.gen = 0]))]
    BY <1>6 DEF Diverge, SetRoom
  <2>. HIDE DEF k
  <2>2. l \in Room /\ l.tail <= tail /\ l.known = History(l.tail)
    BY <1>1, <1>3, <1>5, <2>1
  <2>. DEFINE x == CloseAll([Reloaded(l) EXCEPT !.gen = 0])
  <2>3. Rested(x) /\ x.gen = 0
    BY <1>1, <2>2, SurrenderRests DEF CloseAll, Reloaded, Room
  <2>4. room' = [room EXCEPT ![s] = Idle(x)]
    BY <2>1
  <2>. HIDE DEF x
  <2>. QED  BY <1>2, <2>3, <2>4, RestStep
<1>7. CASE PrimaryUnhealthy(s)
  <2>1. PICK l \in {Reloaded(k), r} : room' = [room EXCEPT ![s] = Idle(CloseAll(l))]
    BY <1>7 DEF PrimaryUnhealthy, SetRoom
  <2>2. r.pc = "unhealthy"
    BY <1>7 DEF PrimaryUnhealthy
  <2>3. r.clean => r.primary = r.known
    BY <1>1 DEF RoomConsistent, KnowsPrefix
  <2>4. r.gen # 0 /\ r.gen = generation => r.tail = tail
    BY <1>1, <2>2 DEF RoomConsistent, WriterCurrent
  <2>. HIDE DEF k
  <2>5. /\ Reloaded(k) \in Room /\ Reloaded(k).tail = tail /\ Reloaded(k).known = History(tail)
        /\ Reloaded(k).primary = History(tail) /\ Reloaded(k).gen = r.gen
    BY <1>5 DEF Reloaded, Room
  <2>6. /\ l \in Room /\ l.tail <= tail /\ l.known = History(l.tail) /\ l.gen = r.gen
        /\ l.clean => l.primary = l.known
        /\ l.gen # 0 /\ l.gen = generation => l.tail = tail
    BY <1>1, <1>3, <2>1, <2>3, <2>4, <2>5
  <2>. DEFINE x == CloseAll(l)
  <2>7. /\ x \in Room /\ x.tail = l.tail /\ x.known = l.known /\ x.gen = l.gen
        /\ x.clean = l.clean /\ x.primary = l.primary /\ x.synced = {}
    BY <2>6 DEF CloseAll, Room
  <2>8. room' = [room EXCEPT ![s] = Idle(x)]
    BY <2>1
  <2>. HIDE DEF x
  <2>9. Rested(x)
    BY <1>3, <2>6, <2>7 DEF Rested
  <2>. QED  BY <1>2, <2>6, <2>7, <2>8, <2>9, RestStep
<1>. QED  BY <1>6, <1>7

-----------------------------------------------------------------------------
(* Operations that turn out to be durable.                                 *)

\* Sequence numbers are given once, so one operation makes the next history.
LEMMA NextHistory ==
    ASSUME StoreTypeOK, StoreConsistent, NEW x \in receipts, NEW n \in Nat, x.seq = n + 1
    PROVE  History(n + 1) = History(n) \cup x.payload
<1>1. \A y \in receipts : y.seq \in Nat
  BY DEF StoreConsistent, StoreTypeOK
<1>2. \A y \in receipts : y.seq = n + 1 => y = x
  BY DEF StoreConsistent
<1>3. \A y \in receipts : y.seq <= n + 1 <=> y.seq <= n \/ y = x
  BY <1>1, <1>2
<1>4. ASSUME NEW u
      PROVE  u \in History(n + 1) <=> u \in History(n) \/ u \in x.payload
  <2>1. u \in History(n + 1) <=> \E y \in receipts : y.seq <= n + 1 /\ u \in y.payload
    BY HistoryMember
  <2>2. u \in History(n) <=> \E y \in receipts : y.seq <= n /\ u \in y.payload
    BY HistoryMember
  <2>. QED  BY <1>3, <2>1, <2>2
<1>. QED  BY <1>4

\* What the room of a committed operation looks like.
LEMMA IntegratedRoom ==
    ASSUME NEW r \in Room
    PROVE  LET m == Integrated(r)
           IN  /\ m \in Room /\ m.pc = "project" /\ m.gen = r.gen /\ m.tail = r.tail + 1
               /\ m.known = r.known \cup r.payload /\ m.primary = r.primary \cup r.payload
               /\ m.clean = TRUE /\ m.kind = r.kind /\ m.op = r.op /\ m.payload = r.payload
               /\ m.intent = r.intent /\ m.synced = r.synced /\ m.conns = r.conns
<1>1. /\ r.tail + 1 \in Nat /\ r.known \cup r.payload \in SUBSET Updates
      /\ r.primary \cup r.payload \in SUBSET Updates
  BY DEF Room
<1>2. Integrated(r) = [r EXCEPT !.tail = r.tail + 1, !.known = r.known \cup r.payload,
          !.clean = TRUE, !.primary = r.primary \cup r.payload, !.seq = r.tail + 1,
          !.pc = "project"]
  BY DEF Integrated
<1>3. Integrated(r) \in Room
  BY <1>1, <1>2 DEF Room
<1>. QED  BY <1>2, <1>3 DEF Room

\* A broadcast tells the connections of a room about its operation.
LEMMA BroadcastLearns ==
    ASSUME RoomInv, NEW r \in Room, Broadcast(r)
    PROVE  /\ doc' \in [Clients -> SUBSET Updates]
           /\ \A c \in Clients : doc[c] \subseteq doc'[c]
           /\ \A c \in r.conns : r.payload \subseteq doc'[c]
           /\ shown' \in {shown, shown \cup r.payload}
<1>1. doc \in [Clients -> SUBSET Updates] /\ r.payload \subseteq Updates /\ r.conns \subseteq Clients
  BY DEF RoomInv, TypeOK, RoomTypeOK, Room
<1>. QED  BY <1>1 DEF Broadcast

\* A receipt that is found makes the operation known and told.
LEMMA VerifyFoundKept ==
    ASSUME RoomInv, NEW s \in Servers, VerifyFound(s)
    PROVE  RoomInv'
<1>1. PICK r \in Room : r = room[s] /\ RoomConsistent(r) /\ r.pc = "verify"
  BY RoomOf DEF VerifyFound
<1>2. /\ room' = [room EXCEPT ![s] = Integrated(r)] /\ Broadcast(r) /\ AckAuthor(r)
      /\ UNCHANGED storeVars /\ UNCHANGED <<lock, used, nextOp, faults>>
  BY <1>1 DEF VerifyFound, SetRoom
<1>3. PICK x \in receipts : /\ x.op = r.op /\ x.seq = r.tail + 1 /\ x.payload = r.payload
                            /\ ReceiptOf(r.op) # {}
  BY <1>1 DEF VerifyFound, ReceiptOf, RoomConsistent, OperationFits
<1>4. PICK m \in Room :
         /\ m = Integrated(r) /\ m.pc = "project" /\ m.gen = r.gen /\ m.tail = r.tail + 1
         /\ m.known = r.known \cup r.payload /\ m.primary = r.primary \cup r.payload
         /\ m.clean = TRUE /\ m.kind = r.kind /\ m.op = r.op /\ m.payload = r.payload
         /\ m.intent = r.intent /\ m.synced = r.synced /\ m.conns = r.conns
  BY IntegratedRoom
<1>5. r.tail \in Nat /\ tail \in Nat /\ StoreTypeOK /\ StoreConsistent
  BY RoomOf DEF Room
<1>6. m.tail <= tail /\ m.known = History(m.tail) /\ m.primary = m.known
  <2>1. x.seq <= tail
    BY <1>5 DEF StoreConsistent
  <2>2. History(r.tail + 1) = History(r.tail) \cup r.payload
    BY <1>3, <1>5, NextHistory
  <2>3. r.known = History(r.tail) /\ (r.primary = r.known \/ r.primary = r.known \cup r.payload)
    BY <1>1 DEF RoomConsistent, KnowsPrefix
  <2>. QED  BY <1>3, <1>4, <2>1, <2>2, <2>3
<1>7. r.payload \subseteq History(tail)
  BY <1>3, ReceiptStored
<1>8. CommandFits(m)
  BY <1>1, <1>4 DEF RoomConsistent, CommandFits, Forward
<1>9. KnowsPrefix(m)
  BY <1>4, <1>6 DEF KnowsPrefix
<1>10. OperationFits(m)
  BY <1>1, <1>4 DEF RoomConsistent, OperationFits
<1>11. WriterCurrent(m)
  BY <1>1, <1>4, <1>5, <1>6 DEF RoomConsistent, WriterCurrent
<1>12. /\ doc' \in [Clients -> SUBSET Updates] /\ \A c \in Clients : doc[c] \subseteq doc'[c]
       /\ \A c \in r.conns : r.payload \subseteq doc'[c]
       /\ shown' \in {shown, shown \cup r.payload}
  BY <1>2, BroadcastLearns
<1>13. PeersFollow(m)'
  <2>1. r.synced \subseteq Clients /\ r.synced \subseteq r.conns
    BY <1>1 DEF Room, RoomConsistent, PeersFollow
  <2>2. generation' = generation
    BY <1>2 DEF storeVars
  <2>3. r.gen # 0 /\ r.gen = generation => \A c \in r.synced : r.known \subseteq doc[c]
    BY <1>1 DEF RoomConsistent, PeersFollow
  <2>4. r.gen # 0 /\ r.gen = generation =>
            \A c \in r.synced : r.known \cup r.payload \subseteq doc'[c]
    BY <1>12, <2>1, <2>3
  <2>. QED  BY <1>4, <2>1, <2>2, <2>4 DEF PeersFollow
<1>14. acked' \subseteq History(tail) /\ shown' \subseteq History(tail)
  BY <1>2, <1>7, <1>12 DEF AckAuthor, RoomInv
<1>15. /\ used' \subseteq Updates /\ lock' \in Servers \cup {NoServer} /\ faults' \in Nat
       /\ nextOp' = nextOp /\ room' = [room EXCEPT ![s] = m] /\ m.gen = room[s].gen
       /\ m.op = room[s].op
  BY <1>1, <1>2, <1>4 DEF RoomInv, TypeOK, RoomTypeOK
<1>. QED  BY <1>2, <1>8, <1>9, <1>10, <1>11, <1>12, <1>13, <1>14, <1>15, LearningStep

\* A receipt that is found for an engine that fails: the author alone is told.
LEMMA VerifyUnhealthyKept ==
    ASSUME RoomInv, NEW s \in Servers, VerifyUnhealthy(s)
    PROVE  RoomInv'
<1>1. PICK r \in Room : r = room[s] /\ RoomConsistent(r) /\ r.pc = "verify"
  BY RoomOf DEF VerifyUnhealthy
<1>2. PICK x \in receipts : /\ x.op = r.op /\ x.seq = r.tail + 1 /\ x.payload = r.payload
                            /\ ReceiptOf(r.op) # {}
  BY <1>1 DEF VerifyUnhealthy, ReceiptOf, RoomConsistent, OperationFits
<1>3. PICK j \in Room :
         /\ j = Integrated(r) /\ j.pc = "project" /\ j.gen = r.gen /\ j.tail = r.tail + 1
         /\ j.known = r.known \cup r.payload /\ j.primary = r.primary \cup r.payload
         /\ j.clean = TRUE /\ j.kind = r.kind /\ j.op = r.op /\ j.payload = r.payload
         /\ j.intent = r.intent /\ j.synced = r.synced /\ j.conns = r.conns
  BY IntegratedRoom
<1>4. PICK m \in Room : m = [Unloaded(j) EXCEPT !.pc = "unhealthy"]
  BY <1>3 DEF Unloaded, Room
<1>5. /\ m.pc = "unhealthy" /\ m.gen = r.gen /\ m.tail = r.tail + 1
      /\ m.known = r.known \cup r.payload /\ m.clean = FALSE /\ m.kind = r.kind
      /\ m.op = r.op /\ m.intent = r.intent /\ m.synced = r.synced /\ m.conns = r.conns
  BY <1>3, <1>4 DEF Unloaded, Room
<1>6. r.tail \in Nat /\ tail \in Nat /\ StoreTypeOK /\ StoreConsistent
  BY RoomOf DEF Room
<1>7. m.tail <= tail /\ m.known = History(m.tail)
  <2>1. x.seq <= tail
    BY <1>6 DEF StoreConsistent
  <2>2. History(r.tail + 1) = History(r.tail) \cup r.payload
    BY <1>2, <1>6, NextHistory
  <2>3. r.known = History(r.tail)
    BY <1>1 DEF RoomConsistent, KnowsPrefix
  <2>. QED  BY <1>2, <1>5, <2>1, <2>2, <2>3
<1>8. CommandFits(m) /\ KnowsPrefix(m)
  BY <1>1, <1>5, <1>7 DEF RoomConsistent, CommandFits, KnowsPrefix, Forward
<1>9. OperationFits(m) /\ WriterCurrent(m)
  BY <1>1, <1>5, <1>6, <1>7 DEF RoomConsistent, OperationFits, WriterCurrent
<1>10. PeersFollow(m)
  BY <1>1, <1>5 DEF RoomConsistent, PeersFollow
<1>11. RoomConsistent(m)
  BY <1>8, <1>9, <1>10 DEF RoomConsistent
<1>12. r.payload \subseteq History(tail)
  BY <1>2, ReceiptStored
<1>13. acked' \subseteq History(tail) /\ shown' \subseteq History(tail)
  BY <1>1, <1>12 DEF VerifyUnhealthy, AckAuthor, RoomInv
<1>14. /\ UNCHANGED storeVars /\ UNCHANGED <<lock, doc, used, nextOp>>
       /\ room' = [room EXCEPT ![s] = m] /\ faults' = faults + 1
  BY <1>1, <1>3, <1>4 DEF VerifyUnhealthy, SetRoom, Fault
<1>15. /\ doc' \in [Clients -> SUBSET Updates] /\ \A c \in Clients : doc[c] \subseteq doc'[c]
       /\ used' \subseteq Updates /\ lock' \in Servers \cup {NoServer} /\ faults' \in Nat
       /\ nextOp' = nextOp /\ m.gen = room[s].gen /\ m.op = room[s].op
  BY <1>1, <1>5, <1>14 DEF RoomInv, TypeOK, RoomTypeOK
<1>. QED  BY <1>11, <1>13, <1>14, <1>15, StoreKept

-----------------------------------------------------------------------------
(* Projections.                                                            *)

\* What an HTTP caller is told after the projection is stored.
LEMMA CallerAckStored ==
    ASSUME RoomInv, NEW r \in Room, RoomConsistent(r), r.pc = "project", AckCaller(r)
    PROVE  acked' \subseteq History(tail)
<1>1. r.known \subseteq History(tail)
  BY KnownStored DEF RoomConsistent, KnowsPrefix
<1>. QED  BY <1>1 DEF RoomInv, AckCaller, RoomConsistent, KnowsPrefix

\* What follows a projection is a rested room.
LEMMA FollowersRest ==
    ASSUME NEW r \in Room, RoomConsistent(r), r.pc = "project", NEW f \in Followers(r)
    PROVE  \E x : /\ Rested(x) /\ x.gen = r.gen
                  /\ \E q \in {"ready", "persist"} : f = [Idle(x) EXCEPT !.pc = q]
<1>1. Rested(r)
  BY ConsistentRests
<1>2. CASE r.kind = "join"
  <2>. DEFINE x == [r EXCEPT !.conns = @ \cup {r.who}]
  <2>1. f = Idle(x)
    BY <1>2 DEF Followers, Admit
  <2>2. r.who \in Clients
    BY <1>2 DEF RoomConsistent, CommandFits
  <2>3. Rested(x) /\ x.gen = r.gen
    BY <1>1, <2>2 DEF Rested, Room
  <2>4. Idle(x) = [Idle(x) EXCEPT !.pc = "ready"]
    BY <2>3, IdleReady DEF Rested
  <2>. HIDE DEF x
  <2>. QED  BY <2>1, <2>3, <2>4
<1>3. CASE r.kind # "join"
  <2>1. f = Idle(r) \/ f = [Idle(r) EXCEPT !.pc = "persist"]
    BY <1>3 DEF Followers
  <2>2. Idle(r) = [Idle(r) EXCEPT !.pc = "ready"]
    BY IdleReady
  <2>. QED  BY <1>1, <2>1, <2>2
<1>. QED  BY <1>2, <1>3

\* Projections that leave the body as it is.
LEMMA ProjectQuietKept ==
    ASSUME RoomInv, NEW s \in Servers,
           ProjectStaleWriter(s) \/ ProjectSkipped(s) \/ ProjectLosesEngine(s)
    PROVE  RoomInv'
<1>1. PICK r \in Room : r = room[s] /\ RoomConsistent(r) /\ r.pc = "project"
  BY RoomOf DEF ProjectStaleWriter, ProjectSkipped, ProjectLosesEngine
<1>2. Rested(r)
  BY <1>1, ConsistentRests
<1>3. /\ UNCHANGED storeVars /\ UNCHANGED <<lock, doc, used, shown, nextOp>>
      /\ faults' \in Nat /\ AckCaller(r)
  BY <1>1, RoomOf DEF ProjectStaleWriter, ProjectSkipped, ProjectLosesEngine, Fault
<1>4. acked' \subseteq History(tail)
  BY <1>1, <1>3, CallerAckStored
<1>5. r.tail <= tail /\ r.known = History(r.tail)
  BY <1>2 DEF Rested
<1>6. ASSUME NEW x, Rested(x), x.gen = r.gen, room' = [room EXCEPT ![s] = Idle(x)]
      PROVE  RoomInv'
  <2>1. Idle(x) = [Idle(x) EXCEPT !.pc = "ready"]
    BY <1>6, IdleReady DEF Rested
  <2>2. room' = [room EXCEPT ![s] = [Idle(x) EXCEPT !.pc = "ready"]] /\ x.gen = room[s].gen
    BY <1>1, <1>6, <2>1
  <2>. QED  BY <1>3, <1>4, <1>6, <2>2, AnswerStep
<1>7. CASE ProjectStaleWriter(s)
  <2>1. room' = [room EXCEPT ![s] = IF r.kind \in Forward THEN Idle(r) ELSE WriterStale(r)]
    BY <1>1, <1>7 DEF ProjectStaleWriter, SetRoom
  <2>2. CASE r.kind \in Forward
    BY <1>2, <1>6, <2>1, <2>2
  <2>3. CASE r.kind \notin Forward
    <3>1. room' = [room EXCEPT ![s] = WriterStale(r)]
      BY <2>1, <2>3
    <3>. QED  BY <1>3, <1>4, <1>5, <3>1, WriterStaleKept
  <2>. QED  BY <2>2, <2>3
<1>8. CASE ProjectSkipped(s)
  <2>1. PICK f \in Followers(r) : room' = [room EXCEPT ![s] = f]
    BY <1>1, <1>8 DEF ProjectSkipped, SetRoom
  <2>2. PICK x : /\ Rested(x) /\ x.gen = r.gen
                 /\ \E q \in {"ready", "persist"} : f = [Idle(x) EXCEPT !.pc = q]
    BY <1>1, FollowersRest
  <2>3. PICK q \in {"ready", "persist"} : f = [Idle(x) EXCEPT !.pc = q]
    BY <2>2
  <2>4. room' = [room EXCEPT ![s] = [Idle(x) EXCEPT !.pc = q]] /\ x.gen = room[s].gen
    BY <1>1, <2>1, <2>2, <2>3
  <2>. QED  BY <1>3, <1>4, <2>2, <2>4, AnswerStep
<1>9. CASE ProjectLosesEngine(s)
  <2>1. room' = [room EXCEPT ![s] = IF r.kind = "update"
                                    THEN [Unloaded(r) EXCEPT !.pc = "unhealthy"]
                                    ELSE Idle(Unloaded(r))]
    BY <1>1, <1>9 DEF ProjectLosesEngine, SetRoom
  <2>2. Rested(Unloaded(r)) /\ Unloaded(r).gen = r.gen
    BY <1>1, <1>2, UnloadedRests DEF Unloaded, Room
  <2>3. CASE r.kind # "update"
    BY <1>6, <2>1, <2>2, <2>3
  <2>4. CASE r.kind = "update"
    <3>1. PICK m \in Room : m = [Unloaded(r) EXCEPT !.pc = "unhealthy"]
      BY <1>1 DEF Unloaded, Room
    <3>2. /\ m.pc = "unhealthy" /\ m.gen = r.gen /\ m.tail = r.tail /\ m.known = r.known
          /\ m.clean = FALSE /\ m.kind = r.kind /\ m.op = r.op /\ m.payload = r.payload
          /\ m.intent = r.intent /\ m.synced = r.synced /\ m.conns = r.conns
      BY <1>1, <3>1 DEF Unloaded, Room
    <3>3. RoomConsistent(m)
      BY <1>1, <1>2, <2>4, <3>2 DEF Rested, RoomConsistent, CommandFits, KnowsPrefix,
         OperationFits, WriterCurrent, PeersFollow
    <3>4. /\ doc' \in [Clients -> SUBSET Updates] /\ \A d \in Clients : doc[d] \subseteq doc'[d]
          /\ used' \subseteq Updates /\ lock' \in Servers \cup {NoServer}
          /\ shown' \subseteq History(tail) /\ nextOp' = nextOp
      BY <1>3 DEF RoomInv, TypeOK, RoomTypeOK
    <3>5. room' = [room EXCEPT ![s] = m] /\ m.gen = room[s].gen /\ m.op = room[s].op
      BY <1>1, <2>1, <2>4, <3>1, <3>2
    <3>. QED  BY <1>3, <1>4, <3>3, <3>4, <3>5, StoreKept
  <2>. QED  BY <2>3, <2>4
<1>. QED  BY <1>7, <1>8, <1>9

-----------------------------------------------------------------------------
(* Steps that change the store.                                            *)

\* Generations and operation ids still belong to one room.
LEMMA OwnersKept ==
    ASSUME RoomInv, NEW s \in Servers, NEW m \in Room,
           room' = [room EXCEPT ![s] = m], nextOp' = nextOp,
           m.gen \in {room[s].gen, 0, generation + 1}, m.op \in {room[s].op, 0}
    PROVE  OwnersDistinct'
<1>1. room \in [Servers -> Room] /\ generation \in Nat /\ nextOp \in Nat
  BY DEF RoomInv, TypeOK, StoreTypeOK, RoomTypeOK
<1>2. \A t \in Servers : /\ room[t].op \in Nat /\ room[t].op <= nextOp
                         /\ room[t].gen \in Nat /\ room[t].gen <= generation
  BY <1>1 DEF RoomInv, OwnersDistinct, RoomConsistent, WriterCurrent, Room
<1>3. \A t \in Servers : room'[t] = IF t = s THEN m ELSE room[t]
  BY <1>1
<1>4. \A t \in Servers : room'[t].op <= nextOp'
  BY <1>1, <1>2, <1>3
<1>5. ASSUME NEW t \in Servers, NEW v \in Servers, t # v
      PROVE  /\ room'[t].gen = room'[v].gen => room'[t].gen = 0
             /\ room'[t].op = room'[v].op => room'[t].op = 0
  BY <1>1, <1>2, <1>3, <1>5 DEF RoomInv, OwnersDistinct
<1>. QED  BY <1>4, <1>5 DEF OwnersDistinct

\* If every other room stays consistent, so do all.
LEMMA OthersKept ==
    ASSUME RoomInv, NEW s \in Servers, NEW m \in Room,
           room' = [room EXCEPT ![s] = m], RoomConsistent(m)',
           \A n \in Room : \A t \in Servers :
               t # s /\ n = room[t] /\ RoomConsistent(n) => RoomConsistent(n)'
    PROVE  \A t \in Servers : RoomConsistent(room[t])'
<1>1. room \in [Servers -> Room]
  BY DEF RoomInv, TypeOK, RoomTypeOK
<1>2. ASSUME NEW t \in Servers PROVE RoomConsistent(room[t])'
  <2>1. CASE t # s
    <3>1. PICK n \in Room : n = room[t] /\ RoomConsistent(n)
      BY RoomOf
    <3>2. n = room'[t]
      BY <1>1, <2>1, <3>1
    <3>3. RoomConsistent(n)'
      BY <2>1, <3>1
    <3>. QED  BY <3>2, <3>3
  <2>2. CASE t = s
    <3>1. m = room'[t]
      BY <1>1, <2>2
    <3>. QED  BY <3>1
  <2>. QED  BY <2>1, <2>2
<1>. QED  BY <1>2

\* A claim makes every older generation stale.
LEMMA ClaimStep ==
    ASSUME RoomInv, NEW s \in Servers, NEW m \in Room,
           CommandFits(m), KnowsPrefix(m), OperationFits(m),
           WriterCurrent(m)', PeersFollow(m)', ClaimWriter,
           room' = [room EXCEPT ![s] = m],
           m.gen \in {room[s].gen, 0, generation + 1}, m.op \in {room[s].op, 0},
           faults' \in Nat, UNCHANGED <<lock, doc, used, acked, shown, nextOp>>
    PROVE  RoomInv'
<1>1. /\ generation' = generation + 1 /\ generation \in Nat
      /\ UNCHANGED <<tail, cutoff, snapshot, rows, receipts, body>>
  BY RoomOf DEF ClaimWriter
<1>2. room' \in [Servers -> Room]
  BY DEF RoomInv, TypeOK, RoomTypeOK
<1>3. TypeOK'
  BY <1>1, <1>2 DEF RoomInv, TypeOK, StoreTypeOK, RoomTypeOK
<1>4. (\A n : History(n)' = History(n)) /\ (\A o : ReceiptOf(o)' = ReceiptOf(o))
      /\ (\A i : RestoreOf(i)' = RestoreOf(i))
  BY <1>1 DEF History, Payloads, ReceiptOf, RestoreOf
<1>5. StoreConsistent'
  <2>1. snapshot' = History(cutoff)'
    BY <1>1 DEF RoomInv, StoreConsistent, History, Payloads
  <2>. QED  BY <1>1, <2>1 DEF RoomInv, StoreConsistent
<1>6. ASSUME NEW n \in Room, RoomConsistent(n)
      PROVE  RoomConsistent(n)'
  <2>1. CommandFits(n)' /\ KnowsPrefix(n)' /\ OperationFits(n)'
    BY <1>1, <1>4, <1>6 DEF RoomConsistent, CommandFits, KnowsPrefix, OperationFits
  <2>2. n.gen <= generation' /\ n.gen # generation'
    BY <1>1, <1>6 DEF RoomConsistent, WriterCurrent, Room
  <2>3. WriterCurrent(n)' /\ PeersFollow(n)'
    BY <1>6, <2>2 DEF RoomConsistent, WriterCurrent, PeersFollow
  <2>. QED  BY <2>1, <2>3 DEF RoomConsistent
<1>7. RoomConsistent(m)'
  BY <1>1, <1>4 DEF RoomConsistent, CommandFits, KnowsPrefix, OperationFits
<1>8. \A t \in Servers : RoomConsistent(room[t])'
  BY <1>6, <1>7, OthersKept
<1>9. OwnersDistinct'
  BY OwnersKept
<1>10. acked' \subseteq History(tail)' /\ shown' \subseteq History(tail)'
  BY <1>1 DEF RoomInv, History, Payloads
<1>. QED  BY <1>3, <1>5, <1>8, <1>9, <1>10 DEF RoomInv

\* A step after which generation, tail and receipts are as they were.
LEMMA TidyStep ==
    ASSUME RoomInv, NEW s \in Servers, NEW m \in Room, RoomConsistent(m),
           UNCHANGED <<generation, tail, receipts>>, StoreTypeOK', cutoff' <= tail,
           snapshot' = History(cutoff'),
           rows' = {x \in receipts : x.seq > cutoff'},
           room' = [room EXCEPT ![s] = m],
           m.gen \in {room[s].gen, 0}, m.op \in {room[s].op, 0},
           faults' \in Nat, acked' \subseteq History(tail),
           UNCHANGED <<lock, doc, used, shown, nextOp>>
    PROVE  RoomInv'
<1>1. room' \in [Servers -> Room] /\ History(tail) \subseteq Updates
  BY HistoryType DEF RoomInv, TypeOK, RoomTypeOK
<1>2. TypeOK'
  BY <1>1 DEF RoomInv, TypeOK, StoreTypeOK, RoomTypeOK
<1>3. (\A n : History(n)' = History(n)) /\ (\A o : ReceiptOf(o)' = ReceiptOf(o))
      /\ (\A i : RestoreOf(i)' = RestoreOf(i))
  BY DEF History, Payloads, ReceiptOf, RestoreOf
<1>4. StoreConsistent'
  <2>1. snapshot' = History(cutoff')
    OBVIOUS
  <2>2. History(cutoff') = History(cutoff)'
    BY DEF History, Payloads
  <2>. QED  BY <2>1, <2>2 DEF RoomInv, StoreConsistent
<1>5. ASSUME NEW n \in Room, RoomConsistent(n)
      PROVE  RoomConsistent(n)'
  BY <1>3, <1>5 DEF RoomConsistent, CommandFits, KnowsPrefix, OperationFits,
     WriterCurrent, PeersFollow
<1>6. \A t \in Servers : RoomConsistent(room[t])'
  BY <1>5, OthersKept
<1>7. OwnersDistinct'
  BY OwnersKept
<1>8. acked' \subseteq History(tail)' /\ shown' \subseteq History(tail)'
  BY DEF RoomInv, History, Payloads
<1>. QED  BY <1>2, <1>4, <1>6, <1>7, <1>8 DEF RoomInv

\* It continues consistently in the next state as well.
PreparedHolds ==
    \A r : /\ Rested(r) /\ r.clean /\ r.gen # 0
           /\ r.kind \in {"join", "replace", "restore"}
           /\ r.kind = "join" => r.who \in Clients
           /\ r.kind = "restore" <=> r.intent # NoIntent
           /\ r.op # 0 <=> r.kind \in Forward
           /\ ReceiptOf(r.op) = {}
           => /\ Prepared(r) \in Room /\ RoomConsistent(Prepared(r))
              /\ Prepared(r).gen = r.gen /\ Prepared(r).op \in {r.op, 0}

\* PreparedConsistent, about the state after a step.
LEMMA PreparedNext == PreparedHolds'
<1>1. PreparedHolds
  BY PreparedConsistent DEF PreparedHolds
<1>. QED  BY <1>1, PTL

\* Claims, granted or wasted.
LEMMA ClaimKept ==
    ASSUME RoomInv, NEW s \in Servers, ClaimGranted(s) \/ ClaimWasted(s)
    PROVE  RoomInv'
<1>1. PICK r \in Room : r = room[s] /\ RoomConsistent(r) /\ r.pc = "claim"
  BY RoomOf DEF ClaimGranted, ClaimWasted
<1>2. Rested(r)
  BY <1>1, ConsistentRests
<1>3. /\ ClaimWriter /\ faults' \in Nat /\ UNCHANGED <<lock, doc, used, acked, shown, nextOp>>
      /\ generation \in Nat /\ generation' = generation + 1 /\ tail' = tail
  BY RoomOf DEF ClaimGranted, ClaimWasted, ClaimWriter, Fault
<1>4. PICK l : l = Reloaded(Committed(r))
  OBVIOUS
<1>5. PICK k : k = Unloaded(Committed(r))
  OBVIOUS
<1>6. Rested(l) /\ l.clean /\ Rested(k)
  BY <1>2, <1>4, <1>5, LoadedRests, RoomOf
<1>7. /\ l.gen = r.gen /\ l.op = r.op /\ l.kind = r.kind /\ l.intent = r.intent
      /\ l.who = r.who /\ l.tail = tail /\ k.gen = r.gen
  BY <1>1, <1>4, <1>5 DEF Reloaded, Unloaded, Committed, Room
<1>8. CASE ClaimGranted(s)
  <2>1. PICK x : x = [l EXCEPT !.gen = generation + 1, !.synced = {}]
    OBVIOUS
  <2>2. /\ x \in Room /\ x.gen = generation + 1 /\ x.synced = {} /\ x.tail = l.tail
        /\ x.known = l.known /\ x.primary = l.primary /\ x.clean = l.clean
        /\ x.kind = l.kind /\ x.who = l.who /\ x.op = l.op /\ x.intent = l.intent
    <3>1. l \in Room /\ generation + 1 \in Nat
      BY <1>3, <1>6 DEF Rested
    <3>2. x \in Room
      BY <2>1, <3>1 DEF Room
    <3>. QED  BY <2>1, <3>1, <3>2 DEF Room
  <2>3. room' = [room EXCEPT ![s] = Prepared(x)]
    BY <1>1, <1>4, <1>8, <2>1 DEF ClaimGranted, SetRoom
  <2>4. /\ r.kind \in {"join", "replace", "restore"}
        /\ r.kind = "join" => r.who \in Clients
        /\ r.kind = "restore" <=> r.intent # NoIntent
        /\ r.op # 0 <=> r.kind \in Forward
        /\ ReceiptOf(r.op) = {}
    BY <1>1 DEF RoomConsistent, CommandFits, OperationFits, Forward
  \* The command goes on as it would in the new generation.
  <2>5. /\ x.tail \in Nat /\ tail \in Nat /\ x.tail = tail /\ x.known = History(x.tail)
        /\ x.clean /\ x.primary = x.known
    BY <1>6, <1>7, <2>2, RoomOf DEF Rested
  <2>6. \A o : ReceiptOf(o)' = ReceiptOf(o)
    BY <1>3 DEF ReceiptOf, ClaimWriter
  <2>7. \A n : History(n)' = History(n)
    BY <1>3 DEF History, Payloads, ClaimWriter
  <2>8. Rested(x)'
    BY <1>3, <2>2, <2>5, <2>7 DEF Rested
  <2>9. /\ Prepared(x) \in Room /\ RoomConsistent(Prepared(x))'
        /\ Prepared(x).gen = x.gen /\ Prepared(x).op \in {x.op, 0}
    <3>1. ReceiptOf(x.op)' = {}
      BY <1>7, <2>2, <2>4, <2>6
    <3>2. /\ x.clean /\ x.gen # 0 /\ x.kind \in {"join", "replace", "restore"}
          /\ x.kind = "join" => x.who \in Clients
          /\ x.kind = "restore" <=> x.intent # NoIntent
          /\ x.op # 0 <=> x.kind \in Forward
      BY <1>3, <1>7, <2>2, <2>4, <2>5
    <3>. QED  BY <2>8, <3>1, <3>2, PreparedNext DEF PreparedHolds
  <2>10. PICK m \in Room : m = Prepared(x)
    BY <2>9
  <2>11. RoomConsistent(m)'
    BY <2>9, <2>10
  <2>12. CommandFits(m) /\ KnowsPrefix(m) /\ OperationFits(m)
    BY <1>3, <2>6, <2>7, <2>11 DEF RoomConsistent, CommandFits, KnowsPrefix, OperationFits
  <2>13. /\ m.gen \in {room[s].gen, 0, generation + 1} /\ m.op \in {room[s].op, 0}
         /\ room' = [room EXCEPT ![s] = m]
    BY <1>1, <1>7, <2>2, <2>3, <2>9, <2>10
  <2>. QED  BY <1>3, <2>11, <2>12, <2>13, ClaimStep DEF RoomConsistent
<1>9. CASE ClaimWasted(s)
  <2>1. PICK x \in {r, k, CloseAll(k)} : room' = [room EXCEPT ![s] = Idle(x)]
    BY <1>1, <1>5, <1>9 DEF ClaimWasted, SetRoom
  <2>2. CloseAll(k).gen = k.gen
    BY <1>6 DEF Rested, CloseAll, Room
  <2>3. Rested(x) /\ x.gen = r.gen
    BY <1>2, <1>6, <1>7, <2>1, <2>2, CloseRests
  <2>4. PICK m \in Room : m = Idle(x) /\ RoomConsistent(m) /\ m.gen = x.gen /\ m.op = 0
    BY <2>3, IdleReady, IdleConsistent DEF Rested
  <2>5. /\ m.gen \in {room[s].gen, 0, generation + 1} /\ m.op \in {room[s].op, 0}
        /\ room' = [room EXCEPT ![s] = m]
    BY <1>1, <2>1, <2>3, <2>4
  <2>6. m.gen <= generation' /\ m.gen # generation'
    BY <1>3, <2>4 DEF RoomConsistent, WriterCurrent, Room
  <2>7. WriterCurrent(m)' /\ PeersFollow(m)'
    BY <2>4, <2>6 DEF RoomConsistent, WriterCurrent, PeersFollow
  <2>. QED  BY <1>3, <2>4, <2>5, <2>7, ClaimStep DEF RoomConsistent
<1>. QED  BY <1>8, <1>9

\* What an append does to the history.
LEMMA AppendExtends ==
    ASSUME RoomInv, NEW s \in Servers, StoreAppend(s), NEW r, r = room[s]
    PROVE  /\ r.gen = generation /\ r.tail = tail /\ r.op # 0
           /\ generation' = generation /\ tail' = tail + 1
           /\ \A n \in Nat : n <= tail => History(n)' = History(n)
           /\ History(tail)' = History(tail) \cup r.payload
           /\ \A o : o # r.op => ReceiptOf(o)' = ReceiptOf(o)
           /\ \A x \in ReceiptOf(r.op)' : x.payload = r.payload /\ x.seq = r.tail + 1
           /\ ReceiptOf(r.op)' # {}
           /\ StoreTypeOK' /\ (nextOp' = nextOp => StoreConsistent')
<1>1. r \in Room /\ RoomConsistent(r) /\ r.pc = "append"
  BY RoomOf DEF StoreAppend
<1>2. /\ StoreTypeOK /\ StoreConsistent /\ tail \in Nat /\ cutoff \in Nat /\ nextOp \in Nat
      /\ r.op \in Nat /\ r.op <= nextOp
  BY <1>1, RoomOf DEF StoreTypeOK, RoomInv, OwnersDistinct, Room
<1>3. r.gen = generation /\ r.tail = tail
  BY <1>1 DEF StoreAppend, Answer, AppendAnswer
<1>4. r.op # 0 /\ ReceiptOf(r.op) = {}
  BY <1>1 DEF RoomConsistent, CommandFits, OperationFits, Forward
<1>5. PICK y \in Operation :
          /\ y.op = r.op /\ y.seq = tail + 1 /\ y.payload = r.payload
          /\ tail' = tail + 1 /\ rows' = rows \cup {y} /\ receipts' = receipts \cup {y}
          /\ UNCHANGED <<generation, cutoff, snapshot>>
          /\ body' \in {body, r.known \cup r.payload}
  <2>. DEFINE y == [op |-> r.op, seq |-> tail + 1, payload |-> r.payload, intent |-> r.intent]
  <2>1. y \in Operation
    BY <1>1, <1>2 DEF Operation, Room
  <2>2. /\ tail' = tail + 1 /\ rows' = rows \cup {y} /\ receipts' = receipts \cup {y}
        /\ UNCHANGED <<generation, cutoff, snapshot>>
        /\ body' \in {body, r.known \cup r.payload}
    BY <1>1 DEF StoreAppend, AppendOperation, InsertOperation
  <2>3. y.op = r.op /\ y.seq = tail + 1 /\ y.payload = r.payload
    OBVIOUS
  <2>. HIDE DEF y
  <2>. QED  BY <2>1, <2>2, <2>3
<1>6. \A x \in receipts : x.seq \in Nat /\ x.seq >= 1 /\ x.seq <= tail
  BY <1>2 DEF StoreConsistent
<1>7. ASSUME NEW n \in Nat, n <= tail PROVE History(n)' = History(n)
  <2>1. {x \in receipts' : x.seq <= n} = {x \in receipts : x.seq <= n}
    BY <1>2, <1>5, <1>7
  <2>. QED  BY <2>1 DEF History, Payloads
<1>8. History(tail)' = History(tail) \cup r.payload
  <2>1. ASSUME NEW u
        PROVE  u \in History(tail)' <=> u \in History(tail) \/ u \in r.payload
    <3>1. u \in History(tail)' <=> \E x \in receipts' : x.seq <= tail' /\ u \in x.payload
      BY DEF History, Payloads
    <3>2. u \in History(tail) <=> \E x \in receipts : x.seq <= tail /\ u \in x.payload
      BY HistoryMember
    <3>3. \A x \in receipts' : x.seq <= tail'
      BY <1>2, <1>5, <1>6
    <3>. QED  BY <1>5, <1>6, <3>1, <3>2, <3>3
  <2>. QED  BY <2>1
<1>9. /\ \A o : o # r.op => ReceiptOf(o)' = ReceiptOf(o)
      /\ \A x \in ReceiptOf(r.op)' : x = y
      /\ y \in ReceiptOf(r.op)'
  BY <1>4, <1>5 DEF ReceiptOf
<1>10. StoreTypeOK'
  BY <1>1, <1>2, <1>5 DEF StoreTypeOK, Room
<1>11. ASSUME nextOp' = nextOp PROVE StoreConsistent'
  <2>1. cutoff' <= tail' /\ cutoff <= tail
    BY <1>2, <1>5 DEF StoreConsistent
  <2>2. snapshot' = History(cutoff)'
    <3>1. History(cutoff)' = History(cutoff)
      <4>1. {x \in receipts' : x.seq <= cutoff'} = {x \in receipts : x.seq <= cutoff}
        BY <1>2, <1>5, <2>1
      <4>. QED  BY <4>1 DEF History, Payloads
    <3>. QED  BY <1>2, <1>5, <3>1 DEF StoreConsistent
  <2>3. rows' = {x \in receipts' : x.seq > cutoff'}
    BY <1>2, <1>5, <2>1 DEF StoreConsistent
  <2>4. \A x \in receipts' : x.seq \in 1..tail' /\ x.op \in 1..nextOp'
    BY <1>2, <1>4, <1>5, <1>6, <1>11 DEF StoreConsistent
  <2>5. \A x, z \in receipts' : x.seq = z.seq => x = z
    BY <1>2, <1>5, <1>6 DEF StoreConsistent
  <2>. QED  BY <2>1, <2>2, <2>3, <2>4, <2>5 DEF StoreConsistent
<1>. QED  BY <1>1, <1>3, <1>4, <1>5, <1>7, <1>8, <1>9, <1>10, <1>11

\* An append keeps the invariant if its own room is consistent afterwards.
LEMMA AppendStep ==
    ASSUME RoomInv, NEW s \in Servers, StoreAppend(s), NEW r, r = room[s],
           NEW m \in Room, RoomConsistent(m)',
           room' = [room EXCEPT ![s] = m],
           m.gen \in {r.gen, 0}, m.op \in {r.op, 0},
           lock' \in Servers \cup {NoServer}, faults' \in Nat,
           doc' \in [Clients -> SUBSET Updates],
           acked' \in {acked, acked \cup r.payload},
           shown' \in {shown, shown \cup r.payload},
           UNCHANGED <<used, nextOp>>
    PROVE  RoomInv'
<1>1. r \in Room /\ RoomConsistent(r) /\ r.pc = "append" /\ r.gen # 0 /\ tail \in Nat
  BY RoomOf DEF StoreAppend, RoomConsistent, CommandFits
<1>2. /\ r.gen = generation /\ r.tail = tail /\ r.op # 0
      /\ generation' = generation /\ tail' = tail + 1
      /\ \A n \in Nat : n <= tail => History(n)' = History(n)
      /\ History(tail)' = History(tail) \cup r.payload
      /\ \A o : o # r.op => ReceiptOf(o)' = ReceiptOf(o)
      /\ StoreTypeOK' /\ StoreConsistent'
  BY AppendExtends
<1>3. room' \in [Servers -> Room] /\ r.payload \subseteq Updates
  BY <1>1 DEF RoomInv, TypeOK, RoomTypeOK, Room
<1>4. TypeOK'
  BY <1>2, <1>3 DEF RoomInv, TypeOK, RoomTypeOK
\* The other rooms have other generations and other operations.
<1>5. ASSUME NEW n \in Room, NEW t \in Servers, t # s, n = room[t], RoomConsistent(n)
      PROVE  RoomConsistent(n)'
  <2>1. n.gen # generation /\ n.op # r.op
    BY <1>1, <1>2, <1>5 DEF RoomInv, OwnersDistinct
  <2>2. ReceiptOf(n.op)' = ReceiptOf(n.op)
    BY <1>2, <2>1
  <2>3. n.tail \in Nat /\ n.tail <= tail /\ n.tail <= tail' /\ History(n.tail)' = History(n.tail)
    BY <1>1, <1>2, <1>5 DEF RoomConsistent, KnowsPrefix, Room
  <2>4. CommandFits(n)' /\ KnowsPrefix(n)'
    BY <1>5, <2>3 DEF RoomConsistent, CommandFits, KnowsPrefix
  <2>5. OperationFits(n)'
    BY <1>5, <2>2 DEF RoomConsistent, OperationFits
  <2>6. WriterCurrent(n)' /\ PeersFollow(n)'
    BY <1>2, <1>5, <2>1 DEF RoomConsistent, WriterCurrent, PeersFollow
  <2>. QED  BY <2>4, <2>5, <2>6 DEF RoomConsistent
<1>6. \A t \in Servers : RoomConsistent(room[t])'
  BY <1>5, OthersKept
<1>7. OwnersDistinct'
  BY OwnersKept
<1>8. acked' \subseteq History(tail)' /\ shown' \subseteq History(tail)'
  BY <1>2 DEF RoomInv
<1>. QED  BY <1>2, <1>4, <1>6, <1>7, <1>8 DEF RoomInv

\* The three outcomes of an append that is stored.
LEMMA AppendKept ==
    ASSUME RoomInv, NEW s \in Servers,
           AppendCommitted(s) \/ AppendUnhealthy(s) \/ AppendUnanswered(s)
    PROVE  RoomInv'
<1>1. PICK r \in Room : r = room[s] /\ RoomConsistent(r) /\ r.pc = "append"
  BY RoomOf DEF AppendCommitted, AppendUnhealthy, AppendUnanswered, StoreAppend
<1>2. /\ StoreAppend(s) /\ tail \in Nat /\ r.tail \in Nat
      /\ lock \in Servers \cup {NoServer} /\ faults \in Nat
      /\ UNCHANGED <<used, nextOp>>
  BY <1>1, RoomOf DEF AppendCommitted, AppendUnhealthy, AppendUnanswered, Room
<1>3. /\ r.gen = generation /\ r.tail = tail /\ r.op # 0
      /\ generation' = generation /\ tail' = tail + 1
      /\ \A n \in Nat : n <= tail => History(n)' = History(n)
      /\ History(tail)' = History(tail) \cup r.payload
      /\ \A x \in ReceiptOf(r.op)' : x.payload = r.payload /\ x.seq = r.tail + 1
      /\ ReceiptOf(r.op)' # {}
  BY <1>1, <1>2, AppendExtends
<1>4. /\ r.known = History(r.tail) /\ r.known = History(tail) /\ r.synced \subseteq r.conns
      /\ r.synced \subseteq Clients
      /\ \A c \in r.synced : r.known \subseteq doc[c]
      /\ r.primary \cup r.payload = r.known \cup r.payload
      /\ r.kind \in {"update"} \cup Forward /\ r.gen # 0
  BY <1>1, <1>3 DEF RoomConsistent, KnowsPrefix, CommandFits, PeersFollow, Room
<1>5. doc \in [Clients -> SUBSET Updates]
  BY DEF RoomInv, TypeOK, RoomTypeOK
<1>6. PICK j \in Room :
         /\ j = Integrated(r) /\ j.pc = "project" /\ j.gen = r.gen /\ j.tail = r.tail + 1
         /\ j.known = r.known \cup r.payload /\ j.primary = r.primary \cup r.payload
         /\ j.clean = TRUE /\ j.kind = r.kind /\ j.op = r.op /\ j.payload = r.payload
         /\ j.intent = r.intent /\ j.synced = r.synced /\ j.conns = r.conns
  BY IntegratedRoom
<1>7. History(r.tail + 1)' = r.known \cup r.payload
  BY <1>3, <1>4
<1>8. CASE AppendCommitted(s)
  <2>1. room' = [room EXCEPT ![s] = j] /\ Broadcast(r) /\ AckAuthor(r) /\ UNCHANGED <<lock, faults>>
    BY <1>1, <1>6, <1>8 DEF AppendCommitted, SetRoom
  <2>2. /\ doc' \in [Clients -> SUBSET Updates] /\ \A c \in Clients : doc[c] \subseteq doc'[c]
        /\ \A c \in r.conns : r.payload \subseteq doc'[c]
        /\ shown' \in {shown, shown \cup r.payload}
    BY <2>1, BroadcastLearns
  <2>3. CommandFits(j)' /\ OperationFits(j)'
    BY <1>1, <1>4, <1>6 DEF RoomConsistent, CommandFits, OperationFits, Forward
  <2>4. KnowsPrefix(j)'
    BY <1>2, <1>3, <1>4, <1>6, <1>7 DEF KnowsPrefix
  <2>5. WriterCurrent(j)'
    BY <1>1, <1>2, <1>3, <1>6 DEF RoomConsistent, WriterCurrent
  <2>6. PeersFollow(j)'
    <3>1. \A c \in r.synced : r.known \cup r.payload \subseteq doc'[c]
      BY <1>4, <2>2
    <3>. QED  BY <1>4, <1>6, <3>1 DEF PeersFollow
  <2>7. RoomConsistent(j)'
    BY <2>3, <2>4, <2>5, <2>6 DEF RoomConsistent
  <2>8. acked' \in {acked, acked \cup r.payload}
    BY <2>1 DEF AckAuthor
  <2>. QED  BY <1>1, <1>2, <1>6, <2>1, <2>2, <2>7, <2>8, AppendStep
<1>9. CASE AppendUnhealthy(s)
  <2>1. PICK m \in Room : m = [Unloaded(j) EXCEPT !.pc = "unhealthy"]
    BY <1>6 DEF Unloaded, Room
  <2>2. /\ m.pc = "unhealthy" /\ m.gen = j.gen /\ m.tail = j.tail /\ m.known = j.known
        /\ m.clean = FALSE /\ m.kind = j.kind /\ m.op = j.op /\ m.payload = j.payload
        /\ m.intent = j.intent /\ m.synced = j.synced /\ m.conns = j.conns
    BY <1>6, <2>1 DEF Unloaded, Room
  <2>3. /\ room' = [room EXCEPT ![s] = m] /\ AckAuthor(r) /\ UNCHANGED <<lock, doc, shown>>
        /\ faults' \in Nat
    BY <1>1, <1>2, <1>6, <1>9, <2>1 DEF AppendUnhealthy, SetRoom, Fault
  <2>4. CommandFits(m)' /\ OperationFits(m)'
    BY <1>1, <1>4, <1>6, <2>2 DEF RoomConsistent, CommandFits, OperationFits, Forward
  <2>5. KnowsPrefix(m)'
    BY <1>2, <1>3, <1>4, <1>6, <1>7, <2>2 DEF KnowsPrefix
  <2>6. WriterCurrent(m)' /\ PeersFollow(m)'
    BY <1>1, <1>2, <1>3, <1>4, <1>6, <2>2 DEF RoomConsistent, WriterCurrent, PeersFollow
  <2>7. RoomConsistent(m)'
    BY <2>4, <2>5, <2>6 DEF RoomConsistent
  <2>8. acked' \in {acked, acked \cup r.payload} /\ doc' \in [Clients -> SUBSET Updates]
    BY <1>5, <2>3 DEF AckAuthor
  <2>9. m.gen \in {r.gen, 0} /\ m.op \in {r.op, 0} /\ lock' \in Servers \cup {NoServer}
        /\ shown' \in {shown, shown \cup r.payload}
    BY <1>2, <1>6, <2>2, <2>3
  <2>. QED  BY <1>1, <1>2, <2>3, <2>7, <2>8, <2>9, AppendStep
<1>10. CASE AppendUnanswered(s)
  <2>1. UNCHANGED <<doc, acked, shown>> /\ faults' \in Nat /\ doc' \in [Clients -> SUBSET Updates]
    BY <1>2, <1>5, <1>10 DEF AppendUnanswered, Fault
  <2>2. CASE r.kind = "update"
    <3>1. PICK m \in Room : m = NewRoom("absent")
      BY NewRoomConsistent
    <3>2. /\ m.pc = "absent" /\ m.gen = 0 /\ m.tail = 0 /\ m.known = {} /\ m.clean = FALSE
          /\ m.kind = "none" /\ m.op = 0 /\ m.intent = NoIntent /\ m.synced = {}
      BY <3>1 DEF NewRoom
    <3>3. m.known = History(m.tail)' /\ m.tail <= tail'
      <4>1. RoomConsistent(m)
        BY <3>1, NewRoomConsistent
      <4>. QED  BY <1>2, <1>3, <3>2, <4>1 DEF RoomConsistent, KnowsPrefix
    <3>4. generation' \in Nat
      BY <1>3, RoomOf
    <3>5. RoomConsistent(m)'
      BY <3>2, <3>3, <3>4 DEF RoomConsistent, CommandFits, KnowsPrefix, OperationFits,
         WriterCurrent, PeersFollow, Forward
    <3>6. room' = [room EXCEPT ![s] = m] /\ lock' \in Servers \cup {NoServer}
      BY <1>1, <1>2, <1>10, <2>2, <3>1 DEF AppendUnanswered, EndRoom, SetRoom
    <3>7. m.gen \in {r.gen, 0} /\ m.op \in {r.op, 0}
      BY <3>2
    <3>. QED  BY <1>1, <1>2, <2>1, <3>5, <3>6, <3>7, AppendStep
  <2>3. CASE r.kind # "update"
    <3>1. PICK m \in Room : /\ m = [r EXCEPT !.pc = "verify"]
              /\ m.pc = "verify" /\ m.gen = r.gen /\ m.tail = r.tail
              /\ m.known = r.known /\ m.primary = r.primary /\ m.clean = r.clean
              /\ m.kind = r.kind /\ m.op = r.op /\ m.payload = r.payload
              /\ m.intent = r.intent /\ m.synced = r.synced /\ m.conns = r.conns
      BY Moved
    <3>2. History(m.tail)' = History(m.tail) /\ m.tail <= tail'
      BY <1>2, <1>3, <3>1
    <3>3. CommandFits(m)' /\ KnowsPrefix(m)'
      BY <1>1, <2>3, <3>1, <3>2 DEF RoomConsistent, CommandFits, KnowsPrefix, Forward
    <3>4. OperationFits(m)' /\ WriterCurrent(m)'
      BY <1>1, <1>2, <1>3, <3>1 DEF RoomConsistent, OperationFits, WriterCurrent
    <3>5. PeersFollow(m)'
      BY <1>4, <2>1, <3>1 DEF PeersFollow
    <3>6. RoomConsistent(m)'
      BY <3>3, <3>4, <3>5 DEF RoomConsistent
    <3>7. room' = [room EXCEPT ![s] = m] /\ lock' \in Servers \cup {NoServer}
      BY <1>1, <1>2, <1>10, <2>3, <3>1 DEF AppendUnanswered, SetRoom
    <3>. QED  BY <1>1, <1>2, <2>1, <3>1, <3>6, <3>7, AppendStep
  <2>. QED  BY <2>2, <2>3
<1>. QED  BY <1>8, <1>9, <1>10

\* Compaction replaces the operations up to the tail by their merge.
LEMMA CompactKept ==
    ASSUME RoomInv, NEW s \in Servers, Compact(s) \/ CompactUnanswered(s)
    PROVE  RoomInv'
<1>1. PICK o \in Room : o = room[s] /\ RoomConsistent(o)
  BY RoomOf
<1>2. PICK r : r = Ensured(o)
  OBVIOUS
<1>3. /\ r \in Room /\ r.pc = o.pc /\ r.gen = o.gen /\ r.op = o.op
      /\ r.kind = o.kind /\ r.intent = o.intent
  BY <1>1, <1>2 DEF Ensured, Reloaded, Room
<1>4. /\ Persisting(r) /\ CompactAnswer(r.gen, r.tail) = "Compacted"
      /\ CompactRows(r.tail, r.primary)
      /\ UNCHANGED <<lock, doc, used, acked, shown, nextOp>> /\ faults' \in Nat
  BY <1>1, <1>2, RoomOf DEF Compact, CompactUnanswered, Fault
<1>5. r.pc \in {"ready", "persist"} /\ r.gen # 0 /\ r.gen = generation /\ r.tail = tail
  BY <1>4 DEF Persisting, CompactAnswer
<1>6. Rested(r) /\ r.clean
  BY <1>1, <1>2, <1>3, <1>5, ConsistentRests, EnsuredRests
<1>7. r.primary = History(tail) /\ r.known = History(tail) /\ r.primary \subseteq Updates
  BY <1>3, <1>5, <1>6 DEF Rested, Room
<1>8. /\ tail \in Nat /\ snapshot' = History(cutoff') /\ cutoff' = tail /\ cutoff' <= tail
      /\ UNCHANGED <<generation, tail, receipts, body>>
      /\ rows' = {x \in rows : x.seq > tail}
  BY <1>4, <1>5, <1>7, RoomOf DEF CompactRows
<1>9. rows' = {x \in receipts : x.seq > cutoff'}
  <2>1. \A x \in receipts : x.seq \in Nat /\ x.seq <= tail
    BY <1>8 DEF RoomInv, StoreConsistent
  <2>2. rows \subseteq receipts
    BY DEF RoomInv, StoreConsistent
  <2>. QED  BY <1>8, <2>1, <2>2
<1>10. StoreTypeOK'
  BY <1>4, <1>5, <1>7, <1>8 DEF RoomInv, TypeOK, StoreTypeOK, CompactRows
<1>11. acked' \subseteq History(tail)
  BY <1>4 DEF RoomInv
<1>12. ASSUME room' = [room EXCEPT ![s] = Idle(r)] PROVE RoomInv'
  <2>1. PICK m \in Room : m = Idle(r) /\ RoomConsistent(m) /\ m.gen = r.gen /\ m.op = 0
    BY <1>3, <1>6, IdleReady, IdleConsistent
  <2>2. room' = [room EXCEPT ![s] = m] /\ m.gen \in {room[s].gen, 0} /\ m.op \in {room[s].op, 0}
    BY <1>1, <1>3, <1>12, <2>1
  <2>. QED  BY <1>4, <1>8, <1>9, <1>10, <1>11, <2>1, <2>2, TidyStep
<1>13. PICK m : m = [r EXCEPT !.pc = "project", !.kind = "persist", !.known = r.primary,
                             !.seq = r.tail]
  OBVIOUS
<1>14. ASSUME room' = [room EXCEPT ![s] = m] PROVE RoomInv'
  <2>1. /\ m \in Room /\ m.pc = "project" /\ m.gen = r.gen /\ m.tail = r.tail
        /\ m.known = r.primary /\ m.primary = r.primary /\ m.clean = r.clean
        /\ m.kind = "persist" /\ m.op = r.op /\ m.payload = r.payload
        /\ m.intent = r.intent /\ m.synced = r.synced /\ m.conns = r.conns
    BY <1>3, <1>13 DEF Room, Command
  <2>2. o.op = 0 /\ o.intent = NoIntent
    BY <1>1, <1>3, <1>5 DEF RoomConsistent, CommandFits, OperationFits, Forward
  <2>3. RoomConsistent(m)
    BY <1>3, <1>5, <1>6, <1>7, <2>1, <2>2 DEF Rested, RoomConsistent, CommandFits,
       KnowsPrefix, OperationFits, WriterCurrent, PeersFollow, Forward
  <2>4. m.gen \in {room[s].gen, 0} /\ m.op \in {room[s].op, 0}
    BY <1>1, <1>3, <2>1
  <2>. QED  BY <1>4, <1>8, <1>9, <1>10, <1>11, <1>14, <2>1, <2>3, <2>4, TidyStep
<1>15. CASE Compact(s)
  <2>1. room' = [room EXCEPT ![s] = IF r.tail = 0 THEN Idle(r) ELSE m]
    BY <1>1, <1>2, <1>13, <1>15 DEF Compact, SetRoom
  <2>. QED  BY <1>12, <1>14, <2>1
<1>16. CASE CompactUnanswered(s)
  <2>1. room' = [room EXCEPT ![s] = Idle(r)]
    BY <1>1, <1>2, <1>16 DEF CompactUnanswered, SetRoom
  <2>. QED  BY <1>12, <2>1
<1>. QED  BY <1>15, <1>16

\* A projection changes the body alone.
LEMMA ProjectKept ==
    ASSUME RoomInv, NEW s \in Servers, Project(s)
    PROVE  RoomInv'
<1>1. PICK r \in Room : r = room[s] /\ RoomConsistent(r) /\ r.pc = "project"
  BY RoomOf DEF Project
<1>2. /\ ProjectBody(r.primary) /\ AckCaller(r)
      /\ UNCHANGED <<lock, doc, used, shown, nextOp, faults>>
  BY <1>1 DEF Project
<1>3. UNCHANGED <<generation, tail, cutoff, snapshot, rows, receipts>> /\ body' = r.primary
  BY <1>2 DEF ProjectBody
<1>4. StoreTypeOK'
  BY <1>1, <1>3 DEF RoomInv, TypeOK, StoreTypeOK, Room
<1>5. /\ cutoff' <= tail /\ snapshot' = History(cutoff')
      /\ rows' = {x \in receipts : x.seq > cutoff'}
  BY <1>3 DEF RoomInv, StoreConsistent
<1>6. acked' \subseteq History(tail) /\ faults' \in Nat
  BY <1>1, <1>2, CallerAckStored, RoomOf
<1>7. PICK f \in Followers(r) : room' = [room EXCEPT ![s] = f]
  BY <1>1 DEF Project, SetRoom
<1>8. PICK x : /\ Rested(x) /\ x.gen = r.gen
               /\ \E q \in {"ready", "persist"} : f = [Idle(x) EXCEPT !.pc = q]
  BY <1>1, FollowersRest
<1>9. f \in Room /\ RoomConsistent(f) /\ f.gen = r.gen /\ f.op = 0
  <2>1. PICK q \in {"ready", "persist"} : f = [Idle(x) EXCEPT !.pc = q]
    BY <1>8
  <2>. QED  BY <1>8, <2>1, IdleConsistent
<1>10. f.gen \in {room[s].gen, 0} /\ f.op \in {room[s].op, 0}
  BY <1>1, <1>9
<1>. QED  BY <1>2, <1>3, <1>4, <1>5, <1>6, <1>7, <1>9, <1>10, TidyStep

-----------------------------------------------------------------------------
(* The invariant.                                                          *)

\* The seed row and no rooms.
LEMMA InitConsistent == Init => RoomInv
<1>. SUFFICES ASSUME Init PROVE RoomInv
  OBVIOUS
<1>. USE DEF Init, StoreInit
<1>1. NewRoom("absent") \in Room
  BY DEF NewRoom, Room, Command
<1>2. TypeOK
  BY <1>1 DEF TypeOK, StoreTypeOK, RoomTypeOK
<1>3. \A n : History(n) = {}
  BY DEF History, Payloads
<1>4. StoreConsistent
  BY <1>3 DEF StoreConsistent
<1>5. PICK m \in Room : m = NewRoom("absent")
  BY <1>1
<1>6. /\ m.pc = "absent" /\ m.gen = 0 /\ m.tail = 0 /\ m.known = {} /\ m.clean = FALSE
      /\ m.kind = "none" /\ m.op = 0 /\ m.intent = NoIntent /\ m.synced = {}
  BY <1>5 DEF NewRoom
<1>7. RoomConsistent(m)
  BY <1>3, <1>6 DEF RoomConsistent, CommandFits, KnowsPrefix, OperationFits,
     WriterCurrent, PeersFollow, Forward
<1>8. \A s \in Servers : room[s] = m
  BY <1>5
<1>9. \A s \in Servers : RoomConsistent(room[s])
  BY <1>7, <1>8
<1>10. OwnersDistinct
  BY <1>6, <1>8 DEF OwnersDistinct
<1>. QED  BY <1>2, <1>4, <1>9, <1>10 DEF RoomInv

\* A step that changes nothing keeps the invariant.
LEMMA StutterKept == ASSUME RoomInv, UNCHANGED vars PROVE RoomInv'
<1>1. /\ UNCHANGED <<generation, tail, cutoff, snapshot, rows, receipts, body>>
      /\ UNCHANGED <<lock, room, doc, used, acked, shown, nextOp, faults>>
  BY DEF vars, storeVars, roomVars
<1>2. (\A n : History(n)' = History(n)) /\ (\A o : ReceiptOf(o)' = ReceiptOf(o))
      /\ (\A i : RestoreOf(i)' = RestoreOf(i))
  BY <1>1 DEF History, Payloads, ReceiptOf, RestoreOf
<1>3. TypeOK'
  BY <1>1 DEF RoomInv, TypeOK, StoreTypeOK, RoomTypeOK
<1>4. StoreConsistent'
  <2>1. snapshot' = History(cutoff)'
    BY <1>1 DEF RoomInv, StoreConsistent, History, Payloads
  <2>. QED  BY <1>1, <2>1 DEF RoomInv, StoreConsistent
<1>5. ASSUME NEW s \in Servers PROVE RoomConsistent(room[s])'
  <2>1. PICK n \in Room : n = room[s] /\ RoomConsistent(n)
    BY RoomOf
  <2>2. RoomConsistent(n)'
    BY <1>1, <1>2, <2>1 DEF RoomConsistent, CommandFits, KnowsPrefix, OperationFits,
       WriterCurrent, PeersFollow
  <2>. QED  BY <1>1, <2>1, <2>2
<1>6. OwnersDistinct'
  BY <1>1 DEF RoomInv, OwnersDistinct
<1>7. acked' \subseteq History(tail)' /\ shown' \subseteq History(tail)'
  BY <1>1 DEF RoomInv, History, Payloads
<1>. QED  BY <1>3, <1>4, <1>5, <1>6, <1>7 DEF RoomInv

\* Every step of a room, of a client or of an editor keeps the invariant.
LEMMA NextKept == ASSUME RoomInv, [Next]_vars PROVE RoomInv'
<1>1. ASSUME NEW s \in Servers, RoomStep(s) PROVE RoomInv'
  <2>1. CASE StartRoom(s) \/ StopRoom(s) \/ Crash(s) \/ LoseLock(s) \/ AppendFenceLost(s)
    BY <2>1, LifecycleKept
  <2>2. CASE EngineFault(s) \/ Refresh(s)
    BY <2>2, ReadyKept
  <2>3. CASE ClaimGranted(s) \/ ClaimWasted(s)
    BY <2>3, ClaimKept
  <2>4. CASE ClaimRefused(s) \/ CompactSkipped(s)
    BY <2>4, SkippedKept
  <2>5. CASE Lookup(s)
    BY <2>5, LookupKept
  <2>6. CASE Replay(s)
    BY <2>6, ReplayKept
  <2>7. CASE AppendAmbiguous(s) \/ AppendStaleWriter(s) \/ AppendRefused(s) \/ AppendReplay(s)
    BY <2>7, AppendQuietKept
  <2>8. CASE AppendCommitted(s) \/ AppendUnhealthy(s) \/ AppendUnanswered(s)
    BY <2>8, AppendKept
  <2>9. CASE VerifyFound(s) \/ VerifyUnhealthy(s)
    BY <2>9, VerifyFoundKept, VerifyUnhealthyKept
  <2>10. CASE VerifyRefuted(s) \/ VerifyDiverges(s)
    BY <2>10, VerifyQuietKept
  <2>11. CASE Diverge(s) \/ PrimaryUnhealthy(s)
    BY <2>11, RecoveryKept
  <2>12. CASE Project(s)
    BY <2>12, ProjectKept
  <2>13. CASE ProjectStaleWriter(s) \/ ProjectSkipped(s) \/ ProjectLosesEngine(s)
    BY <2>13, ProjectQuietKept
  <2>14. CASE Compact(s) \/ CompactUnanswered(s)
    BY <2>14, CompactKept
  <2>15. CASE CompactStale(s)
    BY <2>15, CompactStaleKept
  <2>. QED  BY <1>1, <2>1, <2>2, <2>3, <2>4, <2>5, <2>6, <2>7, <2>8, <2>9, <2>10, <2>11,
               <2>12, <2>13, <2>14, <2>15 DEF RoomStep
<1>2. ASSUME NEW s \in Servers, ClientStep(s) PROVE RoomInv'
  <2>1. Writers \subseteq Clients /\ Readers \subseteq Clients
    BY DEF Clients
  <2>2. CASE \E c \in Clients : JoinWriter(s, c) \/ JoinReader(s, c)
    BY <2>2, JoinKept
  <2>3. CASE \E c \in Clients : Disconnect(s, c)
    BY <2>3, DisconnectKept
  <2>4. CASE \E c \in Clients : Sync(s, c)
    BY <2>4, SyncKept
  <2>5. CASE \E c \in Clients, p \in SUBSET Updates : ReceiveUpdate(s, c, p)
    BY <2>5, UpdateKept
  <2>6. CASE \E u \in Updates : ReplaceBody(s, u) \/ \E i \in Intents : Restore(s, i, u)
    BY <2>6, ForwardKept
  <2>. QED  BY <1>2, <2>1, <2>2, <2>3, <2>4, <2>5, <2>6 DEF ClientStep
<1>3. ASSUME NEW c \in Writers, NEW u \in Updates, Edit(c, u) PROVE RoomInv'
  BY <1>3, EditKept DEF Clients
<1>4. CASE UNCHANGED vars
  BY <1>4, StutterKept
<1>. QED  BY <1>1, <1>2, <1>3, <1>4 DEF Next

\* Every reachable state of the rooms and the store is consistent: histories,
\* generations and operations agree whatever interleaving of room steps,
\* lost answers, lost locks and crashes came before.
THEOREM Consistent == Spec => []RoomInv
BY InitConsistent, NextKept, PTL DEF Spec

-----------------------------------------------------------------------------
(* What the invariant gives.                                               *)

\* Type correctness.
THEOREM TypeCorrect == Spec => []TypeOK
<1>1. RoomInv => TypeOK
  BY DEF RoomInv
<1>. QED  BY <1>1, Consistent, PTL

\* A load returns the whole history,
LEMMA ContentOf == RoomInv => StoredContent = History(tail)
BY ContentIsHistory DEF RoomInv, TypeOK

ContentHolds == RoomInv => StoredContent = History(tail)

\* after a step as well.
LEMMA ContentOfNext == ContentHolds'
<1>1. ContentHolds
  BY ContentOf DEF ContentHolds
<1>. QED  BY <1>1, PTL

\* Whatever was acknowledged is part of what a load returns (persist before
\* the sync status and the HTTP answer).
THEOREM AcknowledgedIsDurable == Spec => []AckedDurable
<1>1. RoomInv => AckedDurable
  BY ContentOf DEF RoomInv, AckedDurable
<1>. QED  BY <1>1, Consistent, PTL

\* Whatever a client was sent is part of what a load returns (persist before
\* broadcast, and no refused candidate in a sync answer).
THEOREM ShownIsDurable == Spec => []DurableBeforeShown
<1>1. RoomInv => DurableBeforeShown
  BY ContentOf DEF RoomInv, DurableBeforeShown
<1>. QED  BY <1>1, Consistent, PTL

\* Compaction loses and invents nothing.
THEOREM SnapshotIsExact == Spec => []SnapshotExact
<1>1. RoomInv => SnapshotExact
  BY DEF RoomInv, StoreConsistent, SnapshotExact
<1>. QED  BY <1>1, Consistent, PTL

\* An idle room of the current generation knows everything that is stored.
THEOREM WriterIsCurrent == Spec => []RoomCurrent
<1>1. ASSUME RoomInv, NEW s \in Servers, room[s].pc = "ready", room[s].gen # 0,
             room[s].gen = generation
      PROVE  room[s].tail = tail /\ room[s].known = StoredContent
  BY <1>1, RoomOf, ContentOf DEF RoomConsistent, WriterCurrent, KnowsPrefix
<1>2. RoomInv => RoomCurrent
  BY <1>1 DEF RoomCurrent
<1>. QED  BY <1>2, Consistent, PTL

\* Clients that synced with it have everything that is stored.
THEOREM PeersAreComplete == Spec => []PeersComplete
<1>1. ASSUME RoomInv, NEW s \in Servers, room[s].pc = "ready", room[s].gen # 0,
             room[s].gen = generation, NEW c \in room[s].synced
      PROVE  StoredContent \subseteq doc[c]
  <2>1. room[s].tail = tail /\ room[s].known = StoredContent
    BY <1>1, RoomOf, ContentOf DEF RoomConsistent, WriterCurrent, KnowsPrefix
  <2>. QED  BY <1>1, <2>1, RoomOf DEF RoomConsistent, PeersFollow
<1>2. RoomInv => PeersComplete
  BY <1>1 DEF PeersComplete
<1>. QED  BY <1>2, Consistent, PTL

-----------------------------------------------------------------------------
(* What a step does to the store.                                          *)

\* Only three steps append, and only a claim, a compaction and a projection
\* change anything else that is stored.
LEMMA StoreWrites ==
    ASSUME [Next]_vars
    PROVE  \/ UNCHANGED storeVars
           \/ ClaimWriter
           \/ \E s \in Servers : StoreAppend(s)
           \/ \E t, b : CompactRows(t, b)
           \/ \E s \in Servers : Project(s)
<1>1. ASSUME NEW s \in Servers, RoomStep(s)
      PROVE  \/ UNCHANGED storeVars \/ ClaimWriter \/ StoreAppend(s)
             \/ (\E t, b : CompactRows(t, b)) \/ Project(s)
  <2>1. CASE AppendCommitted(s) \/ AppendUnhealthy(s) \/ AppendUnanswered(s)
    BY <2>1 DEF AppendCommitted, AppendUnhealthy, AppendUnanswered
  <2>2. CASE ClaimGranted(s) \/ ClaimWasted(s)
    BY <2>2 DEF ClaimGranted, ClaimWasted
  <2>3. CASE Compact(s) \/ CompactUnanswered(s)
    BY <2>3 DEF Compact, CompactUnanswered
  <2>4. CASE StartRoom(s) \/ StopRoom(s) \/ Crash(s) \/ LoseLock(s) \/ EngineFault(s) \/ Refresh(s)
    BY <2>4 DEF StartRoom, StopRoom, Crash, LoseLock, EngineFault, Refresh
  <2>5. CASE ClaimRefused(s) \/ Lookup(s) \/ AppendReplay(s) \/ Replay(s) \/ AppendFenceLost(s)
             \/ AppendAmbiguous(s) \/ AppendStaleWriter(s) \/ AppendRefused(s)
    BY <2>5 DEF ClaimRefused, Lookup, AppendReplay, Replay, AppendFenceLost,
       AppendAmbiguous, AppendStaleWriter, AppendRefused
  <2>6. CASE VerifyFound(s) \/ VerifyUnhealthy(s) \/ VerifyRefuted(s) \/ VerifyDiverges(s) \/ Diverge(s)
             \/ PrimaryUnhealthy(s)
    BY <2>6 DEF VerifyFound, VerifyUnhealthy, VerifyRefuted, VerifyDiverges, Diverge, PrimaryUnhealthy
  <2>7. CASE ProjectStaleWriter(s) \/ ProjectSkipped(s) \/ ProjectLosesEngine(s)
             \/ CompactStale(s) \/ CompactSkipped(s)
    BY <2>7 DEF ProjectStaleWriter, ProjectSkipped, ProjectLosesEngine, CompactStale,
       CompactSkipped
  <2>. QED  BY <1>1, <2>1, <2>2, <2>3, <2>4, <2>5, <2>6, <2>7 DEF RoomStep
<1>2. ASSUME NEW s \in Servers, ClientStep(s) PROVE UNCHANGED storeVars
  BY <1>2 DEF ClientStep, JoinWriter, JoinReader, Disconnect, Sync, ReceiveUpdate,
     ReplaceBody, Restore
<1>3. ASSUME NEW c \in Writers, NEW u \in Updates, Edit(c, u) PROVE UNCHANGED storeVars
  BY <1>3 DEF Edit
<1>4. CASE UNCHANGED vars
  BY <1>4 DEF vars
<1>. QED  BY <1>1, <1>2, <1>3, <1>4 DEF Next

\* A body is written with everything that is stored, or not at all: late
\* projections and restores are fenced by generation and tail.
THEOREM BodyIsCurrent == Spec => BodyFollowsTail
<1>1. ASSUME RoomInv, RoomInv', [Next]_vars, body' # body
      PROVE  body' = StoredContent'
  <2>1. StoredContent' = History(tail)'
    BY <1>1, ContentOfNext DEF ContentHolds
  <2>2. CASE UNCHANGED storeVars \/ ClaimWriter \/ \E t, b : CompactRows(t, b)
    BY <1>1, <2>2 DEF storeVars, ClaimWriter, CompactRows
  <2>3. ASSUME NEW s \in Servers, StoreAppend(s) PROVE body' = History(tail)'
    <3>1. PICK r \in Room : r = room[s] /\ RoomConsistent(r)
      BY <1>1, RoomOf
    <3>2. r.tail = tail /\ History(tail)' = History(tail) \cup r.payload
      BY <1>1, <2>3, <3>1, AppendExtends
    <3>3. body' = r.known \cup r.payload
      BY <1>1, <2>3, <3>1 DEF StoreAppend, AppendOperation
    <3>. QED  BY <3>1, <3>2, <3>3 DEF RoomConsistent, KnowsPrefix
  <2>4. ASSUME NEW s \in Servers, Project(s) PROVE body' = History(tail)'
    <3>1. PICK r \in Room : r = room[s] /\ RoomConsistent(r) /\ r.pc = "project"
      BY <1>1, <2>4, RoomOf DEF Project
    <3>2. r.gen = generation /\ body' = r.primary /\ UNCHANGED <<tail, receipts>>
      BY <2>4, <3>1 DEF Project, ProjectAnswer, ProjectBody
    <3>3. r.primary = History(tail)
      BY <3>1, <3>2 DEF RoomConsistent, CommandFits, KnowsPrefix, WriterCurrent
    <3>. QED  BY <3>2, <3>3 DEF History, Payloads
  <2>. QED  BY <1>1, <2>1, <2>2, <2>3, <2>4, StoreWrites
<1>2. RoomInv /\ RoomInv' /\ [Next]_vars => [body' # body => body' = StoredContent']_vars
  BY <1>1
<1>. QED  BY <1>2, Consistent, PTL DEF Spec, BodyFollowsTail

-----------------------------------------------------------------------------
(* The rooms implement CollabHistory.                                      *)

\* What a step may tell clients: at most one set of updates.
Tells == \E p : /\ acked' \in {acked, acked \cup p}
                /\ shown' \in {shown, shown \cup p}

\* Who is told nothing is told nothing wrong.
LEMMA QuietTells == ASSUME UNCHANGED <<acked, shown>> PROVE Tells
BY DEF Tells

\* A step that does not append tells only what is stored.
LEMMA TellingStep ==
    ASSUME RoomInv, RoomInv', Tells, UNCHANGED <<tail, receipts>>
    PROVE  [Abstract!HistoryNext]_(Abstract!historyVars)
<1>1. StoredContent = History(tail) /\ StoredContent' = History(tail)'
  BY ContentOf, ContentOfNext DEF ContentHolds
<1>2. StoredContent' = StoredContent
  BY <1>1 DEF History, Payloads
<1>3. PICK p : acked' \in {acked, acked \cup p} /\ shown' \in {shown, shown \cup p}
  BY DEF Tells
<1>4. CASE UNCHANGED <<acked, shown>>
  BY <1>2, <1>4 DEF Abstract!historyVars
<1>5. CASE ~UNCHANGED <<acked, shown>>
  <2>1. acked' \subseteq StoredContent' /\ shown' \subseteq StoredContent'
    BY <1>1 DEF RoomInv
  <2>2. p \subseteq StoredContent
    BY <1>2, <1>3, <1>5, <2>1
  <2>3. StoredContent \subseteq Updates
    BY <1>1, HistoryType DEF RoomInv, TypeOK
  <2>4. p \in SUBSET Updates /\ Abstract!Tell(p)
    BY <1>2, <1>3, <2>2, <2>3 DEF Abstract!Tell
  <2>. QED  BY <2>4 DEF Abstract!HistoryNext
<1>. QED  BY <1>4, <1>5

\* An append commits its payload.
LEMMA CommittingStep ==
    ASSUME RoomInv, RoomInv', NEW s \in Servers, StoreAppend(s), NEW r, r = room[s],
           acked' \in {acked, acked \cup r.payload},
           shown' \in {shown, shown \cup r.payload}
    PROVE  [Abstract!HistoryNext]_(Abstract!historyVars)
<1>1. StoredContent = History(tail) /\ StoredContent' = History(tail)'
  BY ContentOf, ContentOfNext DEF ContentHolds
<1>2. History(tail)' = History(tail) \cup r.payload /\ r.payload \in SUBSET Updates
  BY AppendExtends, RoomOf DEF Room
<1>3. Abstract!Commit(r.payload)
  BY <1>1, <1>2 DEF Abstract!Commit
<1>. QED  BY <1>2, <1>3 DEF Abstract!HistoryNext

\* Every step of the rooms is a step of the abstract document, or none.
LEMMA StepRefines ==
    ASSUME RoomInv, RoomInv', [Next]_vars
    PROVE  [Abstract!HistoryNext]_(Abstract!historyVars)
<1>1. ASSUME NEW s \in Servers, RoomStep(s)
      PROVE  [Abstract!HistoryNext]_(Abstract!historyVars)
  <2>. DEFINE Kept == Tells /\ UNCHANGED <<tail, receipts>>
  <2>1. CASE AppendCommitted(s) \/ AppendUnhealthy(s) \/ AppendUnanswered(s)
    <3>1. PICK r \in Room : r = room[s]
      BY RoomOf
    <3>2. /\ StoreAppend(s)
          /\ acked' \in {acked, acked \cup r.payload}
          /\ shown' \in {shown, shown \cup r.payload}
      BY <2>1, <3>1 DEF AppendCommitted, AppendUnhealthy, AppendUnanswered, AckAuthor, Broadcast
    <3>. QED  BY <3>1, <3>2, CommittingStep
  <2>2. CASE ClaimGranted(s) \/ ClaimWasted(s)
    <3>1. Kept
      BY <2>2, QuietTells DEF ClaimGranted, ClaimWasted, ClaimWriter
    <3>. QED  BY <3>1, TellingStep
  <2>3. CASE Compact(s) \/ CompactUnanswered(s)
    <3>1. Kept
      BY <2>3, QuietTells DEF Compact, CompactUnanswered, CompactRows
    <3>. QED  BY <3>1, TellingStep
  <2>4. CASE StartRoom(s) \/ StopRoom(s) \/ Crash(s) \/ LoseLock(s) \/ EngineFault(s) \/ Refresh(s)
    <3>1. Kept
      BY <2>4, QuietTells DEF StartRoom, StopRoom, Crash, LoseLock, EngineFault, Refresh, storeVars
    <3>. QED  BY <3>1, TellingStep
  <2>5. CASE ClaimRefused(s) \/ AppendReplay(s) \/ Replay(s) \/ AppendFenceLost(s)
             \/ AppendAmbiguous(s) \/ AppendStaleWriter(s) \/ AppendRefused(s)
    <3>1. Kept
      BY <2>5, QuietTells DEF ClaimRefused, AppendReplay, Replay, AppendFenceLost,
         AppendAmbiguous, AppendStaleWriter, AppendRefused, storeVars
    <3>. QED  BY <3>1, TellingStep
  <2>6. CASE VerifyRefuted(s) \/ VerifyDiverges(s) \/ Diverge(s) \/ PrimaryUnhealthy(s)
             \/ CompactStale(s) \/ CompactSkipped(s)
    <3>1. Kept
      BY <2>6, QuietTells DEF VerifyRefuted, VerifyDiverges, Diverge, PrimaryUnhealthy,
         CompactStale, CompactSkipped, storeVars
    <3>. QED  BY <3>1, TellingStep
  <2>7. CASE VerifyFound(s) \/ VerifyUnhealthy(s)
    <3>1. Tells
      BY <2>7 DEF VerifyFound, VerifyUnhealthy, AckAuthor, Broadcast, Tells
    <3>2. UNCHANGED <<tail, receipts>>
      BY <2>7 DEF VerifyFound, VerifyUnhealthy, storeVars
    <3>. QED  BY <3>1, <3>2, TellingStep
  <2>8. CASE Lookup(s)
    <3>1. Tells
      BY <2>8 DEF Lookup, Tells
    <3>2. UNCHANGED <<tail, receipts>>
      BY <2>8 DEF Lookup, storeVars
    <3>. QED  BY <3>1, <3>2, TellingStep
  <2>9. CASE Project(s) \/ ProjectStaleWriter(s) \/ ProjectSkipped(s) \/ ProjectLosesEngine(s)
    <3>1. Tells
      BY <2>9 DEF Project, ProjectStaleWriter, ProjectSkipped, ProjectLosesEngine,
         AckCaller, Tells
    <3>2. UNCHANGED <<tail, receipts>>
      BY <2>9 DEF Project, ProjectBody, ProjectStaleWriter, ProjectSkipped,
         ProjectLosesEngine, storeVars
    <3>. QED  BY <3>1, <3>2, TellingStep
  <2>. QED  BY <1>1, <2>1, <2>2, <2>3, <2>4, <2>5, <2>6, <2>7, <2>8, <2>9 DEF RoomStep
<1>2. ASSUME NEW s \in Servers, ClientStep(s)
      PROVE  [Abstract!HistoryNext]_(Abstract!historyVars)
  <2>1. UNCHANGED <<tail, receipts>>
    BY <1>2 DEF ClientStep, JoinWriter, JoinReader, Disconnect, Sync, ReceiveUpdate,
       ReplaceBody, Restore, storeVars
  <2>2. Tells
    <3>1. CASE \E c \in Clients : Sync(s, c)
      BY <3>1 DEF Sync, Tells
    <3>2. CASE UNCHANGED <<acked, shown>>
      BY <3>2, QuietTells
    <3>. QED  BY <1>2, <3>1, <3>2 DEF ClientStep, JoinWriter, JoinReader, Disconnect,
                 ReceiveUpdate, ReplaceBody, Restore
  <2>. QED  BY <2>1, <2>2, TellingStep
<1>3. ASSUME NEW c \in Writers, NEW u \in Updates, Edit(c, u)
      PROVE  [Abstract!HistoryNext]_(Abstract!historyVars)
  BY <1>3, QuietTells, TellingStep DEF Edit, storeVars
<1>4. CASE UNCHANGED vars
  BY <1>4, QuietTells, TellingStep DEF vars, storeVars, roomVars
<1>. QED  BY <1>1, <1>2, <1>3, <1>4 DEF Next

\* The rooms of all servers together behave as one document that only grows,
\* of which clients are told a part.
THEOREM Refinement == Spec => Implements
<1>1. Init => Abstract!HistoryInit
  BY DEF Init, StoreInit, Abstract!HistoryInit, StoredContent, Payloads, TailRows
<1>2. RoomInv /\ RoomInv' /\ [Next]_vars => [Abstract!HistoryNext]_(Abstract!historyVars)
  BY StepRefines
<1>. QED  BY <1>1, <1>2, Consistent, PTL DEF Spec, Implements, Abstract!HistorySpec
=============================================================================
