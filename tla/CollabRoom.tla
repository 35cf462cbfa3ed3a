----------------------------- MODULE CollabRoom -----------------------------
(***************************************************************************)
(* The collaboration rooms of one document on several servers              *)
(* (src/collab/room.rs, guard.rs, hub.rs) over the store of CollabStore,   *)
(* on PostgreSQL.                                                          *)
(*                                                                         *)
(* A room is an actor: it handles one join, frame or HTTP command at a     *)
(* time.  room[s].pc is the next database call of the command in hand, and *)
(* a step is that call with everything the room does with its answer.  A   *)
(* server owns the room while its guard connection holds the advisory lock *)
(* of the document.  The connection may die unnoticed, so two servers may  *)
(* both believe that they own it; what protects the store is the writer    *)
(* generation.                                                             *)
(***************************************************************************)
EXTENDS CollabStore

CONSTANTS
    Servers,
    NoServer,       \* nobody holds the advisory lock
    Writers,        \* clients admitted read-write
    Readers,        \* clients admitted read-only
    NoClient,       \* the command in hand came over HTTP
    MaxGen,         \* bound on writer generations
    MaxOps,         \* bound on operation ids
    MaxFaults       \* bound on faults of connections, engines and servers

Clients == Writers \cup Readers

ASSUME RoomAssumption ==
    /\ NoServer \notin Servers
    /\ NoClient \notin Clients
    /\ Writers \cap Readers = {}
    /\ MaxGen \in Nat /\ MaxOps \in Nat /\ MaxFaults \in Nat

VARIABLES
    lock,       \* the server whose guard connection holds the advisory lock
    room,       \* the room of each server
    doc,        \* the document of each client
    used,       \* updates that were produced
    acked,      \* history: updates reported as saved to whoever sent them
    shown,      \* history: updates the servers sent to clients
    nextOp,     \* operation ids (Uuid::now_v7) given out
    faults

roomVars == <<lock, room, doc, used, acked, shown, nextOp, faults>>
vars == <<storeVars, roomVars>>

Command == {"none", "join", "update", "replace", "restore", "persist"}
Forward == {"replace", "restore"}

Room == [pc      : {"absent", "ready", "claim", "lookup", "append", "verify",
                    "replay", "project", "persist", "diverge", "unhealthy"},
         gen     : Nat,                 \* writer_generation, 0 = None
         tail    : Nat,                 \* committed.tail_seq
         known   : SUBSET Updates,      \* committed snapshot and tail payloads
         primary : SUBSET Updates,      \* the engine's document
         clean   : BOOLEAN,             \* primary_loaded /\ ~primary_dirty
         conns   : SUBSET Clients,      \* connections
         synced  : SUBSET Clients,      \* of these: synced since the claim
         kind    : Command,             \* the command in hand, and its
         who     : Clients \cup {NoClient},
         op      : Nat,
         payload : SUBSET Updates,
         intent  : Intents \cup {NoIntent},
         seq     : Nat]                 \* sequence number it will project

NewRoom(pc) ==
    [pc |-> pc, gen |-> 0, tail |-> 0, known |-> {}, primary |-> {},
     clean |-> FALSE, conns |-> {}, synced |-> {}, kind |-> "none",
     who |-> NoClient, op |-> 0, payload |-> {}, intent |-> NoIntent, seq |-> 0]

RoomTypeOK ==
    /\ lock \in Servers \cup {NoServer}
    /\ room \in [Servers -> Room]
    /\ doc \in [Clients -> SUBSET Updates]
    /\ used \subseteq Updates
    /\ acked \subseteq Updates
    /\ shown \subseteq Updates
    /\ nextOp \in Nat
    /\ faults \in Nat

TypeOK == StoreTypeOK /\ RoomTypeOK

Init ==
    /\ StoreInit
    /\ lock = NoServer
    /\ room = [s \in Servers |-> NewRoom("absent")]
    /\ doc = [c \in Clients |-> {}]
    /\ used = {}
    /\ acked = {}
    /\ shown = {}
    /\ nextOp = 0
    /\ faults = 0

-----------------------------------------------------------------------------
(* Transformations of a room.                                              *)

\* reload_primary_from_committed
Reloaded(r) == [r EXCEPT !.primary = r.known, !.clean = TRUE]

\* Variant: the engine's document is trusted as it is.
EnsuredNever(r) == r

\* ensure_primary_capacity
Ensured(r) == IF r.clean THEN r ELSE Reloaded(r)

\* The engine is gone: nothing is read from it until it is loaded again.
Unloaded(r) == [r EXCEPT !.primary = {}, !.clean = FALSE]

\* set_committed_from_load
Committed(r) == [r EXCEPT !.tail = tail, !.known = StoredContent]

\* The command in hand is finished.
Idle(r) ==
    [r EXCEPT !.pc = "ready", !.kind = "none", !.who = NoClient, !.op = 0,
              !.payload = {}, !.intent = NoIntent, !.seq = 0]

CloseAll(r) == [r EXCEPT !.conns = {}, !.synced = {}]
Close(r, c) == [r EXCEPT !.conns = @ \ {c}, !.synced = @ \ {c}]
Admit(r, c) == Idle([r EXCEPT !.conns = @ \cup {c}])

\* fatal_writer_stale and, for an update, reject_candidate
WriterStale(r) == Idle(CloseAll([Reloaded(r) EXCEPT !.gen = 0]))

\* integrate_committed_update, once the operation in hand is durable
Integrated(r) ==
    [r EXCEPT !.tail = @ + 1, !.known = @ \cup r.payload, !.clean = TRUE,
              !.primary = @ \cup r.payload, !.seq = r.tail + 1, !.pc = "project"]

SetRoom(s, r) == room' = [room EXCEPT ![s] = r]

Fault ==
    /\ faults < MaxFaults
    /\ faults' = faults + 1

Connected(c) == \E s \in Servers : c \in room[s].conns

\* Variant: only updates of clients are broadcast, HTTP writes are not.
BroadcastUpdatesOnly(r) ==
    /\ doc' = [c \in Clients |->
                  IF c \in r.conns /\ r.kind = "update" THEN doc[c] \cup r.payload ELSE doc[c]]
    /\ shown' = IF r.conns = {} THEN shown ELSE shown \cup r.payload

\* broadcast_update
Broadcast(r) ==
    /\ doc' = [c \in Clients |->
                  IF c \in r.conns THEN doc[c] \cup r.payload ELSE doc[c]]
    /\ shown' = IF r.conns = {} THEN shown ELSE shown \cup r.payload

\* send_sync_status(true): an update's author, if it is still there, learns
\* that the update is saved.  An HTTP caller is answered at the end.
AckAuthor(r) ==
    acked' = IF r.who \in r.conns THEN acked \cup r.payload ELSE acked

-----------------------------------------------------------------------------
(* Rooms come and go.                                                      *)

\* start_room, with pg_try_advisory_lock
StartRoom(s) ==
    /\ room[s].pc = "absent"
    /\ lock = NoServer
    /\ lock' = s
    /\ SetRoom(s, NewRoom("ready"))
    /\ UNCHANGED <<storeVars, doc, used, acked, shown, nextOp, faults>>

\* fatal_fence_lost and every other end of a room: the sockets are closed and
\* the guard is released.
EndRoom(s) ==
    /\ SetRoom(s, NewRoom("absent"))
    /\ lock' = IF lock = s THEN NoServer ELSE lock

\* The hub retires an idle room.
StopRoom(s) ==
    /\ room[s].pc = "ready"
    /\ room[s].conns = {}
    /\ EndRoom(s)
    /\ UNCHANGED <<storeVars, doc, used, acked, shown, nextOp, faults>>

\* The process dies, or a reload that must succeed fails.
Crash(s) ==
    /\ room[s].pc # "absent"
    /\ Fault
    /\ EndRoom(s)
    /\ UNCHANGED <<storeVars, doc, used, acked, shown, nextOp>>

\* The guard connection dies: PostgreSQL frees the lock, the room does not see it.
LoseLock(s) ==
    /\ lock = s
    /\ Fault
    /\ lock' = NoServer
    /\ UNCHANGED <<storeVars, room, doc, used, acked, shown, nextOp>>

\* recover_primary_after_engine_fault, when the reload fails as well
EngineFault(s) ==
    /\ room[s].pc = "ready"
    /\ room[s].clean
    /\ Fault
    /\ SetRoom(s, Unloaded(room[s]))
    /\ UNCHANGED <<storeVars, lock, doc, used, acked, shown, nextOp>>

\* handle_leave, eviction, revocation, a frame refused before the append, and
\* a transport that breaks at any moment
Disconnect(s, c) ==
    /\ c \in room[s].conns
    /\ SetRoom(s, Close(room[s], c))
    /\ UNCHANGED <<storeVars, lock, doc, used, acked, shown, nextOp, faults>>

\* handle_capture_revision without a writer, and the session revision of a
\* room that nobody is connected to: both load the committed state again.
Refresh(s) ==
    /\ room[s].pc = "ready"
    /\ room[s].gen = 0 \/ room[s].conns = {}
    /\ SetRoom(s, Reloaded(Committed(room[s])))
    /\ UNCHANGED <<storeVars, lock, doc, used, acked, shown, nextOp, faults>>

-----------------------------------------------------------------------------
(* Joining.                                                                *)

\* Where a command goes once the room is a writer.
Prepared(r) ==
    CASE r.kind = "join" /\ r.tail = 0 -> Admit(r, r.who)
      [] r.kind = "join" /\ r.tail > 0 ->
            [r EXCEPT !.pc = "project", !.seq = r.tail]
      [] r.kind = "replace" -> [r EXCEPT !.pc = "append"]
      [] r.kind = "restore" -> [r EXCEPT !.pc = "lookup"]

\* claim_writer is called when the room has no generation yet.
Begin(r) ==
    IF r.gen = 0 THEN [r EXCEPT !.pc = "claim"] ELSE Prepared(Ensured(r))

JoinWriter(s, c) ==
    /\ room[s].pc = "ready"
    /\ ~Connected(c)
    /\ SetRoom(s, Begin([room[s] EXCEPT !.kind = "join", !.who = c]))
    /\ UNCHANGED <<storeVars, lock, doc, used, acked, shown, nextOp, faults>>

\* A reader that finds no writer loads the committed state for itself.
JoinReader(s, c) ==
    LET r == room[s]
        l == IF r.gen = 0 THEN Reloaded(Committed(r)) ELSE Ensured(r)
    IN  /\ r.pc = "ready"
        /\ ~Connected(c)
        /\ SetRoom(s, Admit(l, c))
        /\ UNCHANGED <<storeVars, lock, doc, used, acked, shown, nextOp, faults>>

\* load_collab_native in mode ClaimWriter, on a pooled connection
ClaimGranted(s) ==
    LET l == Reloaded(Committed(room[s]))
    IN  /\ room[s].pc = "claim"
        /\ generation < MaxGen
        /\ ClaimWriter
        /\ SetRoom(s, Prepared([l EXCEPT !.gen = generation + 1, !.synced = {}]))
        /\ UNCHANGED <<lock, doc, used, acked, shown, nextOp, faults>>

\* The claim is durable, but the engine does not load (and a join closes the
\* room's connections) or the answer is lost: the room has no generation.
ClaimWasted(s) ==
    LET r == room[s]
        l == Unloaded(Committed(r))
    IN  /\ r.pc = "claim"
        /\ generation < MaxGen
        /\ Fault
        /\ ClaimWriter
        /\ \E x \in {r, IF r.kind = "join" THEN CloseAll(l) ELSE l} : SetRoom(s, Idle(x))
        /\ UNCHANGED <<lock, doc, used, acked, shown, nextOp>>

\* Not authorised, or the claim is rolled back.
ClaimRefused(s) ==
    /\ room[s].pc = "claim"
    /\ SetRoom(s, Idle(room[s]))
    /\ UNCHANGED <<storeVars, lock, doc, used, acked, shown, nextOp, faults>>

-----------------------------------------------------------------------------
(* Clients.                                                                *)

\* A client edits its own document, connected or not.
Edit(c, u) ==
    /\ u \notin used
    /\ used' = used \cup {u}
    /\ doc' = [doc EXCEPT ![c] = @ \cup {u}]
    /\ UNCHANGED <<storeVars, lock, room, acked, shown, nextOp, faults>>

\* handle_sync, step 1: the client receives the engine's document.
Sync(s, c) ==
    LET r == Ensured(room[s])
    IN  /\ r.pc = "ready"
        /\ c \in r.conns
        /\ SetRoom(s, [r EXCEPT !.synced = @ \cup {c}])
        /\ doc' = [doc EXCEPT ![c] = @ \cup r.primary]
        /\ shown' = shown \cup r.primary
        /\ UNCHANGED <<storeVars, lock, used, acked, nextOp, faults>>

\* handle_sync, step 2 or update, up to the append: the candidate is applied
\* to the engine's document to validate it.
ReceiveUpdate(s, c, p) ==
    LET r == Ensured(room[s])
    IN  /\ r.pc = "ready"
        /\ c \in r.conns
        /\ p # {} /\ p \subseteq doc[c]
        /\ r.gen # 0
        /\ nextOp < MaxOps
        /\ nextOp' = nextOp + 1
        /\ SetRoom(s, [r EXCEPT !.pc = "append", !.kind = "update", !.who = c,
                                !.op = nextOp + 1, !.payload = p,
                                !.primary = @ \cup p, !.clean = FALSE])
        /\ UNCHANGED <<storeVars, lock, doc, used, acked, shown, faults>>

\* handle_replace_body: the engine computes a forward update.
ReplaceBody(s, u) ==
    /\ room[s].pc = "ready"
    /\ u \notin used
    /\ used' = used \cup {u}
    /\ nextOp < MaxOps
    /\ nextOp' = nextOp + 1
    /\ SetRoom(s, Begin([room[s] EXCEPT !.kind = "replace", !.op = nextOp + 1,
                                        !.payload = {u}]))
    /\ UNCHANGED <<storeVars, lock, doc, acked, shown, faults>>

\* handle_restore.  A request whose expected tail is not the room's is refused
\* with no effect, unless it is a retry.
Restore(s, i, u) ==
    /\ room[s].pc = "ready"
    /\ u \notin used
    /\ used' = used \cup {u}
    /\ nextOp < MaxOps
    /\ nextOp' = nextOp + 1
    /\ SetRoom(s, Begin([room[s] EXCEPT !.kind = "restore", !.op = nextOp + 1,
                                        !.payload = {u}, !.intent = i]))
    /\ UNCHANGED <<storeVars, lock, doc, acked, shown, faults>>

\* lookup_restored_revision_backend: a retry of what was done is answered from
\* the record of it.
Lookup(s) ==
    LET r == room[s]
    IN  /\ r.pc = "lookup"
        /\ IF RestoreOf(r.intent) = {}
           THEN SetRoom(s, [r EXCEPT !.pc = "append"]) /\ UNCHANGED acked
           ELSE SetRoom(s, Idle(r)) /\ acked' = acked \cup Payloads(RestoreOf(r.intent))
        /\ UNCHANGED <<storeVars, lock, doc, used, shown, nextOp, faults>>

-----------------------------------------------------------------------------
(* The append.  An update or a replacement is written over the guard       *)
(* connection, a restore over a pooled one.                                *)

Answer(s) == AppendAnswer(room[s].gen, room[s].tail, room[s].intent)
Reachable(s) == room[s].kind = "restore" \/ lock = s

\* The payload is stored; a restore stores the body captured with it.
StoreAppend(s) ==
    LET r == room[s]
    IN  /\ r.pc = "append"
        /\ Reachable(s)
        /\ Answer(s) = "Committed"
        /\ AppendOperation(r.op, r.payload, r.intent, r.known \cup r.payload)

AppendCommitted(s) ==
    LET r == room[s]
    IN  /\ StoreAppend(s)
        /\ SetRoom(s, Integrated(r))
        /\ Broadcast(r)
        /\ AckAuthor(r)
        /\ UNCHANGED <<lock, used, nextOp, faults>>

\* The engine cannot take the committed update: the author is told, nobody
\* else is, and the room is reloaded.
AppendUnhealthy(s) ==
    LET r == room[s]
    IN  /\ StoreAppend(s)
        /\ Fault
        /\ SetRoom(s, [Unloaded(Integrated(r)) EXCEPT !.pc = "unhealthy"])
        /\ AckAuthor(r)
        /\ UNCHANGED <<lock, doc, used, shown, nextOp>>

\* Variant: a forward write whose answer is lost counts as refused.
AppendUnansweredGivesUp(s) ==
    LET r == room[s]
    IN  /\ StoreAppend(s)
        /\ IF r.kind = "update" THEN EndRoom(s)
           ELSE SetRoom(s, Idle(r)) /\ UNCHANGED lock
        /\ UNCHANGED <<doc, used, acked, shown, nextOp, faults>>

\* The commit happens, its answer is lost (as often as there are operations).  An
\* update ends the room; a forward write looks for its receipt.
AppendUnanswered(s) ==
    LET r == room[s]
    IN  /\ StoreAppend(s)
        /\ IF r.kind = "update" THEN EndRoom(s)
           ELSE SetRoom(s, [r EXCEPT !.pc = "verify"]) /\ UNCHANGED lock
        /\ UNCHANGED <<doc, used, acked, shown, nextOp, faults>>

\* The guard connection is dead: an update ends the room.
AppendFenceLost(s) ==
    /\ room[s].pc = "append"
    /\ room[s].kind = "update"
    /\ ~Reachable(s)
    /\ EndRoom(s)
    /\ UNCHANGED <<storeVars, doc, used, acked, shown, nextOp, faults>>

\* A forward write fails on its connection, or the tail moved although the
\* generation did not: was the operation committed?
AppendAmbiguous(s) ==
    LET r == room[s]
    IN  /\ r.pc = "append"
        /\ \/ r.kind \in Forward
           \/ r.kind = "update" /\ Reachable(s) /\ Answer(s) = "StaleCutoff"
        /\ SetRoom(s, [r EXCEPT !.pc = "verify"])
        /\ UNCHANGED <<storeVars, lock, doc, used, acked, shown, nextOp, faults>>

AppendStaleWriter(s) ==
    /\ room[s].pc = "append"
    /\ Reachable(s)
    /\ Answer(s) = "StaleWriter"
    /\ SetRoom(s, WriterStale(room[s]))
    /\ UNCHANGED <<storeVars, lock, doc, used, acked, shown, nextOp, faults>>

\* Variant: the refused candidate stays in the engine.
RefusedWithoutReload(r) ==
    IF r.kind = "update" THEN Idle(Close([r EXCEPT !.clean = TRUE], r.who)) ELSE Idle(r)

\* The candidate is refused: the engine is reloaded and its author disconnected.
Refused(r) ==
    IF r.kind = "update" THEN Idle(Close(Reloaded(r), r.who)) ELSE Idle(r)

\* A definite rejection (the budget, or an actor that lost its permission); for
\* a restore also a tail that moved.
AppendRefused(s) ==
    LET r == room[s]
    IN  /\ r.pc = "append"
        /\ Reachable(s)
        /\ SetRoom(s, Refused(r))
        /\ UNCHANGED <<storeVars, lock, doc, used, acked, shown, nextOp, faults>>

\* Another room has done this very restore in the meantime.
AppendReplay(s) ==
    LET r == room[s]
    IN  /\ r.pc = "append"
        /\ Answer(s) = "DuplicateAck"
        /\ SetRoom(s, [r EXCEPT !.pc = "replay"])
        /\ UNCHANGED <<storeVars, lock, doc, used, acked, shown, nextOp, faults>>

\* Variant: the retry goes on with its own payload.
ReplayKeepsPayload(s) ==
    LET r == room[s]
    IN  /\ r.pc = "replay"
        /\ \E x \in RestoreOf(r.intent) :
              SetRoom(s, [Reloaded(Committed(r)) EXCEPT !.pc = "project", !.seq = x.seq])
        /\ UNCHANGED <<storeVars, lock, doc, used, acked, shown, nextOp, faults>>

\* The durable bytes are loaded, the speculative payload is dropped.
Replay(s) ==
    LET r == room[s]
    IN  /\ r.pc = "replay"
        /\ \E x \in RestoreOf(r.intent) :
              SetRoom(s, [Reloaded(Committed(r)) EXCEPT
                             !.pc = "project", !.seq = x.seq, !.payload = x.payload])
        /\ UNCHANGED <<storeVars, lock, doc, used, acked, shown, nextOp, faults>>

\* reconcile_ambiguous_append: the receipt is there, so this is our commit.
VerifyFound(s) ==
    LET r == room[s]
    IN  /\ r.pc = "verify"
        /\ \E x \in ReceiptOf(r.op) : x.seq = r.tail + 1
        /\ SetRoom(s, Integrated(r))
        /\ Broadcast(r)
        /\ AckAuthor(r)
        /\ UNCHANGED <<storeVars, lock, used, nextOp, faults>>

\* It is, but the engine cannot take it.
VerifyUnhealthy(s) ==
    LET r == room[s]
    IN  /\ r.pc = "verify"
        /\ \E x \in ReceiptOf(r.op) : x.seq = r.tail + 1
        /\ Fault
        /\ SetRoom(s, [Unloaded(Integrated(r)) EXCEPT !.pc = "unhealthy"])
        /\ AckAuthor(r)
        /\ UNCHANGED <<storeVars, lock, doc, used, shown, nextOp>>

\* No receipt and nobody else has written either.
VerifyRefuted(s) ==
    LET r == room[s]
    IN  /\ r.pc = "verify"
        /\ ReceiptOf(r.op) = {}
        /\ tail <= r.tail
        /\ SetRoom(s, Refused(r))
        /\ UNCHANGED <<storeVars, lock, doc, used, acked, shown, nextOp, faults>>

\* Another writer was here, or the receipt cannot be read.
VerifyDiverges(s) ==
    /\ room[s].pc = "verify"
    /\ SetRoom(s, [room[s] EXCEPT !.pc = "diverge"])
    /\ UNCHANGED <<storeVars, lock, doc, used, acked, shown, nextOp, faults>>

\* fatal_room_divergence; the load may fail.
Diverge(s) ==
    /\ room[s].pc = "diverge"
    /\ \E l \in {Committed(room[s]), room[s]} :
          SetRoom(s, Idle(CloseAll([Reloaded(l) EXCEPT !.gen = 0])))
    /\ UNCHANGED <<storeVars, lock, doc, used, acked, shown, nextOp, faults>>

\* fatal_primary_unhealthy: the generation is kept; the load may fail.
PrimaryUnhealthy(s) ==
    /\ room[s].pc = "unhealthy"
    /\ \E l \in {Reloaded(Committed(room[s])), room[s]} :
          SetRoom(s, Idle(CloseAll(l)))
    /\ UNCHANGED <<storeVars, lock, doc, used, acked, shown, nextOp, faults>>

-----------------------------------------------------------------------------
(* The derived body: maybe_project_derived_body.                           *)

\* What follows the projection: a join is admitted, an update may compact.
Followers(r) ==
    CASE r.kind = "join" -> {Admit(r, r.who)}
      [] r.kind = "update" -> {Idle(r), [Idle(r) EXCEPT !.pc = "persist"]}
      [] OTHER -> {Idle(r)}

\* An HTTP caller is answered now, if the answer arrives.
AckCaller(r) ==
    acked' \in IF r.kind \in Forward THEN {acked, acked \cup r.payload} ELSE {acked}

Project(s) ==
    LET r == room[s]
    IN  /\ r.pc = "project"
        /\ ProjectAnswer(r.gen, r.seq) = "Updated"
        /\ ProjectBody(r.primary)
        /\ \E f \in Followers(r) : SetRoom(s, f)
        /\ AckCaller(r)
        /\ UNCHANGED <<lock, doc, used, shown, nextOp, faults>>

\* A newer writer: the room closes, except after a forward write.
ProjectStaleWriter(s) ==
    LET r == room[s]
    IN  /\ r.pc = "project"
        /\ ProjectAnswer(r.gen, r.seq) = "StaleWriter"
        /\ SetRoom(s, IF r.kind \in Forward THEN Idle(r) ELSE WriterStale(r))
        /\ AckCaller(r)
        /\ UNCHANGED <<storeVars, lock, doc, used, shown, nextOp, faults>>

\* The tail moved, the actor lost its permission, the database or the engine
\* fails: the body stays behind until the next projection.
ProjectSkipped(s) ==
    LET r == room[s]
    IN  /\ r.pc = "project"
        /\ \E f \in Followers(r) : SetRoom(s, f)
        /\ AckCaller(r)
        /\ UNCHANGED <<storeVars, lock, doc, used, shown, nextOp, faults>>

\* The engine fails and cannot be reloaded: a join is refused, an update makes
\* the room unhealthy.
ProjectLosesEngine(s) ==
    LET r == room[s]
    IN  /\ r.pc = "project"
        /\ Fault
        /\ SetRoom(s, IF r.kind = "update"
                      THEN [Unloaded(r) EXCEPT !.pc = "unhealthy"]
                      ELSE Idle(Unloaded(r)))
        /\ AckCaller(r)
        /\ UNCHANGED <<storeVars, lock, doc, used, shown, nextOp>>

-----------------------------------------------------------------------------
(* Compaction: run_persist_steps, for a client's persist request or after  *)
(* an update (maybe_compact).                                              *)

Persisting(r) ==
    /\ r.pc \in {"ready", "persist"}
    /\ r.conns \cap Writers # {}
    /\ r.gen # 0

Compact(s) ==
    LET r == Ensured(room[s])
    IN  /\ Persisting(r)
        /\ CompactAnswer(r.gen, r.tail) = "Compacted"
        /\ CompactRows(r.tail, r.primary)
        /\ SetRoom(s, IF r.tail = 0 THEN Idle(r)
                      ELSE [r EXCEPT !.pc = "project", !.kind = "persist",
                                     !.known = r.primary, !.seq = r.tail])
        /\ UNCHANGED <<lock, doc, used, acked, shown, nextOp, faults>>

\* The compaction is durable, its answer is lost: compact_unhealthy.
CompactUnanswered(s) ==
    LET r == Ensured(room[s])
    IN  /\ Persisting(r)
        /\ CompactAnswer(r.gen, r.tail) = "Compacted"
        /\ Fault
        /\ CompactRows(r.tail, r.primary)
        /\ SetRoom(s, Idle(r))
        /\ UNCHANGED <<lock, doc, used, acked, shown, nextOp>>

CompactStale(s) ==
    LET r == Ensured(room[s])
    IN  /\ Persisting(r)
        /\ CompactAnswer(r.gen, r.tail) \in {"StaleWriter", "StaleCutoff"}
        /\ SetRoom(s, [r EXCEPT !.pc = "diverge"])
        /\ UNCHANGED <<storeVars, lock, doc, used, acked, shown, nextOp, faults>>

\* Nothing to compact for, or a failure before the transaction commits.
CompactSkipped(s) ==
    /\ room[s].pc = "persist"
    /\ SetRoom(s, Idle(room[s]))
    /\ UNCHANGED <<storeVars, lock, doc, used, acked, shown, nextOp, faults>>

-----------------------------------------------------------------------------
RoomStep(s) ==
    \/ StartRoom(s) \/ StopRoom(s) \/ Crash(s) \/ LoseLock(s) \/ EngineFault(s)
    \/ Refresh(s)
    \/ ClaimGranted(s) \/ ClaimWasted(s) \/ ClaimRefused(s)
    \/ Lookup(s) \/ AppendReplay(s) \/ Replay(s)
    \/ AppendCommitted(s) \/ AppendUnhealthy(s) \/ AppendUnanswered(s)
    \/ AppendFenceLost(s) \/ AppendAmbiguous(s) \/ AppendStaleWriter(s)
    \/ AppendRefused(s)
    \/ VerifyFound(s) \/ VerifyUnhealthy(s) \/ VerifyRefuted(s) \/ VerifyDiverges(s)
    \/ Diverge(s) \/ PrimaryUnhealthy(s)
    \/ Project(s) \/ ProjectStaleWriter(s) \/ ProjectSkipped(s) \/ ProjectLosesEngine(s)
    \/ Compact(s) \/ CompactUnanswered(s) \/ CompactStale(s) \/ CompactSkipped(s)

ClientStep(s) ==
    \/ \E c \in Writers : JoinWriter(s, c)
    \/ \E c \in Readers : JoinReader(s, c)
    \/ \E c \in Clients : Disconnect(s, c) \/ Sync(s, c)
    \/ \E c \in Writers, p \in SUBSET Updates : ReceiveUpdate(s, c, p)
    \/ \E u \in Updates : ReplaceBody(s, u)
    \/ \E i \in Intents, u \in Updates : Restore(s, i, u)

Next ==
    \/ \E s \in Servers : RoomStep(s) \/ ClientStep(s)
    \/ \E c \in Writers, u \in Updates : Edit(c, u)

Spec == Init /\ [][Next]_vars

-----------------------------------------------------------------------------
(* Properties.                                                             *)

\* What a client or an HTTP caller was told is saved is what any later load of
\* the document returns, whatever crashed, raced or was compacted since.
AckedDurable == acked \subseteq StoredContent

\* "durable before broadcast": no client ever saw an update that a load would
\* not return; no refused or lost candidate leaks out of the engine.
DurableBeforeShown == shown \subseteq StoredContent

\* The snapshot is the merge of exactly the operations it replaces: a writer
\* that fell behind never compacts away what a newer one appended.
SnapshotExact == snapshot = History(cutoff)

\* A room that holds the current generation and is between commands knows
\* everything that is stored: an append whose answer was lost is not forgotten.
RoomCurrent ==
    \A s \in Servers :
        LET r == room[s]
        IN  r.pc = "ready" /\ r.gen # 0 /\ r.gen = generation =>
                r.tail = tail /\ r.known = StoredContent

\* A client that has synced with such a room has the whole document: HTTP
\* writes and recovered appends reach it as well.
PeersComplete ==
    \A s \in Servers :
        LET r == room[s]
        IN  r.pc = "ready" /\ r.gen # 0 /\ r.gen = generation =>
                \A c \in r.synced : StoredContent \subseteq doc[c]

\* The derived body is only ever replaced by the projection of everything that
\* is stored: a late projection never overwrites a newer body.
BodyFollowsTail == [][body' # body => body' = StoredContent']_vars

\* Servers, generations, snapshots and compaction are invisible: the rooms
\* implement a document that only grows and of which clients see a part.
Abstract == INSTANCE CollabHistory WITH content <- StoredContent
Implements == Abstract!HistorySpec

-----------------------------------------------------------------------------
(* The inductive invariant.                                                *)

\* Snapshot and tail are the two halves of the history; sequence numbers and
\* operation ids are given once.
StoreConsistent ==
    /\ cutoff <= tail
    /\ snapshot = History(cutoff)
    /\ rows = {x \in receipts : x.seq > cutoff}
    /\ \A x \in receipts : x.seq \in 1..tail /\ x.op \in 1..nextOp
    /\ \A x, y \in receipts : x.seq = y.seq => x = y

\* Where a command may stand.
CommandFits(r) ==
    /\ r.pc \in {"ready", "persist"} => r.kind = "none"
    /\ r.pc = "claim" => r.kind \in {"join"} \cup Forward
    /\ r.pc = "lookup" \/ r.pc = "replay" => r.kind = "restore"
    /\ r.pc \in {"append", "verify"} => r.kind \in {"update"} \cup Forward
    /\ r.pc = "project" => r.kind \in {"join", "update", "persist"} \cup Forward
    /\ r.pc \in {"lookup", "append", "verify", "replay", "project"} => r.gen # 0
    /\ r.pc \in {"claim", "project"} /\ r.kind = "join" => r.who \in Clients
    /\ r.kind = "restore" <=> r.intent # NoIntent

\* The room knows a prefix of the history; the engine holds just that, but for
\* a candidate update that waits for its append.
KnowsPrefix(r) ==
    /\ r.tail <= tail
    /\ r.known = History(r.tail)
    /\ r.clean => r.primary = r.known
    /\ r.pc \in {"append", "verify"} =>
          IF r.kind = "update" THEN r.primary = r.known \cup r.payload ELSE r.clean
    /\ r.pc = "lookup" \/ r.pc = "project" => r.clean
    /\ r.pc = "project" /\ r.kind \in Forward => r.payload \subseteq r.known

\* The operation in hand is not stored before its append, and a receipt found
\* afterwards is the one of that append.
OperationFits(r) ==
    /\ r.op # 0 <=> r.kind \in {"update"} \cup Forward
    /\ r.pc \in {"claim", "lookup", "append"} => ReceiptOf(r.op) = {}
    /\ r.pc = "verify" =>
          \A x \in ReceiptOf(r.op) : x.payload = r.payload /\ x.seq = r.tail + 1

\* Only the holder of the current generation appends, so it knows the tail,
\* but for its own append whose answer is still out.
WriterCurrent(r) ==
    /\ r.gen <= generation
    /\ r.gen # 0 /\ r.gen = generation =>
          \/ r.tail = tail
          \/ r.pc = "diverge"
          \/ r.pc = "verify" /\ ReceiptOf(r.op) # {} /\ tail = r.tail + 1
    /\ r.pc = "append" /\ r.kind = "restore" /\ r.gen = generation =>
          RestoreOf(r.intent) = {}
    /\ r.pc = "replay" => r.gen # generation

\* Who has synced is connected, and has what the current writer knows.
PeersFollow(r) ==
    /\ r.synced \subseteq r.conns
    /\ r.gen # 0 /\ r.gen = generation /\ r.pc \notin {"diverge", "unhealthy"} =>
          \A c \in r.synced : r.known \subseteq doc[c]

RoomConsistent(r) ==
    /\ CommandFits(r)
    /\ KnowsPrefix(r)
    /\ OperationFits(r)
    /\ WriterCurrent(r)
    /\ PeersFollow(r)

\* A generation and an operation id belong to one room.
OwnersDistinct ==
    /\ \A s \in Servers : room[s].op <= nextOp
    /\ \A s, t \in Servers : s # t =>
          /\ room[s].gen = room[t].gen => room[s].gen = 0
          /\ room[s].op = room[t].op => room[s].op = 0

\* The rooms, their operations and the store agree at every step: no history is
\* lost, no generation shared, nothing acknowledged or shown that is not stored.
RoomInv ==
    /\ TypeOK
    /\ StoreConsistent
    /\ \A s \in Servers : RoomConsistent(room[s])
    /\ OwnersDistinct
    /\ acked \subseteq History(tail)
    /\ shown \subseteq History(tail)
=============================================================================
