---------------------------- MODULE CollabStore ----------------------------
(***************************************************************************)
(* The durable side of collaborative editing for one document on           *)
(* PostgreSQL (src/db/collab.rs): its row of document_states, its update   *)
(* tail, its operation receipts and its derived body.  Every operator is   *)
(* one transaction; all of them lock the document row first, so they are   *)
(* serialised.                                                             *)
(*                                                                         *)
(* A CRDT payload is a set of updates and merging is union: that is what   *)
(* the properties need of Yjs (commutative, associative, idempotent).      *)
(***************************************************************************)
EXTENDS Integers, FiniteSets

CONSTANTS
    Updates,        \* CRDT updates
    Intents,        \* correlation ids of restore requests
    NoIntent,       \* an append that restores nothing
    MaxTail         \* MAX_COLLAB_TAIL_UPDATES

ASSUME StoreAssumption ==
    /\ NoIntent \notin Intents
    /\ MaxTail \in Nat \ {0}

VARIABLES
    generation, \* writer_generation
    tail,       \* tail_seq
    cutoff,     \* snapshot_cutoff_seq
    snapshot,   \* state
    rows,       \* document_collab_updates
    receipts,   \* document_collab_op_receipts, never deleted
    body        \* content_json of the document, derived from its updates

storeVars == <<generation, tail, cutoff, snapshot, rows, receipts, body>>

\* An update row, its receipt and, for a restore, the revision inserted with
\* them; the digest of the receipt is represented by the payload itself.
Operation == [op : Nat, seq : Nat, payload : SUBSET Updates,
              intent : Intents \cup {NoIntent}]

StoreTypeOK ==
    /\ generation \in Nat
    /\ tail \in Nat
    /\ cutoff \in Nat
    /\ snapshot \subseteq Updates
    /\ rows \subseteq Operation
    /\ receipts \subseteq Operation
    /\ body \subseteq Updates

\* ensure_collab_state: the seed row.
StoreInit ==
    /\ generation = 0
    /\ tail = 0
    /\ cutoff = 0
    /\ snapshot = {}
    /\ rows = {}
    /\ receipts = {}
    /\ body = {}

-----------------------------------------------------------------------------
(* Reading.                                                                *)

Payloads(ops) == UNION {x.payload : x \in ops}

\* The rows above the cutoff, as load_native_tail selects them.
TailRows == {x \in rows : x.seq > cutoff}

\* What a load merges into the document: the snapshot and the tail.
StoredContent == snapshot \cup Payloads(TailRows)

\* What was committed up to sequence number n.
History(n) == Payloads({x \in receipts : x.seq <= n})

\* lookup_restored_revision, native_operation_receipt
RestoreOf(i) == {x \in receipts : x.intent = i}
ReceiptOf(o) == {x \in receipts : x.op = o}

-----------------------------------------------------------------------------
(* Claiming the writer: only the generation changes.                       *)

ClaimWriter ==
    /\ generation' = generation + 1
    /\ UNCHANGED <<tail, cutoff, snapshot, rows, receipts, body>>

-----------------------------------------------------------------------------
(* Appending.  The correlation of a restore is looked up before the        *)
(* generation is compared.  Every append brings an operation id of its     *)
(* own, so the receipt of an earlier attempt is never met here.            *)

AppendAnswer(g, t, i) ==
    IF i # NoIntent /\ RestoreOf(i) # {} THEN "DuplicateAck"
    ELSE IF generation # g THEN "StaleWriter"
    ELSE IF tail # t THEN "StaleCutoff"
    ELSE IF Cardinality(TailRows) + 1 > MaxTail THEN "StateBudgetExceeded"
    ELSE "Committed"

\* advance_native_tail, insert_native_update_and_receipt
InsertOperation(o, p, i) ==
    LET x == [op |-> o, seq |-> tail + 1, payload |-> p, intent |-> i]
    IN  /\ tail' = tail + 1
        /\ rows' = rows \cup {x}
        /\ receipts' = receipts \cup {x}
        /\ UNCHANGED <<generation, cutoff, snapshot>>

\* A restore also writes the body it captured beforehand.
AppendOperation(o, p, i, captured) ==
    /\ InsertOperation(o, p, i)
    /\ body' = IF i = NoIntent THEN body ELSE captured

-----------------------------------------------------------------------------
(* Compaction: the caller's snapshot replaces every row up to its cutoff,  *)
(* which is the tail the caller expects.                                   *)

\* Variant: neither the generation nor the tail is compared.
CompactAnswerUnfenced(g, t) == "Compacted"

CompactAnswer(g, t) ==
    IF generation # g THEN "StaleWriter"
    ELSE IF tail # t THEN "StaleCutoff"
    ELSE "Compacted"

\* Variant: the cutoff is one past the last row that was merged.
CompactRowsPastTail(t, s) ==
    /\ snapshot' = s
    /\ cutoff' = t + 1
    /\ rows' = {x \in rows : x.seq > t + 1}
    /\ UNCHANGED <<generation, tail, receipts, body>>

CompactRows(t, s) ==
    /\ snapshot' = s
    /\ cutoff' = t
    /\ rows' = {x \in rows : x.seq > t}
    /\ UNCHANGED <<generation, tail, receipts, body>>

-----------------------------------------------------------------------------
(* Projection of the derived body.                                         *)

\* Variant: neither the generation nor the tail is compared.
ProjectAnswerUnfenced(g, t) == "Updated"

ProjectAnswer(g, t) ==
    IF generation # g THEN "StaleWriter"
    ELSE IF tail # t THEN "StaleCutoff"
    ELSE "Updated"

ProjectBody(b) ==
    /\ body' = b
    /\ UNCHANGED <<generation, tail, cutoff, snapshot, rows, receipts>>
=============================================================================
