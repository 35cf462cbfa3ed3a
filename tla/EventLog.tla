------------------------------ MODULE EventLog ------------------------------
(***************************************************************************)
(* The append-only event log fvoci.events and the transactions that write  *)
(* it.  An event is identified by its position (xact, seq): xact is the    *)
(* PostgreSQL transaction id of the writer, allocated when the transaction *)
(* first writes, and seq comes from a sequence that is not transactional.  *)
(* Transactions commit in any order, so neither xact nor seq tells in      *)
(* which order events become visible: that is what xmin is for.            *)
(*                                                                         *)
(* The SQLite family admits one writer transaction at a time (BEGIN        *)
(* IMMEDIATE) and orders events by seq alone; with SingleWriter the order  *)
(* of positions below is exactly the order of seq.                         *)
(***************************************************************************)
EXTENDS Integers

CONSTANTS
    MaxXid,         \* bound: transaction ids that are ever allocated
    MaxSeq,         \* bound: values the sequence ever hands out
    SingleWriter    \* TRUE for the SQLite family, FALSE for PostgreSQL

ASSUME EventLogAssumption ==
    /\ MaxXid \in Nat
    /\ MaxSeq \in Nat
    /\ SingleWriter \in BOOLEAN

VARIABLES
    nextXid,    \* the next transaction id (pg_snapshot_xmax)
    nextSeq,    \* the next value of events_seq
    running,    \* the ids of the transactions in progress
    staged,     \* events inserted by transactions in progress
    log         \* committed events

logVars == <<nextXid, nextSeq, running, staged, log>>

Event == [xact : 1..MaxXid, seq : 1..MaxSeq]

\* The cursor of a consumer that has passed nothing.
Origin == [xact |-> 0, seq |-> 0]

\* Row comparison (xact, seq) < (xact, seq) and (xact, seq) <= (xact, seq).
a \prec b == a.xact < b.xact \/ (a.xact = b.xact /\ a.seq < b.seq)
a \preceq b == a.xact < b.xact \/ (a.xact = b.xact /\ a.seq <= b.seq)

\* Variant: only compares with xmax.
SettledByXmax(x) == x < nextXid

\* x < pg_snapshot_xmin: every transaction up to x has ended.
Settled(x) == x < nextXid /\ \A r \in running : x < r

\* What the relay asks of a committed position before it looks at it: SQLite
\* has no xmin and asks nothing.
Visible(x) == SingleWriter \/ Settled(x)

-----------------------------------------------------------------------------

LogInit ==
    /\ nextXid = 1
    /\ nextSeq = 1
    /\ running = {}
    /\ staged = {}
    /\ log = {}

\* A writer transaction gets its id with its first write.
BeginTx ==
    /\ nextXid <= MaxXid
    /\ SingleWriter => running = {}
    /\ nextXid' = nextXid + 1
    /\ running' = running \cup {nextXid}
    /\ UNCHANGED <<nextSeq, staged, log>>

\* INSERT INTO events: xact and seq are the column defaults.
InsertEvent(x) ==
    /\ nextSeq <= MaxSeq
    /\ staged' = staged \cup {[xact |-> x, seq |-> nextSeq]}
    /\ nextSeq' = nextSeq + 1
    /\ UNCHANGED <<nextXid, running, log>>

CommitTx(x) ==
    /\ log' = log \cup {e \in staged : e.xact = x}
    /\ staged' = {e \in staged : e.xact # x}
    /\ running' = running \ {x}
    /\ UNCHANGED <<nextXid, nextSeq>>

AbortTx(x) ==
    /\ staged' = {e \in staged : e.xact # x}
    /\ running' = running \ {x}
    /\ UNCHANGED <<nextXid, nextSeq, log>>

LogTypeOK ==
    /\ nextXid \in 1..(MaxXid + 1)
    /\ nextSeq \in 1..(MaxSeq + 1)
    /\ running \subseteq 1..(nextXid - 1)
    /\ SingleWriter => \A x \in running : nextXid = x + 1
    /\ staged \subseteq {e \in Event : e.xact \in running}
    /\ log \subseteq {e \in Event : e.xact < nextXid /\ e.xact \notin running}

=============================================================================
