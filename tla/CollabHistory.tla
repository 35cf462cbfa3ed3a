--------------------------- MODULE CollabHistory ---------------------------
(***************************************************************************)
(* What collaborative editing of one document promises its clients,        *)
(* without servers, rooms, writer generations, snapshots or compaction:    *)
(* the document only grows, and whatever a client was told is part of it.  *)
(***************************************************************************)
CONSTANT Updates    \* CRDT updates

VARIABLES
    content,    \* what a load of the document returns
    acked,      \* updates acknowledged to their authors
    shown       \* updates the servers ever sent to a client

historyVars == <<content, acked, shown>>

HistoryInit ==
    /\ content = {}
    /\ acked = {}
    /\ shown = {}

\* A durable append.  It may be acknowledged and broadcast with it; its author
\* may also never hear of it.
Commit(p) ==
    /\ content' = content \cup p
    /\ acked' \in {acked, acked \cup p}
    /\ shown' \in {shown, shown \cup p}

\* What is durable may be acknowledged late, or sent to a client, at any time.
Tell(p) ==
    /\ p \subseteq content
    /\ acked' \in {acked, acked \cup p}
    /\ shown' \in {shown, shown \cup p}
    /\ UNCHANGED content

HistoryNext ==
    \E p \in SUBSET Updates : Commit(p) \/ Tell(p)

HistorySpec == HistoryInit /\ [][HistoryNext]_historyVars
=============================================================================
