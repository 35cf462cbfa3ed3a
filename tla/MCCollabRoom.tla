---------------------------- MODULE MCCollabRoom ----------------------------
(* Model values and symmetry for the collaboration rooms.                   *)
EXTENDS CollabRoom, TLC

Symmetry == Permutations(Servers) \cup Permutations(Updates)
=============================================================================
