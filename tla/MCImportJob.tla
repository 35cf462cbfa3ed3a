----------------------------- MODULE MCImportJob -----------------------------
(***************************************************************************)
(* Two import loops and the sweep, on both kinds of database and for every *)
(* source.                                                                 *)
(***************************************************************************)
EXTENDS ImportJob, TLC

CONSTANTS r1, r2

TwoRunners == {r1, r2}
BothBackends == {"postgres", "family"}
EverySource == {"office", "notion", "native"}
=============================================================================
