------------------------- MODULE MCMaintenanceClaim -------------------------
(* Small instances of MaintenanceClaim for TLC.                            *)
EXTENDS MaintenanceClaim
=============================================================================
