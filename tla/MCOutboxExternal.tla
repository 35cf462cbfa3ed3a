-------------------------- MODULE MCOutboxExternal --------------------------
(* Small instances of OutboxExternal for TLC.                              *)
EXTENDS OutboxExternal, TLC

CONSTANTS o1, o2
TwoOwners == {o1, o2}
OwnerSymmetry == Permutations(TwoOwners)
=============================================================================
