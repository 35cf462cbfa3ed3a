--------------------------- MODULE MCOutboxAtomic ---------------------------
(* Small instances of OutboxAtomic for TLC.                                *)
EXTENDS OutboxAtomic, TLC

CONSTANTS o1, o2
TwoOwners == {o1, o2}
OwnerSymmetry == Permutations(TwoOwners)
=============================================================================
