------------------------- MODULE MCAttachmentUpload -------------------------
(* Small instances of AttachmentUpload for TLC.                            *)
EXTENDS AttachmentUpload, TLC

CONSTANTS c1, c2, s1, r1, g1, a, b, short
TwoCompleters == {c1, c2}
OnePart == {1}
TwoParts == {1, 2}
CompleterSymmetry == Permutations(TwoCompleters)
=============================================================================
