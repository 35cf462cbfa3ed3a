------------------------- MODULE MCAttachmentPreview -------------------------
(* Small instances of AttachmentPreview for TLC.                           *)
EXTENDS AttachmentPreview, TLC

CONSTANTS w1, w2
OneWorker == {w1}
TwoWorkers == {w1, w2}
WorkerSymmetry == Permutations(TwoWorkers)
=============================================================================
