------------------------ MODULE MCDocumentIngestion ------------------------
(* Instances of DocumentIngestion for TLC. *)
EXTENDS DocumentIngestion

CONSTANTS d1, w1, w2

OneDocument == {d1}
TwoWorkers == {w1, w2}
OneWorker == {w1}

=============================================================================
