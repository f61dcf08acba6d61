------------------------- MODULE MCRecordEmbeddings -------------------------
(* Values of the constants of RecordEmbeddings for TLC. *)
EXTENDS RecordEmbeddings

CONSTANTS r1, r2, w1, w2
=============================================================================
