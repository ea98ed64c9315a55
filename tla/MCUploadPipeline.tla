--------------------------- MODULE MCUploadPipeline ---------------------------
(* Instances of UploadPipeline: files of no chunk up to MaxLen chunks. *)
EXTENDS UploadPipeline

CONSTANTS a, b, c, d, MaxLen

\* files of distinct chunks, so that a lost, doubled or misplaced one shows
MCFiles == {SubSeq(<<a, b, c, d>>, 1, n) : n \in 0 .. MaxLen}
=============================================================================
