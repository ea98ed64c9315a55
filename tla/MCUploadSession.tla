---------------------------- MODULE MCUploadSession ----------------------------
(* Small instances of UploadSession for TLC. *)
EXTENDS UploadSession

CONSTANTS c1, c2, a, b, d

\* A file whose last chunk repeats its first, and one with its chunks in another order.
MCFile == [c \in Client |-> IF c = c1 THEN <<a, b, a>> ELSE <<b, a>>]

\* Each file has a name of its own.
MCFileName == [c \in Client |-> c]

\* One file, whose third chunk is a duplicate of the first and whose fourth is
\* new: with batches of two, the second batch is a known and an unknown chunk.
MCOneFile == [c \in Client |-> <<a, b, a, d>>]
=============================================================================
