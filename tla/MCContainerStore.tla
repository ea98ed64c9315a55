--------------------------- MODULE MCContainerStore ---------------------------
(* Small instances of ContainerStore for TLC. *)
EXTENDS ContainerStore

CONSTANTS c1, c2, c3

\* Chunks of different sizes, so that a container is left with room for one
\* of them and not for the other.
MCSize == [c \in Chunk |-> IF c = c1 THEN 1 ELSE 2]
=============================================================================
