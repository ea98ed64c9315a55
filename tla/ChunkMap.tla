------------------------------- MODULE ChunkMap -------------------------------
(***************************************************************************)
(* What the chunk store promises: a map that only grows.  Storing a chunk  *)
(* is one step; a restore answers with the content of a stored chunk, or   *)
(* says that there is none.  Containers, files, offsets, rollovers,        *)
(* shutdowns and restarts are not seen.                                    *)
(***************************************************************************)
CONSTANTS
  Chunk, Thread,
  Content,  \* Content[c]: what was stored under fingerprint c
  Missing,  \* Missing[c]: the answer when nothing was
  None      \* no answer

VARIABLES stored, answer

vars == <<stored, answer>>

Init == stored = {} /\ answer = [t \in Thread |-> None]

Store(c) == stored' = stored \cup {c} /\ UNCHANGED answer

Restore(t, c) ==
  /\ answer[t] = None
  /\ answer' = [answer EXCEPT ![t] =
                  IF c \in stored THEN Content[c] ELSE Missing[c]]
  /\ UNCHANGED stored

Take(t) ==
  /\ answer' = [answer EXCEPT ![t] = None]
  /\ UNCHANGED stored

Next ==
  \/ \E c \in Chunk : Store(c)
  \/ \E t \in Thread : Take(t) \/ \E c \in Chunk : Restore(t, c)

Spec == Init /\ [][Next]_vars
=============================================================================
