---------------------------- MODULE OrderedCopy ----------------------------
(***************************************************************************)
(* What a stage that hands on a sequence promises: its output is the input *)
(* from the beginning, item by item and in order.  A Lossy stage may       *)
(* damage an item, never drop, repeat or move one.                         *)
(***************************************************************************)
EXTENDS Integers, Sequences

CONSTANTS Lossy, Damaged

VARIABLES input, out

Init == out = << >>

\* the next item
Copy ==
    /\ Len(out) < Len(input)
    /\ \E item \in {input[Len(out) + 1]} \union (IF Lossy THEN {Damaged} ELSE {}) :
          out' = Append(out, item)
    /\ UNCHANGED input

Spec == Init /\ [][Copy]_<<input, out>>
=============================================================================
