------------------------------ MODULE MCKeyGenCFB ------------------------------
(* Instances of KeyGenCFB: one client or two, with batches full and not. *)
EXTENDS KeyGenCFB

CONSTANTS c1, c2

\* a chunk in both files, and for each client a batch of each length
MCBatches == [c \in {c1, c2} |->
                 IF c = c1 THEN <<<<"a", "b">>, <<"c", "a">>, <<"d">>>>
                           ELSE <<<<"a">>, <<"b">>>>]
=============================================================================
