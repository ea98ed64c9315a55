---------------------------- MODULE MCPowSession ----------------------------
(* Instances of PowSession: processes that follow each other in one directory, clients with a
   directory each, and processes that share client IDs and directories. *)
EXTENDS PowSession

CONSTANTS p1, p2, p3, id1, id2

Setting(id, dir, concurrent, faults) ==
    [id |-> id, dir |-> dir, concurrent |-> concurrent, faults |-> faults]

OneClient == Setting([p \in Process |-> id1], [p \in Process |-> 1], FALSE,
                     {"kill", "lost", "nokey"})
TwoClients == Setting([p \in Process |-> IF p = p2 THEN id2 ELSE id1],
                      [p \in Process |-> IF p = p2 THEN 2 ELSE 1], FALSE,
                      {"nokey", "ias", "restart"})
Shared == Setting([p \in Process |-> IF p = p1 THEN id1 ELSE id2],
                  [p \in Process |-> IF p = p3 THEN 2 ELSE 1], TRUE,
                  {})
\* two processes of one client ID in two directories, and nothing else goes wrong
Twins == Setting([p \in Process |-> id1], [p \in Process |-> IF p = p2 THEN 2 ELSE 1], FALSE, {})

MCSettings == {OneClient, TwoClients, Shared}
MCTwins == {Twins}
MCOne == {OneClient}
MCTwo == {TwoClients}
MCShared == {Shared}
=============================================================================
