---------------------------- MODULE ServerAccept ----------------------------
(***************************************************************************)
(* The server's main thread (ServerMain.cpp) takes connections in turn:    *)
(* one on the data port, one on the pow port, and for each starts a        *)
(* thread.  A client (Sender, RecvDecode) makes its two connections in     *)
(* that order, and waits in each for the server's handshake (ssl.cpp);     *)
(* neither side looks at what the handshake returns, so a client that a    *)
(* stop of the server cuts off goes on to the next port.                   *)
(*                                                                         *)
(* The names that every module has carry a prefix here: ThreadsProofs      *)
(* extends this module and UploadPipeline.                                 *)
(***************************************************************************)
EXTENDS Integers, Sequences

CONSTANTS
    Client,
    Backlog,       \* connections that listen() keeps for one port
    MaxStarts,     \* bound: how often the server is started
    AcceptFaults,  \* "die": a client dies; "stop": the server does; "accept": a call of
                   \* accept() fails, as it does when no descriptor is left
    None

ASSUME ServerAcceptAssumption ==
    /\ Backlog \in Nat \ {0} /\ MaxStarts \in Nat /\ None \notin Client

VARIABLES
    state,      \* of a client: "off", "dataWait", "data", "powWait", "on", "exit" or "dead"
    port,       \* which port the main thread accepts on, or "down"
    dataQueue, powQueue,   \* connections not yet accepted
    dataOf,     \* the client of the last data connection
    threads,    \* the pairs of connections that threads were started for
    lingering,  \* whether the ports are still held by connections the server has closed
    starts,
    lost,       \* clients that a stop has cut off from the server they came to
    shifted     \* history: in this life of the server an accept has failed, or a client
                \* has come to the pow port that had no turn

acceptVars == <<state, port, dataQueue, powQueue, dataOf, threads, lingering, starts,
                lost, shifted>>
serverVars == <<port, dataOf, threads, lingering, starts, lost>>

-----------------------------------------------------------------------------
(* A client *)

\* connect() is refused if nobody listens, and waits while the backlog is full
ConnectData(c) ==
    /\ state[c] = "off"
    /\ IF port = "down"
       THEN state' = [state EXCEPT ![c] = "exit"] /\ UNCHANGED dataQueue
       ELSE /\ Len(dataQueue) < Backlog
            /\ dataQueue' = Append(dataQueue, c)
            /\ state' = [state EXCEPT ![c] = "dataWait"]
    /\ UNCHANGED <<powQueue, shifted, serverVars>>

ConnectPow(c) ==
    /\ state[c] = "data"
    /\ IF port = "down"
       THEN state' = [state EXCEPT ![c] = "exit"] /\ UNCHANGED <<powQueue, shifted>>
       ELSE /\ Len(powQueue) < Backlog
            /\ powQueue' = Append(powQueue, c)
            /\ state' = [state EXCEPT ![c] = "powWait"]
            /\ shifted' = (shifted \/ c \in lost)
    /\ UNCHANGED <<dataQueue, serverVars>>

\* it has done what it came for
Leave(c) ==
    /\ state[c] = "on"
    /\ state' = [state EXCEPT ![c] = "exit"]
    /\ UNCHANGED <<dataQueue, powQueue, shifted, serverVars>>

\* its connections, and those in the backlog, are closed at its end only
Die(c) ==
    /\ "die" \in AcceptFaults /\ state[c] \in {"dataWait", "data", "powWait", "on"}
    /\ state' = [state EXCEPT ![c] = "dead"]
    /\ UNCHANGED <<dataQueue, powQueue, shifted, serverVars>>

-----------------------------------------------------------------------------
(* The main thread; the result of SSL_accept is not looked at *)

Handshake(c, from, to) ==
    state' = [state EXCEPT ![c] = IF @ = from THEN to ELSE @]

\* mutant: the data connection is taken without a handshake
AcceptDataSilent ==
    /\ port = "data" /\ dataQueue # << >>
    /\ dataOf' = Head(dataQueue)
    /\ dataQueue' = Tail(dataQueue)
    /\ port' = "pow"
    /\ UNCHANGED <<state, powQueue, threads, lingering, starts, lost, shifted>>

AcceptData ==
    /\ port = "data" /\ dataQueue # << >>
    /\ dataOf' = Head(dataQueue)
    /\ Handshake(Head(dataQueue), "dataWait", "data")
    /\ dataQueue' = Tail(dataQueue)
    /\ port' = "pow"
    /\ UNCHANGED <<powQueue, threads, lingering, starts, lost, shifted>>

\* mutants: the ports are not taken in turn, or the last is not left again
AcceptPowOrData ==
    \/ /\ port = "pow" /\ powQueue # << >>
       /\ threads' = threads \union {<<dataOf, Head(powQueue)>>}
       /\ Handshake(Head(powQueue), "powWait", "on")
       /\ powQueue' = Tail(powQueue)
       /\ port' = "data"
       /\ UNCHANGED <<dataQueue, dataOf, lingering, starts, lost, shifted>>
    \/ /\ port = "pow" /\ powQueue = << >>
       /\ port' = "data"
       /\ UNCHANGED <<state, dataQueue, powQueue, dataOf, threads, lingering, starts, lost, shifted>>
AcceptPowOnly ==
    /\ port = "pow" /\ powQueue # << >>
    /\ threads' = threads \union {<<dataOf, Head(powQueue)>>}
    /\ Handshake(Head(powQueue), "powWait", "on")
    /\ powQueue' = Tail(powQueue)
    /\ UNCHANGED <<port, dataQueue, dataOf, lingering, starts, lost, shifted>>

AcceptPow ==
    /\ port = "pow" /\ powQueue # << >>
    /\ threads' = threads \union {<<dataOf, Head(powQueue)>>}
    /\ Handshake(Head(powQueue), "powWait", "on")
    /\ powQueue' = Tail(powQueue)
    /\ port' = "data"
    /\ UNCHANGED <<dataQueue, dataOf, lingering, starts, lost, shifted>>

\* accept() returns -1: the loop goes on to the next port, or to a thread, without a connection
AcceptFails ==
    /\ "accept" \in AcceptFaults /\ port \in {"data", "pow"}
    /\ shifted' = TRUE
    /\ \/ /\ port = "data"
          /\ port' = "pow" /\ dataOf' = None /\ UNCHANGED threads
       \/ /\ port = "pow"
          /\ port' = "data" /\ threads' = threads \union {<<dataOf, None>>} /\ UNCHANGED dataOf
    /\ UNCHANGED <<state, dataQueue, powQueue, lingering, starts, lost>>

\* whose connections the process has accepted
Taken == {pair[1] : pair \in threads} \union {pair[2] : pair \in threads}
         \union IF port = "pow" THEN {dataOf} ELSE {}

(* The process ends with its threads and backlogs.  A client that waits for a handshake sees it
   fail and goes on as if it had not; the side that closes first holds the ports. *)
Stop ==
    /\ "stop" \in AcceptFaults /\ port # "down" /\ starts < MaxStarts
    /\ port' = "down" /\ dataOf' = None /\ threads' = {}
    /\ dataQueue' = << >> /\ powQueue' = << >>
    /\ state' = [c \in Client |-> CASE state[c] = "dataWait" -> "data"
                                   [] state[c] = "powWait" -> "on"
                                   [] OTHER -> state[c]]
    /\ lost' = lost \union {c \in Client : state[c] \in {"dataWait", "data", "powWait", "on"}}
    /\ shifted' = FALSE
    /\ lingering' = \E c \in Taken \intersect Client : state[c] \in {"data", "powWait", "on"}
    /\ UNCHANGED starts

\* bind() fails while the ports are held: "Wait for 1 min and try again"
StartServer ==
    /\ port = "down" /\ starts < MaxStarts /\ ~lingering
    /\ port' = "data" /\ starts' = starts + 1
    /\ UNCHANGED <<state, dataQueue, powQueue, dataOf, threads, lingering, lost, shifted>>

LingerOver ==
    /\ lingering
    /\ lingering' = FALSE
    /\ UNCHANGED <<state, dataQueue, powQueue, port, dataOf, threads, starts, lost, shifted>>

-----------------------------------------------------------------------------
AcceptInit ==
    /\ state = [c \in Client |-> "off"] /\ port = "data"
    /\ dataQueue = << >> /\ powQueue = << >> /\ dataOf = None /\ threads = {}
    /\ lingering = FALSE /\ starts = 0 /\ lost = {} /\ shifted = FALSE

AcceptNext ==
    \/ \E c \in Client : ConnectData(c) \/ ConnectPow(c) \/ Leave(c) \/ Die(c)
    \/ AcceptData \/ AcceptPow \/ AcceptFails \/ Stop \/ StartServer \/ LingerOver

\* the main thread runs, and a client that has begun to connect goes on
AcceptFairness ==
    /\ WF_acceptVars(AcceptData) /\ WF_acceptVars(AcceptPow)
    /\ \A c \in Client : WF_acceptVars(ConnectPow(c))

AcceptSpec == AcceptInit /\ [][AcceptNext]_acceptVars /\ AcceptFairness

-----------------------------------------------------------------------------
(* Properties *)

AcceptTypeOK ==
    /\ state \in [Client -> {"off", "dataWait", "data", "powWait", "on", "exit", "dead"}]
    /\ port \in {"data", "pow", "down"} /\ dataOf \in Client \union {None}
    /\ dataQueue \in Seq(Client) /\ Len(dataQueue) <= Backlog
    /\ powQueue \in Seq(Client) /\ Len(powQueue) <= Backlog
    /\ threads \subseteq (Client \union {None}) \X (Client \union {None})
    /\ lingering \in BOOLEAN /\ starts \in 0 .. MaxStarts
    /\ lost \subseteq Client /\ shifted \in BOOLEAN

(* The two connections taken in a turn are those of one client, whatever clients come at once, die
   or fail and through stops and starts of the server, as long as no client that a stop had cut off
   has come to the pow port of the next server and no accept has failed. *)
OneClientATurn == ~shifted => \A pair \in threads : pair[1] = pair[2]

(* The main thread waits at the pow port only for a client that has been let past the data port
   and is on its way, or has died on it; under the same condition. *)
WaitsForOne ==
    port = "pow" /\ powQueue = << >> /\ ~shifted => state[dataOf] \in {"data", "dead"}

\* the main thread waits for the pow connection of a client that has died without it
Stuck ==
    /\ port = "pow" /\ powQueue = << >>
    /\ dataOf \in Client /\ state[dataOf] = "dead"

(* A client that comes is served, or finds the server stopped, or dies itself, unless the main
   thread is stuck with a client that has died between its two connections, or the turns have
   shifted. *)
Served ==
    \A c \in Client :
        (state[c] = "dataWait") ~> (state[c] \in {"on", "exit", "dead"} \/ Stuck \/ shifted)

\* The same without the conditions, which the code does not meet (README, divergences)
OwnTurnAlways == \A pair \in threads : pair[1] = pair[2]
ServedAlways ==
    \A c \in Client : (state[c] = "dataWait") ~> (state[c] \in {"on", "exit", "dead"})
=============================================================================
