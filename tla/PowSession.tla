----------------------------- MODULE PowSession -----------------------------
(***************************************************************************)
(* The proof-of-ownership session.  A client process (powClient) attests   *)
(* its enclave at the server when it has no sealed session key, and later  *)
(* processes log in with the key that was sealed.  The server (DataSR::    *)
(* runPow, one thread for a connection, and powServer) keeps a session for *)
(* every client ID and checks the MACs of the fingerprint batches with its *)
(* key.                                                                    *)
(*                                                                         *)
(* A session and its key are named by the process that made them.  A call  *)
(* of the client is a request and its reply.  That two processes with      *)
(* powSessionKey equal have the same enclave key is all that is modelled   *)
(* of the attestation's cryptography; what the attestation service reports *)
(* is ignored by the code (msg4.status is set to true).                    *)
(***************************************************************************)
EXTENDS Integers, FiniteSets

CONSTANTS
    Process,         \* runs of "client -s", each at most once
    Client,          \* client IDs
    Settings,        \* [id, dir, concurrent, faults]: the client ID of a process and its working
                     \* directory, whether a process may start in a directory before the server
                     \* is done with the last one there, and what may go wrong
    Batches,         \* batches of fingerprints a process sends
    MaxRestarts,     \* bound: how often the server starts again
    None, Torn

Calls == {"logout", "login", "msg01", "msg3", "sealed", "getsk", "hash", "exit"}
Ended == {"done", "failed", "killed"}

ASSUME PowSessionAssumption ==
    /\ \A s \in Settings : s.id \in [Process -> Client] /\ s.concurrent \in BOOLEAN
    /\ Batches \in Nat \ {0} /\ MaxRestarts \in Nat
    /\ None \notin Process \union Calls \union {"ok", "no"} /\ Torn \notin Process \union {None}

VARIABLES
    setting,     \* one of the settings: it does not change
    \* client processes
    pc,          \* "off", "load", a call that waits for its reply, "seal", "write", "refused",
                 \* or how the process ended
    key,         \* powSessionKey of its enclave
    sealed,      \* pow-enclave.sealed in a directory: a key, Torn or None
    link,        \* the pow connection: "none", "open" or "lost"
    request, reply,
    answered,    \* batches the server has verified and answered
    forwarded,   \* batches passed to the sender
    \* the server
    up, restarts,
    sessions,    \* powServer::sessions, by client ID
    trusted,     \* the sessions with enclaveTrusted
    current,     \* currentSession of a thread; None is what its stack held
    computing,   \* threads inside CryptoPrimitive::cmac128
    verifying,   \* the session whose key they compute with
    clashed      \* those that have shared its context with another

Id == setting.id
Dir == setting.dir
Faults == setting.faults     \* among "kill", "restart", "lost", "ias", "nokey"
Directory == {Dir[p] : p \in Process}

clientVars == <<pc, key, sealed, forwarded>>
callVars == <<link, request, reply>>
serverVars == <<setting, up, restarts, sessions, trusted, current, computing, verifying, clashed>>
vars == <<clientVars, callVars, answered, serverVars>>

-----------------------------------------------------------------------------
(* The client *)

Running(p) == pc[p] \notin {"off"} \union Ended

AtRest(p) == ~Running(p) /\ request[p] = None /\ p \notin computing

Start(p) ==
    /\ pc[p] = "off" /\ up
    /\ setting.concurrent \/ \A q \in Process : Dir[q] = Dir[p] => AtRest(q)
    /\ pc' = [pc EXCEPT ![p] = "load"]
    /\ link' = [link EXCEPT ![p] = "open"]
    /\ UNCHANGED <<key, sealed, forwarded, request, reply, answered, serverVars>>

\* sendDataPow's send, and the client waits
Call(p, m) ==
    /\ pc' = [pc EXCEPT ![p] = m]
    /\ request' = [request EXCEPT ![p] = IF link[p] = "open" THEN m ELSE None]

\* mutant: every process logs out first and attests anew
LoadNothing(p) ==
    /\ pc[p] = "load"
    /\ Call(p, "logout")
    /\ UNCHANGED <<key, sealed, forwarded, link, reply, answered, serverVars>>

\* the constructor: loadSealedData, and powEnclaveSealedInit if there is a file
Load(p) ==
    /\ pc[p] = "load"
    /\ IF sealed[Dir[p]] = None THEN Call(p, "logout") /\ UNCHANGED key
       ELSE IF sealed[Dir[p]] = Torn       \* it cannot be unsealed: exit(0)
       THEN pc' = [pc EXCEPT ![p] = "failed"] /\ UNCHANGED <<key, request>>
       ELSE Call(p, "sealed") /\ key' = [key EXCEPT ![p] = sealed[Dir[p]]]
    /\ UNCHANGED <<sealed, forwarded, link, reply, answered, serverVars>>

\* mutant: the keys of the attestation stay in its context
NoSessionKey(p) == UNCHANGED key

\* ecall_setSessionKey
SetSessionKey(p) == key' = [key EXCEPT ![p] = p]

\* do_attestation has set the key, startMethod_ is 2
Attested(p) == key[p] = p

\* main goes on to the end, and the key is sealed by the process that has attested
Leave(p) ==
    /\ pc' = [pc EXCEPT ![p] = IF Attested(p) THEN "seal" ELSE "done"]
    /\ UNCHANGED request

\* the constructor's logins, whose result is not looked at: it is for the log only
AfterLogin(p) ==
    /\ \/ pc[p] = "logout" /\ Call(p, "login")
       \/ pc[p] = "login" /\ Call(p, "msg01")
       \/ pc[p] = "sealed" /\ Call(p, "getsk")
    /\ UNCHANGED key

\* do_attestation; if it fails, exit(0)
DoAttestation(p, ok) ==
    \/ /\ pc[p] = "msg01" /\ ok /\ Call(p, "msg3") /\ UNCHANGED key
    \/ /\ pc[p] = "msg3" /\ ok /\ Call(p, "getsk") /\ SetSessionKey(p)
    \/ /\ pc[p] \in {"msg01", "msg3"} /\ ~ok
       /\ pc' = [pc EXCEPT ![p] = "failed"] /\ UNCHANGED <<key, request>>

\* main goes on when a call is over
AfterCall(p, ok) ==
    /\ \/ AfterLogin(p) \/ DoAttestation(p, ok)
       \/ pc[p] = "getsk" /\ ok /\ Call(p, "hash") /\ UNCHANGED key
       \/ pc[p] = "getsk" /\ ~ok /\ Leave(p) /\ UNCHANGED key
       \/ pc[p] = "exit" /\ Leave(p) /\ UNCHANGED key
    /\ UNCHANGED forwarded

\* ecall_calcmac: the MAC of a batch is named by the key it is made under
Mac(p) == key[p]

\* powClient::run passes the batch on and takes the next
ForwardBatch(p) ==
    /\ forwarded' = [forwarded EXCEPT ![p] = @ + 1]
    /\ Call(p, IF forwarded[p] + 1 < Batches THEN "hash" ELSE "exit")

\* or leaves its loop, and tells the sender that there is no more
RefuseBatch(p) ==
    /\ pc' = [pc EXCEPT ![p] = "refused"]
    /\ UNCHANGED <<forwarded, request>>

\* mutant: netstatus is not looked at
ReceiveAny(p) ==
    /\ pc[p] \in Calls /\ reply[p] # None
    /\ reply' = [reply EXCEPT ![p] = None]
    /\ IF pc[p] = "hash" THEN ForwardBatch(p) /\ UNCHANGED key
       ELSE AfterCall(p, reply[p] = "ok")
    /\ UNCHANGED <<sealed, link, answered, serverVars>>

Receive(p) ==
    /\ pc[p] \in Calls /\ reply[p] # None
    /\ reply' = [reply EXCEPT ![p] = None]
    /\ IF pc[p] = "hash"
       THEN /\ IF reply[p] = "ok" THEN ForwardBatch(p) ELSE RefuseBatch(p)
            /\ UNCHANGED key
       ELSE AfterCall(p, reply[p] = "ok")
    /\ UNCHANGED <<sealed, link, answered, serverVars>>

\* send or recv fails.  sendEnclaveSignedHash leaves netstatus as it was, SUCCESS after a batch
\* that succeeded and anything before the first, and its own result is not looked at
ReceiveFails(p) ==
    /\ pc[p] \in Calls /\ link[p] = "lost" /\ reply[p] = None
    /\ IF pc[p] = "hash"
       THEN /\ \/ ForwardBatch(p)
               \/ forwarded[p] = 0 /\ RefuseBatch(p)
            /\ UNCHANGED key
       ELSE AfterCall(p, FALSE)
    /\ UNCHANGED <<sealed, link, reply, answered, serverVars>>

\* the other threads end, unless they wait for room in the queue it has left, and main joins them
LeaveRefused(p) ==
    /\ pc[p] = "refused"
    /\ Leave(p)
    /\ UNCHANGED <<key, sealed, forwarded, link, reply, answered, serverVars>>

\* ~powClient: powEnclaveSealedColse and outputSealedData, which truncates the file and writes it
Seal(p) ==
    /\ pc[p] = "seal"
    /\ sealed' = [sealed EXCEPT ![Dir[p]] = Torn]
    /\ pc' = [pc EXCEPT ![p] = "write"]
    /\ UNCHANGED <<key, forwarded, callVars, answered, serverVars>>

WriteSealed(p) ==
    /\ pc[p] = "write"
    /\ sealed' = [sealed EXCEPT ![Dir[p]] = key[p]]
    /\ pc' = [pc EXCEPT ![p] = "done"]
    /\ UNCHANGED <<key, forwarded, callVars, answered, serverVars>>

\* a request on its way may still come to the server
Kill(p) ==
    /\ "kill" \in Faults /\ Running(p)
    /\ pc' = [pc EXCEPT ![p] = "killed"]
    /\ link' = [link EXCEPT ![p] = "lost"]
    /\ request' \in {request, [request EXCEPT ![p] = None]}
    /\ reply' = [reply EXCEPT ![p] = None]
    /\ UNCHANGED <<key, sealed, forwarded, answered, serverVars>>

LoseLink(p) ==
    /\ "lost" \in Faults /\ link[p] = "open" /\ Running(p)
    /\ link' = [link EXCEPT ![p] = "lost"]
    /\ request' \in {request, [request EXCEPT ![p] = None]}
    /\ reply' = [reply EXCEPT ![p] = None]
    /\ UNCHANGED <<clientVars, answered, serverVars>>

-----------------------------------------------------------------------------
(* The thread of a connection: DataSR::runPow *)

Answer(p, r) ==
    /\ request' = [request EXCEPT ![p] = None]
    /\ reply' = [reply EXCEPT ![p] = IF link[p] = "open" THEN r ELSE None]
    /\ UNCHANGED <<setting, clientVars, link, up, restarts, computing, verifying,
                   clashed>>

Asked(p, m) == up /\ request[p] = m

\* mutant: a client that exits is logged out
LogInForgets(p) ==
    /\ Asked(p, "login") \/ Asked(p, "exit")
    /\ Answer(p, "ok")
    /\ sessions' = [sessions EXCEPT ![Id[p]] = IF request[p] = "exit" THEN None ELSE @]
    /\ UNCHANGED <<answered, trusted, current>>

\* CLIENT_SET_LOGIN and CLIENT_EXIT change nothing
LogIn(p) ==
    /\ Asked(p, "login") \/ Asked(p, "exit")
    /\ Answer(p, "ok")
    /\ UNCHANGED <<answered, sessions, trusted, current>>

\* CLIENT_SET_LOGOUT: closeSession of the client ID, whoever uses the session
LogOut(p) ==
    /\ Asked(p, "logout")
    /\ Answer(p, "ok")
    /\ sessions' = [sessions EXCEPT ![Id[p]] = None]
    /\ UNCHANGED <<answered, trusted, current>>

\* CLIENT_GET_KEY_SERVER_SK
GetKey(p) ==
    /\ Asked(p, "getsk")
    /\ \E r \in IF "nokey" \in Faults THEN {"ok", "no"} ELSE {"ok"} : Answer(p, r)
    /\ UNCHANGED <<answered, sessions, trusted, current>>

\* mutant: the thread does not keep the session
LogInSealedUnset(p) ==
    /\ Asked(p, "sealed")
    /\ Answer(p, IF sessions[Id[p]] \in trusted THEN "ok" ELSE "no")
    /\ UNCHANGED <<answered, sessions, trusted, current>>

\* CLIENT_SET_LOGIN_WITH_SEAL
LogInSealed(p) ==
    /\ Asked(p, "sealed")
    /\ IF sessions[Id[p]] \in trusted
       THEN Answer(p, "ok") /\ current' = [current EXCEPT ![p] = sessions[Id[p]]]
       ELSE Answer(p, "no") /\ UNCHANGED current
    /\ UNCHANGED <<answered, sessions, trusted>>

\* SGX_RA_MSG01: insert leaves a session that is there, and a session stays if the rest fails
ProcessMsg01(p) ==
    /\ Asked(p, "msg01")
    /\ \E r \in IF "ias" \in Faults THEN {"ok", "no"} ELSE {"ok"} : Answer(p, r)
    /\ sessions' = [sessions EXCEPT ![Id[p]] = IF @ = None THEN p ELSE @]
    /\ UNCHANGED <<answered, trusted, current>>

\* SGX_RA_MSG3: the session found must be the one with this client's g_a
ProcessMsg3(p) ==
    /\ Asked(p, "msg3")
    /\ \E ias \in IF "ias" \in Faults THEN BOOLEAN ELSE {TRUE} :
          IF sessions[Id[p]] = p /\ ias
          THEN /\ Answer(p, "ok")
               /\ trusted' = trusted \union {p}
               /\ current' = [current EXCEPT ![p] = p]
          ELSE Answer(p, "no") /\ UNCHANGED <<trusted, current>>
    /\ UNCHANGED <<answered, sessions>>

\* SGX_SIGNED_HASH without a trusted session, or what is taken for one: a reply is built, and
\* the case falls through to default, which does not send it
HashUntrusted(p) ==
    /\ Asked(p, "hash") /\ current[p] \notin trusted
    /\ request' = [request EXCEPT ![p] = None]
    /\ UNCHANGED <<clientVars, link, reply, answered, serverVars>>

\* a client that has not logged in well has a current session out of the stack, which may be
\* taken for a trusted one
PassesCheck(p) == current[p] \in trusted \/ current[p] = None

\* process_signedHash is called with the session the client ID has: cmac128 begins
VerifyBegin(p) ==
    /\ Asked(p, "hash") /\ PassesCheck(p) /\ sessions[Id[p]] # None
    /\ computing' = computing \union {p}
    /\ verifying' = [verifying EXCEPT ![p] = sessions[Id[p]]]
    /\ clashed' = IF computing = {} THEN clashed ELSE clashed \union computing \union {p}
    /\ request' = [request EXCEPT ![p] = None]
    /\ UNCHANGED <<setting, clientVars, link, reply, answered, up, restarts, sessions, trusted,
                   current>>

\* mutant: any session's key will do
RightMacAny(p) == Mac(p) \in trusted

\* the key of the session has made the client's MAC
RightMac(p) == verifying[p] \in trusted /\ verifying[p] = Mac(p)

\* cmac128 ends, with a wrong MAC maybe if its context was shared; dedupByHash, and the reply
VerifyEnd(p) ==
    /\ p \in computing
    /\ \E ok \in {RightMac(p)} \union (IF p \in clashed THEN {FALSE} ELSE {}) :
          /\ reply' = [reply EXCEPT ![p] = IF link[p] # "open" THEN None
                                           ELSE IF ok THEN "ok" ELSE "no"]
          /\ answered' = [answered EXCEPT ![p] = IF ok THEN @ + 1 ELSE @]
    /\ computing' = computing \ {p} /\ clashed' = clashed \ {p}
    /\ verifying' = [verifying EXCEPT ![p] = None]
    /\ UNCHANGED <<setting, clientVars, link, request, up, restarts, sessions, trusted, current>>

\* the process ends, and with it every session, thread and connection
Die ==
    /\ up' = FALSE
    /\ sessions' = [c \in Client |-> None] /\ trusted' = {}
    /\ current' = [p \in Process |-> None]
    /\ computing' = {} /\ clashed' = {} /\ verifying' = [p \in Process |-> None]
    /\ link' = [p \in Process |-> IF link[p] = "open" THEN "lost" ELSE link[p]]
    /\ request' = [p \in Process |-> None] /\ reply' = [p \in Process |-> None]
    /\ UNCHANGED <<setting, clientVars, answered, restarts>>

\* sessions.at throws, which nobody catches
HashThrows(p) ==
    /\ Asked(p, "hash") /\ PassesCheck(p) /\ sessions[Id[p]] = None
    /\ Die

Stop == "restart" \in Faults /\ up /\ restarts < MaxRestarts /\ Die

StartServer ==
    /\ ~up /\ restarts < MaxRestarts
    /\ up' = TRUE /\ restarts' = restarts + 1
    /\ UNCHANGED <<setting, clientVars, callVars, answered, sessions, trusted, current, computing,
                   verifying, clashed>>

-----------------------------------------------------------------------------
Init ==
    /\ setting \in Settings
    /\ pc = [p \in Process |-> "off"] /\ key = [p \in Process |-> None]
    /\ sealed = [d \in Directory |-> None] /\ link = [p \in Process |-> "none"]
    /\ request = [p \in Process |-> None] /\ reply = [p \in Process |-> None]
    /\ answered = [p \in Process |-> 0] /\ forwarded = [p \in Process |-> 0]
    /\ up = TRUE /\ restarts = 0 /\ sessions = [c \in Client |-> None] /\ trusted = {}
    /\ current = [p \in Process |-> None] /\ verifying = [p \in Process |-> None]
    /\ computing = {} /\ clashed = {}

ClientStep(p) == Load(p) \/ Receive(p) \/ ReceiveFails(p) \/ Seal(p) \/ WriteSealed(p)

ThreadStep(p) ==
    \/ LogIn(p) \/ LogOut(p) \/ GetKey(p) \/ LogInSealed(p) \/ ProcessMsg01(p) \/ ProcessMsg3(p)
    \/ HashUntrusted(p) \/ VerifyBegin(p) \/ VerifyEnd(p) \/ HashThrows(p)

Next ==
    \/ \E p \in Process : \/ Start(p) \/ ClientStep(p) \/ ThreadStep(p)
                         \/ LeaveRefused(p) \/ Kill(p) \/ LoseLink(p)
    \/ Stop \/ StartServer

\* client and server threads run; nobody has to start, stop or kill anything, and a client that
\* was refused may not come to its end
Fairness == \A p \in Process : WF_vars(ClientStep(p)) /\ WF_vars(ThreadStep(p))

Spec == Init /\ [][Next]_vars /\ Fairness

-----------------------------------------------------------------------------
(* Properties *)

TypeOK ==
    /\ setting \in Settings
    /\ pc \in [Process -> {"off", "load", "seal", "write", "refused"} \union Calls \union Ended]
    /\ key \in [Process -> Process \union {None}]
    /\ sealed \in [Directory -> Process \union {None, Torn}]
    /\ link \in [Process -> {"none", "open", "lost"}]
    /\ request \in [Process -> Calls \union {None}]
    /\ reply \in [Process -> {"ok", "no", None}]
    /\ answered \in [Process -> 0 .. Batches] /\ forwarded \in [Process -> 0 .. Batches]
    /\ up \in BOOLEAN /\ restarts \in 0 .. MaxRestarts
    /\ sessions \in [Client -> Process \union {None}] /\ trusted \subseteq Process
    /\ current \in [Process -> Process \union {None}]
    /\ computing \subseteq Process /\ clashed \subseteq computing
    /\ verifying \in [Process -> Process \union {None}]

\* the processes of a client ID run in one directory of their own, one after the other
OwnDirectory ==
    /\ ~setting.concurrent
    /\ \A p, q \in Process : (Id[p] = Id[q]) = (Dir[p] = Dir[q])

\* and there is one client only
Alone == OwnDirectory /\ \A p, q \in Process : Id[p] = Id[q]

(* What is sealed is the key the server has in the client's trusted session, whenever no process
   of the client is under way, whatever moment the others were killed at: a process seals the key
   of its own attestation, and the next attestation begins with no sealed key.  This is so while
   the server has not started again and every client keeps to its directory.  The type invariant
   is part of it. *)
SealedIsServers ==
    /\ TypeOK
    /\ OwnDirectory /\ up /\ restarts = 0 =>
          \A p \in Process :
              LET d == Dir[p]
              IN  sealed[d] \in Process /\ (\A q \in Process : Dir[q] = d => AtRest(q)) =>
                      sessions[Id[p]] = sealed[d] /\ sealed[d] \in trusted

(* The batches of a client that is alone at the server are not refused, whether its key is new or
   unsealed and whatever became of its earlier processes, unless the connection is lost. *)
NeverRefused == Alone => \A p \in Process : pc[p] = "refused" => link[p] = "lost"

(* Every batch that was answered was under a key of an attestation of the same client ID, however
   many processes share IDs and directories. *)
AnsweredAttested ==
    \A p \in Process : answered[p] > 0 => key[p] \in Process /\ Id[key[p]] = Id[p]

(* No batch goes on to the sender before the server has answered it, unless the connection is
   lost. *)
ForwardedAnswered ==
    \A p \in Process : forwarded[p] <= answered[p] \/ link[p] = "lost"

(* A batch finds the session of its client ID, without which sessions.at would throw and end the
   server, while the server has not started again and every client keeps to its directory: only
   a client without a sealed key logs out, and it attests itself before its first batch. *)
ServerLives ==
    OwnDirectory /\ restarts = 0 =>
        \A p \in Process : Asked(p, "hash") /\ PassesCheck(p) => sessions[Id[p]] # None

(* A client that starts, alone and at a server that has not started again, comes to its end or
   loses its connection. *)
Ends ==
    \A p \in Process :
        (pc[p] = "load") ~>
            (pc[p] \in Ended \/ link[p] = "lost" \/ restarts > 0 \/ ~up \/ ~Alone)

\* The same without their conditions, which the code does not meet (README, divergences)
AlwaysUp == up \/ "restart" \in Faults
NobodyRefused == \A p \in Process : pc[p] # "refused"
ForwardedAlways == \A p \in Process : forwarded[p] <= answered[p]
EveryoneEnds == \A p \in Process : (pc[p] = "load") ~> (pc[p] \in Ended \union {"refused"})
=============================================================================
