------------------------------ MODULE KeyGenCFB ------------------------------
(***************************************************************************)
(* Chunk keys with KEY_GEN_SGX_CFB, the method of the default build: a     *)
(* client sends a batch of chunk hashes under the session key it has from  *)
(* the storage server, the key server's thread of this connection passes   *)
(* the message to the enclave, and the enclave answers under its own       *)
(* session key, which the key server renews when it counts no client.      *)
(*                                                                         *)
(* A session key is the number of its renewal; KeyRegression has how both  *)
(* sides come by it.  A message or reply is a record that says under which *)
(* key it is and what it carries: encryption and HMAC succeed under the    *)
(* same key and fail under another.                                        *)
(***************************************************************************)
EXTENDS Integers, Sequences, FiniteSets

CONSTANTS
    Client,
    HashBatches,    \* HashBatches[c], the batches of chunk hashes c has keys made for
    Renewals,   \* bound: how often the session key is renewed
    Kills,      \* bound: how many clients are killed
    Junk        \* what uninitialised memory holds

ASSUME CFBAssumption ==
    /\ IsFiniteSet(Client)
    /\ \A c \in Client : /\ Len(HashBatches[c]) \in Nat
                        /\ \A k \in DOMAIN HashBatches[c] : HashBatches[c][k] # << >>
    /\ Renewals \in Nat /\ Kills \in Nat

VARIABLES
    client,    \* "start", "connect", "send", "wait", "end", "failed", "dead"
    skey,      \* keyExchangeKey_
    sent,      \* the batches it has sent
    chunkKey,  \* what its buffer chunkKey holds
    keys,      \* the keys it has encrypted its chunks under, batch by batch
    request,   \* the connection, to the key server and back
    reply,
    worker,    \* "none", "enter", "recv", "ecall", "send", "return"
    asked,     \* the thread's buffer hash
    answer,    \* its buffer key, on the stack in the same place every time
    count,     \* clientThreadCount_
    renewing,  \* the update thread has seen a count of 0
    current,   \* the enclave's currentSessionKey_
    killed

keyVars == <<client, skey, sent, chunkKey, keys>>
wireVars   == <<request, reply>>
threadVars == <<worker, asked, answer, count>>
cfbVars == <<keyVars, wireVars, threadVars, renewing, current, killed>>

Nothing == [key |-> -1, hashes |-> << >>]
Message(key, hashes) == [key |-> key, hashes |-> hashes]

CFBInit ==
    /\ client = [c \in Client |-> "start"]
    /\ skey = [c \in Client |-> 0] /\ sent = [c \in Client |-> 0]
    /\ chunkKey = [c \in Client |-> Junk] /\ keys = [c \in Client |-> << >>]
    /\ request = [c \in Client |-> Nothing] /\ reply = [c \in Client |-> Nothing]
    /\ worker = [c \in Client |-> "none"]
    /\ asked = [c \in Client |-> Nothing] /\ answer = [c \in Client |-> Nothing]
    /\ count = 0 /\ renewing = FALSE /\ current = 0 /\ killed = 0

-----------------------------------------------------------------------------
(* KeyClient *)

ClientGoes(c, from, to) == client[c] = from /\ client' = [client EXCEPT ![c] = to]

\* the session key main has got from the storage server
GetSessionKey(c) ==
    /\ ClientGoes(c, "start", "connect")
    /\ skey' = [skey EXCEPT ![c] = current]
    /\ UNCHANGED <<sent, chunkKey, keys, wireVars, threadVars, renewing, current, killed>>

Connect(c) ==
    /\ ClientGoes(c, "connect", "send")
    /\ worker' = [worker EXCEPT ![c] = "enter"]
    /\ UNCHANGED <<skey, sent, chunkKey, keys, wireVars, asked, answer, count, renewing,
                   current, killed>>

\* mutant of SendBatch: the buffer of hashes still has the first batch's
SendFirst(c) ==
    /\ sent[c] < Len(HashBatches[c])
    /\ ClientGoes(c, "send", "wait")
    /\ request' = [request EXCEPT ![c] = Message(skey[c], HashBatches[c][1])]
    /\ sent' = [sent EXCEPT ![c] = @ + 1]
    /\ UNCHANGED <<skey, chunkKey, keys, reply, threadVars, renewing, current, killed>>

SendBatch(c) ==
    /\ sent[c] < Len(HashBatches[c])
    /\ ClientGoes(c, "send", "wait")
    /\ request' = [request EXCEPT ![c] = Message(skey[c], HashBatches[c][sent[c] + 1])]
    /\ sent' = [sent EXCEPT ![c] = @ + 1]
    /\ UNCHANGED <<skey, chunkKey, keys, reply, threadVars, renewing, current, killed>>

\* the HMAC over a reply of the batch's length
Authentic(c) ==
    /\ reply[c].key = skey[c]
    /\ Len(reply[c].hashes) = Len(HashBatches[c][sent[c]])

\* the key in place k of the buffer: each place has junk of its own
KeyAt(buffer, k) == <<buffer, IF buffer = Junk THEN k ELSE 0>>

KeysOf(c) == [k \in DOMAIN HashBatches[c][sent[c]] |-> KeyAt(chunkKey[c], k)]

\* keyExchange decrypts batchkeyNumber keys, and run has set batchkeyNumber to 0:
\* chunkKey stays as it is, and run clears it after the batch
AcceptReply(c) ==
    /\ reply[c] # Nothing /\ Authentic(c)
    /\ ClientGoes(c, "wait", "send")
    /\ keys' = [keys EXCEPT ![c] = Append(@, KeysOf(c))]
    /\ chunkKey' = [chunkKey EXCEPT ![c] = 0]
    /\ reply' = [reply EXCEPT ![c] = Nothing]
    /\ UNCHANGED <<skey, sent, request, threadVars, renewing, current, killed>>

\* the thread returns; the connection stays as long as the process
RefuseReply(c) ==
    /\ reply[c] # Nothing /\ ~Authentic(c)
    /\ ClientGoes(c, "wait", "failed")
    /\ reply' = [reply EXCEPT ![c] = Nothing]
    /\ UNCHANGED <<skey, sent, chunkKey, keys, request, threadVars, renewing, current, killed>>

Leave(c) ==
    /\ sent[c] = Len(HashBatches[c])
    /\ ClientGoes(c, "send", "end")
    /\ UNCHANGED <<skey, sent, chunkKey, keys, wireVars, threadVars, renewing, current, killed>>

KillClient(c) ==
    /\ killed < Kills /\ killed' = killed + 1
    /\ client[c] \notin {"start", "end", "dead"}
    /\ client' = [client EXCEPT ![c] = "dead"]
    /\ UNCHANGED <<skey, sent, chunkKey, keys, wireVars, threadVars, renewing, current>>

-----------------------------------------------------------------------------
(* keyServer::runKeyGenerateThread *)

ThreadGoes(c, from, to) == worker[c] = from /\ worker' = [worker EXCEPT ![c] = to]
Disconnected(c) == client[c] \in {"end", "dead"}

ThreadEnters(c) ==
    /\ ThreadGoes(c, "enter", "recv")
    /\ count' = count + 1
    /\ UNCHANGED <<keyVars, wireVars, asked, answer, renewing, current, killed>>

ReceiveHashes(c) ==
    /\ ThreadGoes(c, "recv", "ecall")
    /\ request[c] # Nothing
    /\ asked' = [asked EXCEPT ![c] = request[c]]
    /\ request' = [request EXCEPT ![c] = Nothing]
    /\ UNCHANGED <<keyVars, reply, answer, count, renewing, current, killed>>

\* ecall_keygen checks the HMAC, and makes the keys of the hashes under its session key
Keygen(m) == IF m.key = current THEN {m} ELSE {}

\* kmClient::request, whose result is not looked at: what answer holds after a failed
\* request is what the stack held, the last reply if that had the same length
Generate(c) ==
    /\ ThreadGoes(c, "ecall", "send")
    /\ \E held \in IF Keygen(asked[c]) # {} THEN Keygen(asked[c])
                   ELSE {Message(Junk, asked[c].hashes)} \union
                        {m \in {answer[c]} : Len(m.hashes) = Len(asked[c].hashes)} :
          answer' = [answer EXCEPT ![c] = held]
    /\ UNCHANGED <<keyVars, wireVars, asked, count, renewing, current, killed>>

\* mutant: one batch for each connection
SendKeysOnce(c) ==
    /\ ThreadGoes(c, "send", "return")
    /\ ~Disconnected(c)
    /\ reply' = [reply EXCEPT ![c] = answer[c]]
    /\ count' = count - 1
    /\ UNCHANGED <<keyVars, request, asked, answer, renewing, current, killed>>

SendKeys(c) ==
    /\ ThreadGoes(c, "send", "recv")
    /\ ~Disconnected(c)
    /\ reply' = [reply EXCEPT ![c] = answer[c]]
    /\ UNCHANGED <<keyVars, request, asked, answer, count, renewing, current, killed>>

\* mutant of ThreadReturns: a failed send returns without counting
ThreadReturnsLate(c) ==
    /\ Disconnected(c)
    /\ \/ worker[c] = "recv" /\ request[c] = Nothing /\ count' = count - 1
       \/ worker[c] = "send" /\ UNCHANGED count
    /\ worker' = [worker EXCEPT ![c] = "return"]
    /\ UNCHANGED <<keyVars, wireVars, asked, answer, renewing, current, killed>>

\* recv or send fails
ThreadReturns(c) ==
    /\ Disconnected(c)
    /\ \/ worker[c] = "recv" /\ request[c] = Nothing
       \/ worker[c] = "send"
    /\ worker' = [worker EXCEPT ![c] = "return"]
    /\ count' = count - 1
    /\ UNCHANGED <<keyVars, wireVars, asked, answer, renewing, current, killed>>

-----------------------------------------------------------------------------
(* The session key is renewed once the count of clients has been 0.         *)

SeeNobody ==
    /\ ~renewing /\ current < Renewals /\ count = 0
    /\ renewing' = TRUE
    /\ UNCHANGED <<keyVars, wireVars, threadVars, current, killed>>

Renew ==
    /\ renewing /\ renewing' = FALSE
    /\ current' = current + 1
    /\ UNCHANGED <<keyVars, wireVars, threadVars, killed>>

-----------------------------------------------------------------------------
ClientMoves(c) ==
    \/ GetSessionKey(c) \/ Connect(c) \/ SendBatch(c) \/ AcceptReply(c) \/ RefuseReply(c)
    \/ Leave(c)
ThreadMoves(c) ==
    \/ ThreadEnters(c) \/ ReceiveHashes(c) \/ Generate(c) \/ SendKeys(c) \/ ThreadReturns(c)

CFBNext ==
    \/ \E c \in Client : ClientMoves(c) \/ ThreadMoves(c) \/ KillClient(c)
    \/ SeeNobody \/ Renew

\* the threads of the clients that are not killed, and those of the key server
CFBFairness == \A c \in Client : WF_cfbVars(ClientMoves(c)) /\ WF_cfbVars(ThreadMoves(c))

CFBSpec == CFBInit /\ [][CFBNext]_cfbVars /\ CFBFairness

-----------------------------------------------------------------------------
(* Properties *)

CFBTypeOK ==
    /\ client \in [Client -> {"start", "connect", "send", "wait", "end", "failed", "dead"}]
    /\ worker \in [Client -> {"none", "enter", "recv", "ecall", "send", "return"}]
    /\ \A c \in Client : skey[c] \in 0 .. Renewals /\ sent[c] \in 0 .. Len(HashBatches[c])
    /\ count \in 0 .. Cardinality(Client)
    /\ current \in 0 .. Renewals /\ killed \in 0 .. Kills

\* The count the renewal of the session key waits on is that of the threads that
\* serve a client: each is counted once in, and once out on whichever of its
\* returns it takes.
ThreadsCounted ==
    count = Cardinality({c \in Client : worker[c] \in {"recv", "ecall", "send"}})

\* A reply the client accepts is the one to the batch it has sent, as long as the
\* session key is still the one this client has; a key server that cannot make the
\* keys sends what is left of an earlier reply (keyServer.cpp:273).
AnswersOwn ==
    \A c \in Client :
        client[c] = "wait" /\ reply[c] # Nothing /\ Authentic(c) /\ skey[c] = current
            => reply[c].hashes = HashBatches[c][sent[c]]

\* A client that is not killed, and whose session key is not renewed under it, gets the
\* keys of all its chunks; and the key server's thread returns.
Finishes ==
    \A c \in Client :
        <>(\/ client[c] = "end" /\ worker[c] = "return"
           \/ client[c] = "dead"
           \/ client[c] # "start" /\ skey[c] # current)

\* A chunk is encrypted under the key the enclave makes of its hash: chunks of
\* one content under one key, chunks of different contents under different ones.
KeyOfContent ==
    \A c, d \in Client : \A i \in DOMAIN keys[c], j \in DOMAIN keys[d] :
        \A k \in DOMAIN keys[c][i], l \in DOMAIN keys[d][j] :
            (keys[c][i][k] = keys[d][j][l]) <=> (HashBatches[c][i][k] = HashBatches[d][j][l])
=============================================================================
