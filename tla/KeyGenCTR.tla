----------------------------- MODULE KeyGenCTR -----------------------------
(***************************************************************************)
(* Key generation with KEY_GEN_METHOD_TYPE == KEY_GEN_SGX_CTR: the client  *)
(* (KeyClient), the key server's threads (runKeyGenerateThread,            *)
(* runCTRModeMaskGenerate and runRAwithSPRequest) and the key enclave.     *)
(* Fingerprints and keys are masked with blocks of a stream that both      *)
(* sides count; the enclave prepares blocks while it has no client.        *)
(*                                                                         *)
(* A block is <<nonce, counter, epoch>>, the epoch being that of the       *)
(* session key.  A key takes two blocks for the fingerprint and two for    *)
(* the reply.  The threads of the clients are in the enclave together:     *)
(* only logins exclude each other, so the reads and writes of the          *)
(* enclave's counters are steps of their own.                              *)
(***************************************************************************)
EXTENDS Integers, Sequences, FiniteSets

CONSTANTS
    Clients,
    Batches,       \* the numbers of fingerprints a client may send at once
    Region,        \* MAX_SPECULATIVE_KEY_SIZE_PER_CLIENT, in blocks, prepared in pairs
    Slots,         \* MAX_SPECULATIVE_CLIENT_NUMBER
    MaxCounter,    \* bound: blocks a client uses
    MaxEpoch,      \* bound: updates and attestations
    MaxSecond,     \* bound: seconds
    MaxStarts,     \* bound: how often a client comes that may die; the others come once
    Mortal,        \* bound: the clients that may die
    Busy,          \* bound: the clients that have keys made; the others log in and leave
    None

Counters == 0 .. MaxCounter
Epochs == 0 .. MaxEpoch
Nonces == 0 .. MaxSecond

\* what .keyGenStore has, what the enclave knows of a client, and what it has prepared
Stores == [nonce : Nonces, counter : Counters]
Infos == [nonce : Nonces, previous : Nat, current : Nat, offline : BOOLEAN, slot : 1 .. Slots]
Masks == [nonce : Nonces, base : Nat, epoch : Epochs]

ASSUME KeyGenCTRAssumption ==
    /\ IsFiniteSet(Clients) /\ Mortal \subseteq Clients /\ Busy \subseteq Clients
    /\ Batches \subseteq Nat \ {0}
    /\ Region \in Nat \ {0} /\ Region % 2 = 0 /\ Slots \in Nat \ {0}
    /\ MaxCounter \in Nat /\ MaxEpoch \in Nat /\ MaxSecond \in Nat /\ MaxStarts \in Nat
    /\ None \notin Nat /\ None \notin Clients
    /\ None \notin Stores /\ None \notin Infos /\ None \notin Masks

VARIABLES
    second,        \* time(NULL)
    \* a client
    state,         \* "off", "login", "ready", "wait", "stuck"
    nonce,         \* nonce_
    counter,       \* counter_
    stored,        \* .keyGenStore, None without that file
    clientEpoch,   \* keyExchangeKey_
    toServer, toClient,   \* the connection
    result,        \* what the last exchange brought: "none", "right", "wrong", "prepared"
    \* the key server
    thread,        \* of a client: "none", "init", "modify", "serve", "read", "masked", "adding"
    buffer,        \* the last reply on its stack
    clientCount,   \* clientThreadCount_
    offlineGenerate,      \* offlineGenerateFlag_
    masker,        \* runCTRModeMaskGenerate: "check" or "claimed"
    \* the enclave
    epoch,         \* currentSessionKey_
    info,          \* clientList_, None for a client it does not know
    masks,         \* nextEncryptionMaskSet_, by slot
    unfolded,      \* the entries that the login in the enclave has still to go through
    half,          \* the one it has added up and not yet cleared
    begun,         \* what ecall_keygen_ctr of a client's thread has read and made
    \* history
    starts,
    torn,          \* clients with a batch that a login has cut through
    strayed,       \* clients that have lost their nonce: killed, or sent back
    unsent,        \* whether a reply has not got out since the masks were prepared
    early          \* clients that have come with masks that were not prepared

clientVars == <<state, nonce, counter, stored, clientEpoch, toServer, toClient, result>>
serverVars == <<thread, buffer, clientCount, offlineGenerate, masker>>
enclaveVars == <<epoch, info, masks, unfolded, half, begun>>
history == <<starts, torn, strayed, unsent, early>>
vars == <<second, clientVars, serverVars, enclaveVars, history>>

-----------------------------------------------------------------------------
(* The client *)

MasksReady == masker = "check" /\ ~(offlineGenerate /\ clientCount = 0) /\ ~unsent

\* initClientCTRInfo sends its nonce and counter; a nonce is drawn from the clock
Draws(c) == second' \in second .. MaxSecond /\ nonce' = [nonce EXCEPT ![c] = second']
Login(c) ==
    /\ state' = [state EXCEPT ![c] = "login"]
    /\ toServer' = [toServer EXCEPT ![c] = Append(@,
           [nonce |-> nonce'[c], counter |-> counter'[c], epoch |-> clientEpoch'[c]])]

\* the client logs in at the storage server, which gives it the session key and may be one
\* update ahead, and connects
Start(c) ==
    /\ state[c] = "off" /\ thread[c] = "none" /\ toServer[c] = << >>
    /\ starts[c] < (IF c \in Mortal THEN MaxStarts ELSE 1)
    /\ starts' = [starts EXCEPT ![c] = @ + 1]
    /\ \E e \in {epoch, epoch + 1} \intersect Epochs : clientEpoch' = [clientEpoch EXCEPT ![c] = e]
    /\ \/ /\ stored[c] = None /\ Draws(c)
          /\ counter' = [counter EXCEPT ![c] = 0]
       \/ /\ stored[c] # None /\ UNCHANGED second
          /\ nonce' = [nonce EXCEPT ![c] = stored[c].nonce]
          /\ counter' = [counter EXCEPT ![c] = stored[c].counter]
    /\ Login(c)
    /\ early' = IF MasksReady THEN early \ {c} ELSE early \union {c}
    /\ UNCHANGED <<stored, toClient, result, serverVars, enclaveVars, torn, strayed, unsent>>

\* SUCCESS and CLIENT_COUNTER_REST
LoggedIn(c) ==
    /\ state[c] = "login" /\ toClient[c] # << >>
    /\ Head(toClient[c]) \in {"success", "reset"}
    /\ state' = [state EXCEPT ![c] = "ready"]
    /\ counter' = [counter EXCEPT ![c] = IF Head(toClient[c]) = "reset" THEN 0 ELSE @]
    /\ toClient' = [toClient EXCEPT ![c] = Tail(@)]
    /\ UNCHANGED <<second, nonce, stored, clientEpoch, toServer, result, serverVars, enclaveVars,
                   history>>

\* NONCE_HAS_USED and ERROR_RESEND: goto nonceUsedRetry, with the key and the counter it had
SentBack(c) ==
    /\ state[c] = "login" /\ toClient[c] # << >>
    /\ Head(toClient[c]) \in {"used", "resend"}
    /\ Draws(c)
    /\ UNCHANGED <<counter, clientEpoch>>
    /\ Login(c)
    /\ strayed' = IF Head(toClient[c]) = "resend" THEN strayed \union {c} ELSE strayed
    /\ toClient' = [toClient EXCEPT ![c] = Tail(@)]
    /\ UNCHANGED <<stored, result, serverVars, enclaveVars, starts, torn, unsent, early>>

\* keyExchange: the fingerprints under the blocks from counter_ on
SendHashes(c, n) ==
    /\ c \in Busy /\ state[c] = "ready" /\ counter[c] + 4 * n <= MaxCounter
    /\ toServer' = [toServer EXCEPT ![c] = Append(@, [n |-> n, epoch |-> clientEpoch[c]])]
    /\ state' = [state EXCEPT ![c] = "wait"]
    /\ UNCHANGED <<second, nonce, counter, stored, clientEpoch, toClient, result, serverVars,
                   enclaveVars, history>>

\* the blocks under a nonce from a counter on
Stream(x, from, len, e) == [i \in 1 .. len |-> <<x, from + i - 1, e>>]

\* the keys are right if both sides have used the same blocks both ways; counter_ advances
\* even if the reply fails its hmac, which leaves the client without an end
ReceiveKeys(c) ==
    /\ state[c] = "wait" /\ toClient[c] # << >>
    /\ LET got == Head(toClient[c])
           ok == got.epoch = clientEpoch[c]
           own == Stream(nonce[c], counter[c], 4 * got.n, clientEpoch[c])
       IN  /\ result' = [result EXCEPT ![c] =
                  IF ~ok THEN @ ELSE IF got.blocks = own THEN "right"
                  ELSE IF got.prepared THEN "prepared" ELSE "wrong"]
           /\ state' = [state EXCEPT ![c] = IF ok THEN "ready" ELSE "stuck"]
           /\ counter' = [counter EXCEPT ![c] = @ + 4 * got.n]
    /\ toClient' = [toClient EXCEPT ![c] = Tail(@)]
    /\ UNCHANGED <<second, nonce, stored, clientEpoch, toServer, serverVars, enclaveVars, history>>

\* the process ends, and its memory is gone
ProcessEnds(c) ==
    /\ state' = [state EXCEPT ![c] = "off"]
    /\ nonce' = [nonce EXCEPT ![c] = 0]
    /\ counter' = [counter EXCEPT ![c] = 0]
    /\ clientEpoch' = [clientEpoch EXCEPT ![c] = 0]
    /\ result' = [result EXCEPT ![c] = "none"]
    /\ UNCHANGED <<second, toServer, toClient, serverVars, enclaveVars, starts, torn, unsent,
                   early>>

\* the last batch is done: saveClientCTRInfo
Finish(c) ==
    /\ state[c] = "ready"
    /\ stored' = [stored EXCEPT ![c] = [nonce |-> nonce[c], counter |-> counter[c]]]
    /\ ProcessEnds(c)
    /\ UNCHANGED strayed

\* the client dies
Kill(c) ==
    /\ c \in Mortal /\ state[c] # "off"
    /\ ProcessEnds(c)
    /\ strayed' = strayed \union {c}
    /\ UNCHANGED stored

-----------------------------------------------------------------------------
(* A login: the key server's thread of a client, and ecall_clientStatusModify *)

Known == {c \in Clients : info[c] # None}
Moves(c, from, to) == thread[c] = from /\ thread' = [thread EXCEPT ![c] = to]

ThreadStarts(c) ==
    /\ Moves(c, "none", "init") /\ (state[c] # "off" \/ toServer[c] # << >>)
    /\ clientCount' = clientCount + 1
    /\ offlineGenerate' = FALSE
    /\ UNCHANGED <<second, clientVars, buffer, masker, enclaveVars, history>>

\* multiThreadMutex_ keeps out other logins, and nothing else
ModifyBegins(c) ==
    /\ Moves(c, "init", "modify") /\ toServer[c] # << >>
    /\ \A d \in Clients : thread[d] # "modify"
    /\ unfolded' = Known
    /\ UNCHANGED <<second, clientVars, buffer, clientCount, offlineGenerate, masker,
                   epoch, info, masks, half, begun, history>>

\* keyGenerateCounter += currentKeyGenerateCounter, for every client, before the hmac is looked
\* at; history: d has read its current counter and not yet its previous one, or not yet
\* written what it adds to it
FoldAdds(c) ==
    /\ thread[c] = "modify" /\ half = None
    /\ \E d \in unfolded :
          /\ info' = [info EXCEPT ![d].previous = @ + info[d].current]
          /\ half' = d
          /\ torn' = IF thread[d] \in {"read", "adding"} THEN torn \union {d} ELSE torn
    /\ UNCHANGED <<second, clientVars, serverVars, epoch, masks, unfolded, begun, starts, strayed,
                   unsent, early>>

\* currentKeyGenerateCounter = 0
FoldClears(c) ==
    /\ thread[c] = "modify" /\ half # None
    /\ info' = [info EXCEPT ![half].current = 0]
    /\ unfolded' = unfolded \ {half} /\ half' = None
    /\ UNCHANGED <<second, clientVars, serverVars, epoch, masks, begun, history>>

\* another client's entry has this nonce
Used(c, x) == \E d \in Known \ {c} : info[d].nonce = x

\* the enclave's answer to a login that passes the hmac; only a new client's nonce is compared
Answer(c, m) ==
    IF info[c] = None
    THEN IF Used(c, m.nonce) THEN "used" ELSE IF m.counter = 0 THEN "success" ELSE "reset"
    ELSE IF info[c].previous = m.counter THEN "success" ELSE "reset"

\* what it makes of the client's entry: with SUCCESS, a known client's keeps its nonce
InfoAfter(c, m) ==
    LET new == [nonce |-> m.nonce, previous |-> 0, current |-> 0, offline |-> FALSE, slot |-> 1]
    IN  CASE Answer(c, m) = "used" -> None
          [] Answer(c, m) = "success" /\ info[c] # None -> info[c]
          [] Answer(c, m) # "used" /\ info[c] = None -> new
          [] Answer(c, m) = "reset" /\ info[c] # None -> [new EXCEPT !.slot = info[c].slot]

\* the rest of the login
ModifyStatus(c) ==
    /\ thread[c] = "modify" /\ unfolded = {}
    /\ LET m == Head(toServer[c])
           tells == IF m.epoch = epoch THEN Answer(c, m) ELSE "resend"
       IN  /\ info' = [info EXCEPT ![c] = IF tells = "resend" THEN @ ELSE InfoAfter(c, m)]
           /\ toClient' = [toClient EXCEPT ![c] = Append(@, tells)]
           /\ thread' = [thread EXCEPT ![c] =
                  IF tells \in {"resend", "used"} THEN "init" ELSE "serve"]
    /\ toServer' = [toServer EXCEPT ![c] = Tail(@)]
    /\ torn' = torn \ {c}
    /\ UNCHANGED <<second, state, nonce, counter, stored, clientEpoch, result, buffer,
                   clientCount, offlineGenerate, masker, epoch, masks, unfolded, half,
                   begun, starts, strayed, unsent, early>>

-----------------------------------------------------------------------------
(* A batch: the key server's thread of a client, and ecall_keygen_ctr, under no lock *)

\* blocks of nextEncryptionMaskSet_, from a position on
Prepared(from, len) == [i \in 1 .. len |->
    LET p == from + i - 1
        slot == p \div Region + 1
    IN  IF slot > Slots \/ masks[slot] = None THEN None
        ELSE <<masks[slot].nonce, masks[slot].base + (p % Region), masks[slot].epoch>>]

\* the two tests by which prepared blocks are taken, for the fingerprints and for the reply
RequestPrepared(c) == info[c].offline /\ begun[c].current + 4 * begun[c].n < Region
ReplyPrepared(c)   == info[c].offline /\ begun[c].current + 2 * begun[c].n < Region

\* mutant: fresh blocks from where the session began
FreshFirst(c) == Stream(info[c].nonce, info[c].previous, 4 * begun[c].n, epoch)

\* blocks made for a batch, for the fingerprints and for the reply
Fresh(c) ==
    Stream(info[c].nonce, info[c].previous + begun[c].current, 4 * begun[c].n, epoch)

\* mutant: the blocks of the reply are not counted
UsedHalf(n) == 2 * n

\* how far a batch advances the counter
UsedBy(n) == 4 * n

NoReply == [n |-> 0, blocks |-> << >>, prepared |-> FALSE, epoch |-> None]
NoBatch == [n |-> 0, current |-> 0, at |-> 0, reply |-> NoReply]

\* what a thread sends for a batch of n if the enclave refuses it: what its buffer holds, which
\* is junk or, in the same place for the same length, its last reply
Held(c, n) == {[NoReply EXCEPT !.n = n]} \union {last \in {buffer[c]} : last.n = n}

\* the thread sends a reply, or fails to and returns: it counts down, and no more
Replies(c, sends) ==
    \/ /\ buffer' = [buffer EXCEPT ![c] = sends]
       /\ toClient' = [toClient EXCEPT ![c] = Append(@, sends)]
       /\ thread' = [thread EXCEPT ![c] = "serve"]
       /\ UNCHANGED <<clientCount, unsent>>
    \/ /\ state[c] = "off"
       /\ buffer' = [buffer EXCEPT ![c] = NoReply]
       /\ toClient' = [toClient EXCEPT ![c] = << >>]
       /\ thread' = [thread EXCEPT ![c] = "none"]
       /\ clientCount' = clientCount - 1
       /\ unsent' = TRUE

Asks(c) == thread[c] = "serve" /\ toServer[c] # << >>

\* the hmac, and the read of the current counter
BeginKeys(c) ==
    /\ Asks(c) /\ Head(toServer[c]).epoch = epoch
    /\ begun' = [begun EXCEPT ![c] = [n |-> Head(toServer[c]).n, current |-> info[c].current,
                                      at |-> 0, reply |-> NoReply]]
    /\ thread' = [thread EXCEPT ![c] = "read"]
    /\ torn' = IF half = c THEN torn \union {c} ELSE torn
    /\ toServer' = [toServer EXCEPT ![c] = Tail(@)]
    /\ UNCHANGED <<second, state, nonce, counter, stored, clientEpoch, toClient, result, buffer,
                   clientCount, offlineGenerate, masker, epoch, info, masks, unfolded, half,
                   starts, strayed, unsent, early>>

\* the hmac fails; request's result is ignored
RefuseKeys(c) ==
    /\ Asks(c) /\ Head(toServer[c]).epoch # epoch
    /\ \E sends \in Held(c, Head(toServer[c]).n) : Replies(c, sends)
    /\ toServer' = [toServer EXCEPT ![c] = Tail(@)]
    /\ UNCHANGED <<second, state, nonce, counter, stored, clientEpoch, result, offlineGenerate,
                   masker, enclaveVars, starts, torn, strayed, early>>

\* the previous counter, the place of the prepared blocks, and the blocks for the fingerprints;
\* fresh ones are made for the reply too
TakeRequest(c) ==
    /\ Moves(c, "read", "masked")
    /\ LET n == begun[c].n
           at == (info[c].slot - 1) * Region + begun[c].current
           blocks == IF RequestPrepared(c) THEN Prepared(at, 2 * n) ELSE Fresh(c)
       IN  begun' = [begun EXCEPT ![c] =
              [n |-> n, current |-> begun[c].current, at |-> at,
               reply |-> [n |-> n, blocks |-> blocks, prepared |-> RequestPrepared(c),
                          epoch |-> None]]]
    /\ UNCHANGED <<second, clientVars, buffer, clientCount, offlineGenerate, masker, epoch, info,
                   masks, unfolded, half, history>>

\* the blocks for the reply, its hmac, and the read of the counter that is to be advanced
TakeReply(c) ==
    /\ Moves(c, "masked", "adding")
    /\ LET n == begun[c].n
           at == begun[c].at
           made == begun[c].reply
           blocks == IF ReplyPrepared(c)
                     THEN SubSeq(made.blocks, 1, 2 * n) \o Prepared(at + 2 * n, 2 * n)
                     ELSE made.blocks
       IN  begun' = [begun EXCEPT ![c] =
              [n |-> n, current |-> info[c].current, at |-> at,
               reply |-> [n |-> n, blocks |-> blocks, epoch |-> epoch,
                          prepared |-> made.prepared \/ ReplyPrepared(c)]]]
    /\ torn' = IF half = c THEN torn \union {c} ELSE torn
    /\ UNCHANGED <<second, clientVars, buffer, clientCount, offlineGenerate, masker, epoch, info,
                   masks, unfolded, half, starts, strayed, unsent, early>>

\* the counter is written
EndKeys(c) ==
    /\ thread[c] = "adding"
    /\ info' = [info EXCEPT ![c].current = begun[c].current + UsedBy(begun[c].n)]
    /\ Replies(c, begun[c].reply)
    /\ begun' = [begun EXCEPT ![c] = NoBatch]
    /\ UNCHANGED <<second, state, nonce, counter, stored, clientEpoch, toServer, result,
                   offlineGenerate, masker, epoch, masks, unfolded, half, starts, torn, strayed,
                   early>>

\* recv fails; a thread that is not yet serving returns without counting down
ThreadEnds(c) ==
    /\ thread[c] \in {"init", "serve"} /\ toServer[c] = << >> /\ state[c] = "off"
    /\ thread' = [thread EXCEPT ![c] = "none"]
    /\ toClient' = [toClient EXCEPT ![c] = << >>]
    /\ buffer' = [buffer EXCEPT ![c] = NoReply]
    /\ IF thread[c] = "serve"
       THEN clientCount' = clientCount - 1 /\ offlineGenerate' = TRUE
       ELSE UNCHANGED <<clientCount, offlineGenerate>>
    /\ UNCHANGED <<second, state, nonce, counter, stored, clientEpoch, toServer, result, masker,
                   enclaveVars, history>>

-----------------------------------------------------------------------------
(* The key server's other threads *)

\* the test is made before the locks are taken
ClaimMasks ==
    /\ masker = "check" /\ offlineGenerate /\ clientCount = 0
    /\ masker' = "claimed"
    /\ UNCHANGED <<second, clientVars, thread, buffer, clientCount, offlineGenerate,
                   enclaveVars, history>>

\* mutant: without the blocks of the last session
MaskLast(c) == [nonce |-> info[c].nonce, base |-> info[c].previous, epoch |-> epoch]

\* what is prepared for a client
Mask(c) ==
    [nonce |-> info[c].nonce, base |-> info[c].previous + info[c].current, epoch |-> epoch]

\* ecall_setNextEncryptionMask: slots to the clients in the order of the hash map
GenerateMasks ==
    /\ masker = "claimed"
    /\ \E chosen \in {S \in SUBSET Known : Cardinality(S) =
                         IF Cardinality(Known) < Slots THEN Cardinality(Known) ELSE Slots} :
       \E slotOf \in {f \in [chosen -> 1 .. Slots] : \A c, d \in chosen : f[c] = f[d] => c = d} :
          /\ info' = [c \in Clients |->
                IF c \in chosen THEN [info[c] EXCEPT !.offline = TRUE, !.slot = slotOf[c]]
                ELSE info[c]]
          /\ masks' = [s \in 1 .. Slots |->
                IF \E c \in chosen : slotOf[c] = s THEN Mask(CHOOSE c \in chosen : slotOf[c] = s)
                ELSE masks[s]]
    /\ offlineGenerate' = FALSE
    /\ masker' = "check"
    /\ unsent' = FALSE
    /\ UNCHANGED <<second, clientVars, thread, buffer, clientCount, epoch, unfolded, half,
                   begun, starts, torn, strayed, early>>

\* ecall_setSessionKeyUpdate
UpdateKey ==
    /\ epoch < MaxEpoch /\ epoch' = epoch + 1
    /\ UNCHANGED <<second, clientVars, serverVars, info, masks, unfolded, half, begun, history>>

\* runRAwithSPRequest waits for a count of 0 and then attests, which closes the enclave and sets
\* up another; bound: no client comes in between, or has the key of an update it has not made
Attest ==
    /\ epoch < MaxEpoch /\ clientCount = 0
    /\ \A c \in Clients : state[c] # "off" => clientEpoch[c] <= epoch
    /\ epoch' = epoch + 1
    /\ info' = [c \in Clients |-> None]
    /\ masks' = [s \in 1 .. Slots |-> None]
    /\ UNCHANGED <<second, clientVars, serverVars, unfolded, half, begun, history>>

-----------------------------------------------------------------------------
Init ==
    /\ second = 0
    /\ state = [c \in Clients |-> "off"] /\ counter = [c \in Clients |-> 0]
    /\ nonce = [c \in Clients |-> 0]
    /\ stored = [c \in Clients |-> None] /\ clientEpoch = [c \in Clients |-> 0]
    /\ toServer = [c \in Clients |-> << >>] /\ toClient = [c \in Clients |-> << >>]
    /\ result = [c \in Clients |-> "none"]
    /\ thread = [c \in Clients |-> "none"] /\ clientCount = 0
    /\ buffer = [c \in Clients |-> NoReply]
    /\ offlineGenerate = FALSE /\ masker = "check"
    /\ epoch = 0 /\ info = [c \in Clients |-> None]
    /\ masks = [s \in 1 .. Slots |-> None]
    /\ unfolded = {} /\ half = None
    /\ begun = [c \in Clients |-> NoBatch]
    /\ starts = [c \in Clients |-> 0] /\ torn = {} /\ strayed = {}
    /\ unsent = FALSE /\ early = {}

ClientStep(c) ==
    \/ LoggedIn(c) \/ SentBack(c) \/ ReceiveKeys(c) \/ Finish(c)
    \/ \E n \in Batches : SendHashes(c, n)

ThreadStep(c) ==
    \/ ThreadStarts(c) \/ ModifyBegins(c) \/ FoldAdds(c) \/ FoldClears(c) \/ ModifyStatus(c)
    \/ BeginKeys(c) \/ RefuseKeys(c) \/ TakeRequest(c) \/ TakeReply(c) \/ EndKeys(c) \/ ThreadEnds(c)

Next ==
    \/ \E c \in Clients : Start(c) \/ ClientStep(c) \/ Kill(c) \/ ThreadStep(c)
    \/ ClaimMasks \/ GenerateMasks \/ UpdateKey \/ Attest

\* a client that has begun goes on, the key server's threads run and get their mutex in the
\* end, and time passes
Fairness ==
    /\ \A c \in Clients :
          WF_vars(ClientStep(c)) /\ WF_vars(ThreadStep(c)) /\ SF_vars(ModifyBegins(c))
          /\ SF_vars(SentBack(c) /\ second' > second)

Spec == Init /\ [][Next]_vars /\ Fairness

-----------------------------------------------------------------------------
(* Properties *)

TypeOK ==
    /\ second \in Nonces
    /\ state \in [Clients -> {"off", "login", "ready", "wait", "stuck"}]
    /\ nonce \in [Clients -> Nonces] /\ counter \in [Clients -> Counters]
    /\ stored \in [Clients -> Stores \union {None}]
    /\ clientEpoch \in [Clients -> Epochs]
    /\ result \in [Clients -> {"none", "right", "wrong", "prepared"}]
    /\ thread \in [Clients -> {"none", "init", "modify", "serve", "read", "masked", "adding"}]
    /\ clientCount \in Nat /\ offlineGenerate \in BOOLEAN /\ masker \in {"check", "claimed"}
    /\ epoch \in Epochs
    /\ info \in [Clients -> Infos \union {None}]
    /\ masks \in [1 .. Slots -> Masks \union {None}]
    /\ unfolded \in SUBSET Clients /\ half \in Clients \union {None}
    /\ torn \in SUBSET Clients /\ strayed \in SUBSET Clients
    /\ unsent \in BOOLEAN /\ early \in SUBSET Clients

\* the blocks the enclave has counted for a client
Total(c) == info[c].previous + IF half = c THEN 0 ELSE info[c].current

(* When a client is between two batches, it and the enclave have counted the same blocks, though
   the logins of others move them from one counter of the enclave to the other in the middle of
   its batches (km_enclave.cpp:134-139, 342-343, 414): but for a client with a batch whose two
   reads, or whose last read and write, a login has cut through, and but for one whose session
   key is no longer the enclave's, which may take what the buffer held for its keys. *)
CountersMatch ==
    \A c \in Clients :
        state[c] = "ready" /\ clientEpoch[c] = epoch /\ c \notin torn =>
            info[c] # None /\ counter[c] = Total(c)

(* Wrong keys that pass the client's hmac check are made of prepared blocks, or a login has cut
   through a batch of the client, or the enclave has a new session key and the key server sends
   what its buffer held, or the client was killed or sent back, has drawn a new nonce, and the
   enclave has kept the old one (km_enclave.cpp:185-186): a login anywhere else does no harm, and
   a client that has its file keeps its nonce. *)
KeysRight ==
    \A c \in Clients : result[c] = "wrong" =>
        \/ c \in torn \/ clientEpoch[c] # epoch
        \/ c \in strayed /\ info[c].nonce # nonce[c]

\* c is the only client there has been, and no other thread is counted
Alone(c) ==
    /\ Known = {c} /\ epoch = 0
    /\ clientCount = Cardinality({c} \ {d \in Clients : thread[d] = "none"})

(* Prepared blocks give the right keys to a client that is alone, has come when they had been
   prepared after its last batch, and has the nonce of its entry: but for a batch that runs over
   the end of its region, since the test for the reply counts but half of the batch
   (km_enclave.cpp:404).  They have not been when the key server's thread returned from a send
   that failed (keyServer.cpp:445-455). *)
PreparedRight ==
    \A c \in Clients : result[c] = "prepared" =>
        \/ ~Alone(c) \/ c \in early \/ info[c].nonce # nonce[c]
        \/ info[c].current > Region

(* A client that logs in is answered and gets on, however often its nonce is another client's and
   it has to draw a new one (keyClient.cpp:126-184), unless the session key it has is no longer the
   enclave's: then it is sent back for ever.  When the bound has stopped the clock, it can draw no
   other nonce. *)
LoginEnds ==
    \A c \in Clients :
        (state[c] = "login") ~>
            (\/ state[c] # "login" \/ clientEpoch[c] # epoch
             \/ second = MaxSecond /\ Used(c, nonce[c]))
=============================================================================
