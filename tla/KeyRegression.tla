--------------------------- MODULE KeyRegression ---------------------------
(***************************************************************************)
(* The key between the storage server and the key enclave: remote          *)
(* attestation (keyServer and kmClient with DataSR and kmServer), the key  *)
(* regression that both sides repeat on their own clocks, and the          *)
(* expiry of an attestation.  Clients of the key server come and go.       *)
(*                                                                         *)
(* A key is <<n, t>>: t times hashed from the secret of the n-th           *)
(* attestation.  A step takes no time; only sleeping does.                 *)
(***************************************************************************)
EXTENDS Integers, Sequences

CONSTANTS
    MaxTimes,      \* keyRegressionMaxTimes
    CountLimit,    \* 2^32, the values of the enclave's counter
    Interval,      \* keyRegressionIntervals
    Lifespan,      \* raSessionKeylifeSpan
    MaxAttempts,   \* bound: attestations begun
    MaxClients,    \* bound: clients of the key server
    Faults,        \* may contain "untrusted": IAS refuses or cannot be asked,
                   \* "lostClient": a client is lost while it logs in (KEY_GEN_SGX_CTR)
    Zero, Junk     \* 32 bytes of zeros; of uninitialised memory

ASSUME KeyRegressionAssumption ==
    /\ MaxTimes \in Nat \ {0} /\ CountLimit \in Nat /\ MaxTimes < CountLimit
    /\ Interval \in Nat \ {0} /\ Lifespan \in Nat \ {0}
    /\ MaxAttempts \in Nat \ {0} /\ MaxClients \in Nat
    /\ Zero \notin Nat \X Nat /\ Junk \notin Nat \X Nat

VARIABLES
    \* the storage server: runKeyServerRemoteAttestation
    attester,      \* "listen", "msg01", "msg3", "sleep", "zero", "ask"
    lifeLeft,      \* time it still sleeps
    flag,          \* keyExchangeKeySetFlag_
    session,       \* keyServerSession_, 0 is nullptr
    key,           \* keyExchangeKey_
    \* runKeyServerSessionKeyUpdate
    updater,       \* "poll", "test", "hash", "copy", "set", "sleep", "crashed"
    hashed,        \* hashResultTemp
    times,         \* keyRegressionCurrentTimes_
    intervalLeft,
    \* the key server: runRemoteAttestationInit, then runRAwithSPRequest
    manager,       \* "connect", "msg2", "msg4", "counter", "session", "accept", "drain"
    raRequestFlag, \* raRequestFlag_
    listenerFreed, \* whether the listening ssl object has been deleted
    regression,    \* runSessionKeyUpdate: "unborn", "run", "sleep"
    regressionLeft,
    enclave,       \* its sessionkey (0 before it is set), counter and current key
    live,          \* whether _eid names an enclave
    threads,       \* the client threads that are running
    clientCount,   \* clientThreadCount_
    arrived,       \* clients that have ever come
    \* between them
    attempts,      \* attestations begun
    toStorage, toKeyServer,    \* the connection of the last of them
    request        \* a request for attestation is waiting at the key server

storageVars == <<attester, lifeLeft, flag, session, key, updater, hashed, times, intervalLeft>>
managerVars == <<manager, raRequestFlag, listenerFreed>>
enclaveVars == <<regression, regressionLeft, enclave, live>>
clientVars  == <<threads, clientCount, arrived>>
connVars    == <<attempts, toStorage, toKeyServer, request>>
vars == <<storageVars, managerVars, enclaveVars, clientVars, connVars>>

-----------------------------------------------------------------------------
(* The storage server: attestation of the key enclave *)

Up == updater # "crashed"

\* sslListen and the first message, KEY_SERVER_RA_REQUES
AcceptKeyServer ==
    /\ Up /\ attester = "listen"
    /\ toStorage # << >> /\ Head(toStorage) = "request"
    /\ toStorage' = Tail(toStorage)
    /\ attester' = "msg01"
    /\ UNCHANGED <<lifeLeft, flag, session, key, updater, hashed, times, intervalLeft,
                   managerVars, enclaveVars, clientVars, attempts, toKeyServer, request>>

\* authkm returns nullptr and the thread listens again; the connection stays open
Refuse ==
    /\ "untrusted" \in Faults
    /\ session' = 0
    /\ attester' = "listen"
    /\ UNCHANGED <<lifeLeft, flag, toKeyServer>>

\* process_msg01: the signature revocation list of IAS, and msg2
ProcessMsg01 ==
    /\ Up /\ attester = "msg01"
    /\ toStorage # << >> /\ Head(toStorage) = "msg01"
    /\ toStorage' = Tail(toStorage)
    /\ \/ /\ attester' = "msg3"
          /\ toKeyServer' = Append(toKeyServer, "msg2")
          /\ UNCHANGED <<session, lifeLeft, flag>>
       \/ Refuse
    /\ UNCHANGED <<key, updater, hashed, times, intervalLeft, managerVars, enclaveVars,
                   clientVars, attempts, request>>

\* process_msg3: the report of IAS; msg4 is sent only to a trusted enclave
ProcessMsg3 ==
    /\ Up /\ attester = "msg3"
    /\ toStorage # << >> /\ Head(toStorage) = "msg3"
    /\ toStorage' = Tail(toStorage)
    /\ \/ /\ toKeyServer' = Append(toKeyServer, "msg4")
          /\ session' = attempts
          /\ flag' = TRUE
          /\ lifeLeft' = Lifespan
          /\ attester' = "sleep"
       \/ Refuse
    /\ UNCHANGED <<key, updater, hashed, times, intervalLeft, managerVars, enclaveVars,
                   clientVars, attempts, request>>

\* the lifespan is over
Expire ==
    /\ Up /\ attester = "sleep" /\ lifeLeft = 0
    /\ attempts < MaxAttempts
    /\ flag' = FALSE
    /\ attester' = "zero"
    /\ UNCHANGED <<lifeLeft, session, key, updater, hashed, times, intervalLeft, managerVars,
                   enclaveVars, clientVars, connVars>>

ClearKey ==
    /\ Up /\ attester = "zero"
    /\ key' = Zero
    /\ attester' = "ask"
    /\ UNCHANGED <<lifeLeft, flag, session, updater, hashed, times, intervalLeft, managerVars,
                   enclaveVars, clientVars, connVars>>

\* mutant: nobody is asked
AskAttestationNobody ==
    /\ Up /\ attester = "ask"
    /\ attester' = "listen"
    /\ UNCHANGED <<lifeLeft, flag, session, key, updater, hashed, times, intervalLeft,
                   managerVars, enclaveVars, clientVars, connVars>>

AskAttestation ==
    /\ Up /\ attester = "ask"
    /\ request' = TRUE
    /\ attester' = "listen"
    /\ UNCHANGED <<lifeLeft, flag, session, key, updater, hashed, times, intervalLeft,
                   managerVars, enclaveVars, clientVars, attempts, toStorage, toKeyServer>>

-----------------------------------------------------------------------------
(* The storage server: key regression *)

UpdaterStep(from, to) ==
    /\ updater = from /\ updater' = to
    /\ UNCHANGED <<attester, lifeLeft, session, managerVars, enclaveVars, clientVars, connVars>>

SeeFlag ==
    /\ flag
    /\ UpdaterStep("poll", "test")
    /\ UNCHANGED <<flag, key, hashed, times, intervalLeft>>

TestSession ==
    /\ UpdaterStep("test", IF session # 0 THEN "hash" ELSE "poll")
    /\ flag' = IF session # 0 THEN FALSE ELSE flag
    /\ UNCHANGED <<key, hashed, times, intervalLeft>>

\* no round of the loop leaves hashResultTemp as it was on the stack
Regressed(n, t) == IF t = 0 THEN Junk ELSE <<n, t>>

\* a counter below zero is 2^64 - 1, and the loop does not come to an end
HashKey ==
    /\ session # 0 => times >= 0
    /\ UpdaterStep("hash", IF session = 0 THEN "crashed" ELSE "copy")
    /\ hashed' = IF session = 0 THEN hashed ELSE Regressed(session, times)
    /\ UNCHANGED <<flag, key, times, intervalLeft>>

CopyKey ==
    /\ UpdaterStep("copy", "set")
    /\ key' = hashed
    /\ UNCHANGED <<flag, hashed, times, intervalLeft>>

SetFlag ==
    /\ UpdaterStep("set", "sleep")
    /\ flag' = TRUE
    /\ times' = times - 1
    /\ intervalLeft' = Interval
    /\ UNCHANGED <<key, hashed>>

WakeUpdater ==
    /\ intervalLeft = 0
    /\ UpdaterStep("sleep", "poll")
    /\ UNCHANGED <<flag, key, hashed, times, intervalLeft>>

-----------------------------------------------------------------------------
(* The key server: kmClient::init, step by step *)

NewEnclave == [sk |-> 0, count |-> 0, key |-> Zero]

\* the old enclave is destroyed and a new one created; its first message
Connect ==
    /\ manager = "connect" /\ attempts < MaxAttempts
    /\ attempts' = attempts + 1
    /\ toStorage' = <<"request", "msg01">> /\ toKeyServer' = << >>
    /\ enclave' = NewEnclave /\ live' = TRUE
    /\ manager' = "msg2"
    /\ UNCHANGED <<storageVars, raRequestFlag, listenerFreed, regression, regressionLeft,
                   clientVars, request>>

\* sgx_ra_proc_msg2 and msg3
ReceiveMsg2 ==
    /\ manager = "msg2" /\ toKeyServer # << >>
    /\ toKeyServer' = Tail(toKeyServer)
    /\ toStorage' = Append(toStorage, "msg3")
    /\ manager' = "msg4"
    /\ UNCHANGED <<storageVars, raRequestFlag, listenerFreed, enclaveVars, clientVars, attempts,
                   request>>

ReceiveMsg4 ==
    /\ manager = "msg4" /\ toKeyServer # << >>
    /\ toKeyServer' = Tail(toKeyServer)
    /\ manager' = "counter"
    /\ UNCHANGED <<storageVars, raRequestFlag, listenerFreed, enclaveVars, clientVars, attempts,
                   toStorage, request>>

\* mutant: the enclave counts from one below
SetCounterBelow ==
    /\ manager = "counter"
    /\ enclave' = [enclave EXCEPT !.count = MaxTimes - 1]
    /\ manager' = "session"
    /\ UNCHANGED <<storageVars, raRequestFlag, listenerFreed, regression, regressionLeft, live,
                   clientVars, connVars>>

\* ecall_setKeyRegressionCounter
SetCounter ==
    /\ manager = "counter"
    /\ enclave' = [enclave EXCEPT !.count = MaxTimes]
    /\ manager' = "session"
    /\ UNCHANGED <<storageVars, raRequestFlag, listenerFreed, regression, regressionLeft, live,
                   clientVars, connVars>>

\* mutant: only the first time
SetSessionOnce ==
    /\ manager = "session"
    /\ enclave' = [enclave EXCEPT !.sk = IF regression = "unborn" THEN attempts ELSE @]
    /\ raRequestFlag' = FALSE
    /\ manager' = "accept"
    /\ listenerFreed' = (regression # "unborn")
    /\ regression' = IF regression = "unborn" THEN "run" ELSE regression
    /\ UNCHANGED <<storageVars, regressionLeft, live, clientVars, connVars>>

\* ecall_setSessionKey; then init returns.  The first time, the key server's other threads
\* are started; later, the listening object is deleted.
SetSession ==
    /\ manager = "session"
    /\ enclave' = [enclave EXCEPT !.sk = attempts]
    /\ raRequestFlag' = FALSE
    /\ manager' = "accept"
    /\ listenerFreed' = (regression # "unborn")
    /\ regression' = IF regression = "unborn" THEN "run" ELSE regression
    /\ UNCHANGED <<storageVars, regressionLeft, live, clientVars, connVars>>

\* after the delete the listening descriptor is read from freed memory, which still holds it
AcceptRequest ==
    /\ manager = "accept" /\ request
    /\ request' = FALSE
    /\ raRequestFlag' = TRUE
    /\ manager' = "drain"
    /\ UNCHANGED <<storageVars, listenerFreed, enclaveVars, clientVars, attempts, toStorage,
                   toKeyServer>>

\* the loop that waits for the client threads; then init destroys the enclave
Drained ==
    /\ manager = "drain" /\ clientCount = 0
    /\ manager' = "connect"
    /\ live' = FALSE
    /\ UNCHANGED <<storageVars, raRequestFlag, listenerFreed, regression, regressionLeft,
                   enclave, clientVars, connVars>>

-----------------------------------------------------------------------------
(* The key server: key regression and clients *)

\* mutant: the counter begins again when it is used up
UpdateEnclaveKeyRenewed ==
    /\ regression = "run" /\ live
    /\ enclave' = [enclave EXCEPT !.key = <<enclave.sk, enclave.count>>,
                                  !.count = IF enclave.count = 1 THEN MaxTimes
                                            ELSE (enclave.count - 1) % CountLimit]
    /\ regression' = "sleep"
    /\ regressionLeft' = Interval
    /\ UNCHANGED <<storageVars, managerVars, live, clientVars, connVars>>

\* ecall_setSessionKeyUpdate, tried until there is an enclave
UpdateEnclaveKey ==
    /\ regression = "run" /\ live
    /\ enclave' = [enclave EXCEPT !.key = <<enclave.sk, enclave.count>>,
                                  !.count = (enclave.count - 1) % CountLimit]
    /\ regression' = "sleep"
    /\ regressionLeft' = Interval
    /\ UNCHANGED <<storageVars, managerVars, live, clientVars, connVars>>

WakeRegression ==
    /\ regression = "sleep" /\ regressionLeft = 0
    /\ regression' = "run"
    /\ UNCHANGED <<storageVars, managerVars, regressionLeft, enclave, live, clientVars, connVars>>

\* main accepts clients whatever raRequestFlag_ says
ClientArrives ==
    /\ regression # "unborn" /\ arrived < MaxClients
    /\ arrived' = arrived + 1
    /\ threads' = threads + 1
    /\ clientCount' = clientCount + 1
    /\ UNCHANGED <<storageVars, managerVars, enclaveVars, connVars>>

ClientLeaves ==
    /\ threads > 0
    /\ threads' = threads - 1
    /\ clientCount' = clientCount - 1
    /\ UNCHANGED <<storageVars, managerVars, enclaveVars, arrived, connVars>>

\* a client lost before it has logged in, or refused: the thread returns and counts on
LoginFails ==
    /\ "lostClient" \in Faults /\ threads > 0
    /\ threads' = threads - 1
    /\ UNCHANGED <<storageVars, managerVars, enclaveVars, clientCount, arrived, connVars>>

-----------------------------------------------------------------------------
(* Time *)

StorageQuiet ==
    /\ updater = "sleep" \/ (updater = "poll" /\ ~flag) \/ (updater = "hash" /\ times < 0)
    /\ \/ attester = "sleep"
       \/ attester \in {"listen", "msg01", "msg3"} /\ toStorage = << >>

KeyServerQuiet ==
    /\ regression \in {"unborn", "sleep"}
    /\ \/ manager = "connect" /\ attempts = MaxAttempts
       \/ manager \in {"msg2", "msg4"} /\ toKeyServer = << >>
       \/ manager = "accept" /\ ~request
       \/ manager = "drain" /\ clientCount > 0

Quiet == StorageQuiet /\ KeyServerQuiet

Due ==
    \/ attester = "sleep" /\ lifeLeft = 0 /\ attempts < MaxAttempts
    \/ updater = "sleep" /\ intervalLeft = 0
    \/ regression = "sleep" /\ regressionLeft = 0

AtRest == Quiet /\ ~Due

Less(t) == IF t = 0 THEN 0 ELSE t - 1

\* every thread that could run has run
Tick ==
    /\ Up /\ AtRest
    /\ lifeLeft' = Less(lifeLeft)
    /\ intervalLeft' = Less(intervalLeft)
    /\ regressionLeft' = Less(regressionLeft)
    /\ UNCHANGED <<attester, flag, session, key, updater, hashed, times, managerVars, regression,
                   enclave, live, clientVars, connVars>>

-----------------------------------------------------------------------------
Init ==
    /\ attester = "listen" /\ lifeLeft = 0 /\ flag = FALSE /\ session = 0 /\ key = Junk
    /\ updater = "poll" /\ hashed = Junk /\ times = MaxTimes /\ intervalLeft = 0
    /\ manager = "connect" /\ raRequestFlag = TRUE /\ listenerFreed = FALSE
    /\ regression = "unborn" /\ regressionLeft = 0 /\ enclave = NewEnclave /\ live = FALSE
    /\ threads = 0 /\ clientCount = 0 /\ arrived = 0
    /\ attempts = 0 /\ toStorage = << >> /\ toKeyServer = << >> /\ request = FALSE

Attest == AcceptKeyServer \/ ProcessMsg01 \/ ProcessMsg3 \/ Expire \/ ClearKey \/ AskAttestation

Regress == SeeFlag \/ TestSession \/ HashKey \/ CopyKey \/ SetFlag \/ WakeUpdater

Manage ==
    \/ Connect \/ ReceiveMsg2 \/ ReceiveMsg4 \/ SetCounter \/ SetSession \/ AcceptRequest
    \/ Drained

RegressEnclave == UpdateEnclaveKey \/ WakeRegression

Leave == ClientLeaves \/ LoginFails

Next == Attest \/ Regress \/ Manage \/ RegressEnclave \/ ClientArrives \/ Leave \/ Tick

\* every thread runs, time passes, clients do not stay for ever
Fairness ==
    /\ WF_vars(Attest) /\ WF_vars(Regress) /\ WF_vars(Manage) /\ WF_vars(RegressEnclave)
    /\ WF_vars(Leave) /\ WF_vars(Tick)

Spec == Init /\ [][Next]_vars /\ Fairness

-----------------------------------------------------------------------------
(* Properties *)

Keys == (0 .. MaxAttempts) \X (0 .. CountLimit) \union {Zero, Junk}

TypeOK ==
    /\ attester \in {"listen", "msg01", "msg3", "sleep", "zero", "ask"}
    /\ lifeLeft \in 0 .. Lifespan
    /\ flag \in BOOLEAN /\ session \in 0 .. MaxAttempts /\ key \in Keys
    /\ updater \in {"poll", "test", "hash", "copy", "set", "sleep", "crashed"}
    /\ hashed \in Keys /\ times \in -1 .. MaxTimes /\ intervalLeft \in 0 .. Interval
    /\ manager \in {"connect", "msg2", "msg4", "counter", "session", "accept", "drain"}
    /\ raRequestFlag \in BOOLEAN /\ listenerFreed \in BOOLEAN
    /\ regression \in {"unborn", "run", "sleep"} /\ regressionLeft \in 0 .. Interval
    /\ enclave \in [sk : 0 .. MaxAttempts, count : 0 .. CountLimit - 1, key : Keys]
    /\ live \in BOOLEAN
    /\ threads \in 0 .. MaxClients /\ clientCount \in 0 .. MaxClients
    /\ arrived \in 0 .. MaxClients
    /\ attempts \in 0 .. MaxAttempts /\ request \in BOOLEAN
    /\ toStorage \in Seq({"request", "msg01", "msg3"}) /\ toKeyServer \in Seq({"msg2", "msg4"})

(* While the first attestation lasts and until the regressions are used up, the key the storage
   server gives to clients is the one the enclave has, whenever neither side is at work:
   the two loops (dataSR.cpp:595-645, keyServer.cpp:180-218) hash as often and sleep as long. *)
KeysAgree == (AtRest /\ attester = "sleep" /\ session = 1 /\ times >= 0) => key = enclave.key

(* When an attestation is complete at the key server, both sides hold the secret of that
   attestation and of no earlier one, or the storage server has not yet sent or has lost it.
   The type invariant is part of it. *)
SameSecret ==
    /\ TypeOK
    /\ manager = "accept" =>
          /\ enclave.sk = attempts
          /\ attester \in {"sleep", "zero", "ask"} => session = enclave.sk

(* An update of the enclave goes back along the hash chain and never forward again: who has
   an old key of a session cannot compute the later one (km_enclave.cpp:288-312), as long as
   the regressions are not used up. *)
OnlyBackwards ==
    [][enclave.key # enclave'.key =>
          \/ enclave'.key = Zero
          \/ enclave.key = Zero
          \/ enclave'.key[1] # enclave.key[1]
          \/ enclave'.key[2] < enclave.key[2]
          \/ enclave.count > MaxTimes]_vars

(* The storage server's expired attestation is replaced: it asks, and is attested again, though
   the key server first waits for its clients to leave (keyServer.cpp:93-97); unless it is
   refused, or a client was lost that is counted for ever (keyServer.cpp:391-399). *)
Renewed ==
    (attester = "ask") ~> (attester = "sleep" \/ session = 0 \/ threads < clientCount)

(* README.md:117 and 199: the intervals of both sides are to be consistent, for the renewal of
   the key; after a renewal the keys agree as they did before it. *)
RenewedKeysAgree ==
    (AtRest /\ session > 1 /\ session = attempts /\ times >= 0) => key = enclave.key

(* dataSR.cpp:691: "keyServer send wrong message, storage try again now": a refused key server
   is attested again. *)
TriesAgain ==
    (attester = "listen" /\ session = 0 /\ attempts \in 1 .. MaxAttempts - 1) ~> (session # 0)

(* README.md:199: _keyRegressionMaxTimes controls the maximum number of key regressions: the
   enclave does not go beyond it. *)
WithinMaxTimes == enclave.count <= MaxTimes
=============================================================================
