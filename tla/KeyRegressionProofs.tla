--------------------------- MODULE KeyRegressionProofs ---------------------------
(***************************************************************************)
(* What holds of the key between the storage server and the key enclave    *)
(* for any number of attestations and clients, and for chains, intervals   *)
(* and lifespans of any length.                                            *)
(***************************************************************************)
EXTENDS KeyRegression, TLAPS

Secrets == (0 .. MaxAttempts) \X (0 .. CountLimit)

(* The types, with what keeps the counters in their ranges. *)
StorageTypes ==
    /\ attester \in {"listen", "msg01", "msg3", "sleep", "zero", "ask"}
    /\ lifeLeft \in 0 .. Lifespan
    /\ session \in 0 .. MaxAttempts /\ key \in Keys
    /\ updater \in {"poll", "test", "hash", "copy", "set", "sleep", "crashed"}
    /\ hashed \in Keys /\ times \in -1 .. MaxTimes /\ intervalLeft \in 0 .. Interval
    /\ updater \in {"copy", "set"} => times >= 0

EnclaveTypes ==
    /\ regression \in {"unborn", "run", "sleep"} /\ regressionLeft \in 0 .. Interval
    /\ enclave \in [sk : 0 .. MaxAttempts, count : 0 .. CountLimit - 1,
                    key : Secrets \union {Zero}]

OtherTypes ==
    /\ manager \in {"connect", "msg2", "msg4", "counter", "session", "accept", "drain"}
    /\ attempts \in 0 .. MaxAttempts
    /\ arrived \in 0 .. MaxClients
    /\ clientCount \in 0 .. arrived /\ threads \in 0 .. clientCount

Types == StorageTypes /\ EnclaveTypes /\ OtherTypes

Flags ==
    /\ flag \in BOOLEAN /\ raRequestFlag \in BOOLEAN /\ listenerFreed \in BOOLEAN
    /\ request \in BOOLEAN /\ live \in BOOLEAN

\* the storage server is done with the last attestation, or has asked for another
Done ==
    \/ attester \in {"sleep", "zero", "ask"} /\ ~request /\ session = attempts
    \/ attester = "listen" /\ request

\* a refused key server: nobody sends and nobody is asked
Refused == attester = "listen" /\ ~request /\ toStorage = << >> /\ toKeyServer = << >>

(* How far an attestation is at both ends, and what is on its way between them. *)
Phase ==
    \/ manager \in {"connect", "drain"} /\ Refused
    \/ manager = "msg2" /\ attester = "listen" /\ ~request
       /\ toStorage = <<"request", "msg01">> /\ toKeyServer = << >>
    \/ manager = "msg2" /\ attester = "msg01" /\ ~request
       /\ toStorage = <<"msg01">> /\ toKeyServer = << >>
    \/ manager = "msg2" /\ attester = "msg3" /\ ~request
       /\ toStorage = << >> /\ toKeyServer = <<"msg2">>
    \/ manager = "msg4" /\ attester = "msg3" /\ ~request
       /\ toStorage = <<"msg3">> /\ toKeyServer = << >>
    \/ manager \in {"msg2", "msg4"} /\ Refused
    \/ manager = "msg4" /\ Done /\ toStorage = << >> /\ toKeyServer = <<"msg4">>
    \/ manager \in {"counter", "session", "accept"} /\ Done
       /\ toStorage = << >> /\ toKeyServer = << >>

(* From its creation to its session key an enclave has no secret.  It updates its key once at the
   most, as no time passes before it has its counter, unless it has been refused for ever. *)
Fresh ==
    manager \in {"msg2", "msg4", "counter", "session"} =>
        /\ enclave.sk = 0
        /\ \/ enclave.key = Zero
           \/ enclave.key[1] = 0 /\ (Refused \/ (regression = "sleep" /\ regressionLeft > 0))

Secret ==
    /\ manager # "connect" => attempts > 0
    /\ manager = "accept" => enclave.sk = attempts

\* the counter after an update that found it at t
Pred(t) == IF t = 0 THEN CountLimit - 1 ELSE t - 1

(* The key of an enclave was made when its counter was one more than now, or it belongs to no
   secret any more, or the counter has been set under the key of no secret. *)
Chain ==
    \/ enclave.key = Zero
    \/ enclave.key[1] # enclave.sk
    \/ enclave.count = Pred(enclave.key[2])
    \/ manager = "session"

KeyInv == Types /\ Flags /\ Phase /\ Fresh /\ Secret /\ Chain

-----------------------------------------------------------------------------
LEMMA Constants ==
  /\ MaxTimes \in Nat \ {0} /\ CountLimit \in Nat /\ MaxTimes < CountLimit
  /\ Interval \in Nat \ {0} /\ Lifespan \in Nat \ {0}
  /\ MaxAttempts \in Nat \ {0} /\ MaxClients \in Nat
  /\ Zero \notin Nat \X Nat /\ Junk \notin Nat \X Nat
BY KeyRegressionAssumption

LEMMA Wraps ==
  ASSUME NEW n \in 0 .. CountLimit - 1
  PROVE  (n - 1) % CountLimit = Pred(n) /\ Pred(n) \in 0 .. CountLimit - 1
<1>1. CASE n = 0
  BY <1>1, Constants DEF Pred
<1>2. CASE n > 0
  BY <1>2, Constants DEF Pred
<1>3. QED BY <1>1, <1>2

LEMMA Messages ==
  /\ Head(<<"request", "msg01">>) = "request" /\ Tail(<<"request", "msg01">>) = <<"msg01">>
  /\ Head(<<"msg01">>) = "msg01" /\ Tail(<<"msg01">>) = << >>
  /\ Head(<<"msg3">>) = "msg3" /\ Tail(<<"msg3">>) = << >>
  /\ Tail(<<"msg2">>) = << >> /\ Tail(<<"msg4">>) = << >>
  /\ Append(<< >>, "msg2") = <<"msg2">> /\ Append(<< >>, "msg3") = <<"msg3">>
  /\ Append(<< >>, "msg4") = <<"msg4">>
  /\ <<"request", "msg01">> # << >> /\ <<"msg01">> # << >> /\ <<"msg3">> # << >>
  /\ <<"msg2">> # << >> /\ <<"msg4">> # << >>
OBVIOUS

LEMMA Boxes ==
  LET M == {"request", "msg01", "msg3"}
      N == {"msg2", "msg4"}
  IN  /\ << >> \in Seq(M) /\ <<"request", "msg01">> \in Seq(M)
      /\ <<"msg01">> \in Seq(M) /\ <<"msg3">> \in Seq(M)
      /\ << >> \in Seq(N) /\ <<"msg2">> \in Seq(N) /\ <<"msg4">> \in Seq(N)
OBVIOUS

LEMMA KeyInit == Init => KeyInv
<1> SUFFICES ASSUME Init PROVE KeyInv
  OBVIOUS
<1> USE Constants DEF Init, NewEnclave
<1>1. Types
  <2>1. StorageTypes
    BY DEF StorageTypes, Keys
  <2>2. EnclaveTypes
    BY DEF EnclaveTypes
  <2>3. OtherTypes
    BY DEF OtherTypes
  <2>4. QED BY <2>1, <2>2, <2>3 DEF Types
<1>0. Flags
  BY Zenon DEF Flags
<1>2. Phase
  BY DEF Phase, Refused
<1>3. Fresh /\ Secret /\ Chain
  BY DEF Fresh, Secret, Chain
<1>4. QED
  BY <1>0, <1>1, <1>2, <1>3 DEF KeyInv

LEMMA TypesStep ==
  ASSUME KeyInv, [Next]_vars
  PROVE  Types'
<1> USE DEF storageVars, managerVars, enclaveVars, clientVars, connVars
<1>1. CASE AcceptKeyServer
  BY <1>1, Constants
     DEF AcceptKeyServer, Types, StorageTypes, EnclaveTypes, OtherTypes, Keys, Secrets, KeyInv
<1>2. CASE ProcessMsg01
  BY <1>2, Constants
     DEF ProcessMsg01, Refuse, Types, StorageTypes, EnclaveTypes, OtherTypes, Keys, Secrets,
         KeyInv
<1>3. CASE ProcessMsg3
  BY <1>3, Constants
     DEF ProcessMsg3, Refuse, Types, StorageTypes, EnclaveTypes, OtherTypes, Keys, Secrets, KeyInv
<1>4. CASE Expire
  BY <1>4, Constants
     DEF Expire, Types, StorageTypes, EnclaveTypes, OtherTypes, Keys, Secrets, KeyInv
<1>5. CASE ClearKey
  BY <1>5, Constants
     DEF ClearKey, Types, StorageTypes, EnclaveTypes, OtherTypes, Keys, Secrets, KeyInv
<1>6. CASE AskAttestation
  BY <1>6, Constants
     DEF AskAttestation, Types, StorageTypes, EnclaveTypes, OtherTypes, Keys, Secrets, KeyInv
<1>7. CASE SeeFlag
  BY <1>7, Constants
     DEF SeeFlag, UpdaterStep, Types, StorageTypes, EnclaveTypes, OtherTypes, Keys, Secrets,
         KeyInv
<1>8. CASE TestSession
  BY <1>8, Constants
     DEF TestSession, UpdaterStep, Types, StorageTypes, EnclaveTypes, OtherTypes, Keys, Secrets,
         KeyInv
<1>9. CASE HashKey
  BY <1>9, Constants
     DEF HashKey, Regressed, UpdaterStep, Types, StorageTypes, EnclaveTypes, OtherTypes, Keys,
         Secrets, KeyInv
<1>10. CASE CopyKey
  BY <1>10, Constants
     DEF CopyKey, UpdaterStep, Types, StorageTypes, EnclaveTypes, OtherTypes, Keys, Secrets,
         KeyInv
<1>11. CASE SetFlag
  BY <1>11, Constants
     DEF SetFlag, UpdaterStep, Types, StorageTypes, EnclaveTypes, OtherTypes, Keys, Secrets,
         KeyInv
<1>12. CASE WakeUpdater
  BY <1>12, Constants
     DEF WakeUpdater, UpdaterStep, Types, StorageTypes, EnclaveTypes, OtherTypes, Keys, Secrets,
         KeyInv
<1>13. CASE Connect
  BY <1>13, Constants
     DEF Connect, NewEnclave, Types, StorageTypes, EnclaveTypes, OtherTypes, Keys, Secrets, KeyInv
<1>14. CASE ReceiveMsg2
  BY <1>14, Constants
     DEF ReceiveMsg2, Types, StorageTypes, EnclaveTypes, OtherTypes, Keys, Secrets, KeyInv
<1>15. CASE ReceiveMsg4
  BY <1>15, Constants
     DEF ReceiveMsg4, Types, StorageTypes, EnclaveTypes, OtherTypes, Keys, Secrets, KeyInv
<1>16. CASE SetCounter
  BY <1>16, Constants
     DEF SetCounter, Types, StorageTypes, EnclaveTypes, OtherTypes, Keys, Secrets, KeyInv
<1>17. CASE SetSession
  BY <1>17, Constants
     DEF SetSession, Types, StorageTypes, EnclaveTypes, OtherTypes, Keys, Secrets, KeyInv
<1>18. CASE AcceptRequest
  BY <1>18, Constants
     DEF AcceptRequest, Types, StorageTypes, EnclaveTypes, OtherTypes, Keys, Secrets, KeyInv
<1>19. CASE Drained
  BY <1>19, Constants
     DEF Drained, Types, StorageTypes, EnclaveTypes, OtherTypes, Keys, Secrets, KeyInv
<1>20. CASE UpdateEnclaveKey
  <2>1. PICK n \in 0 .. CountLimit - 1 : n = enclave.count
    BY DEF KeyInv, Types, EnclaveTypes
  <2>2. enclave' = [enclave EXCEPT !.key = <<enclave.sk, n>>, !.count = Pred(n)]
    BY <1>20, <2>1, Wraps DEF UpdateEnclaveKey
  <2>3. Pred(n) \in 0 .. CountLimit - 1 /\ n \in 0 .. CountLimit
    BY Wraps, Constants
  <2>6. enclave.sk \in 0 .. MaxAttempts /\ <<enclave.sk, n>> \in Secrets
    BY <2>3 DEF KeyInv, Types, EnclaveTypes, Secrets
  <2>7. enclave' \in [sk : 0 .. MaxAttempts, count : 0 .. CountLimit - 1,
                    key : Secrets \union {Zero}]
    BY <2>2, <2>3, <2>6 DEF KeyInv, Types, EnclaveTypes
  <2>4. EnclaveTypes'
    BY <1>20, <2>7, Constants DEF UpdateEnclaveKey, KeyInv, Types, EnclaveTypes
  <2>5. QED
    BY <1>20, <2>4 DEF UpdateEnclaveKey, KeyInv, Types, StorageTypes, OtherTypes
<1>21. CASE WakeRegression
  BY <1>21, Constants
     DEF WakeRegression, Types, StorageTypes, EnclaveTypes, OtherTypes, Keys, Secrets, KeyInv
<1>22. CASE ClientArrives
  BY <1>22, Constants
     DEF ClientArrives, Types, StorageTypes, EnclaveTypes, OtherTypes, Keys, Secrets, KeyInv
<1>23. CASE ClientLeaves
  BY <1>23, Constants
     DEF ClientLeaves, Types, StorageTypes, EnclaveTypes, OtherTypes, Keys, Secrets, KeyInv
<1>24. CASE LoginFails
  BY <1>24, Constants
     DEF LoginFails, Types, StorageTypes, EnclaveTypes, OtherTypes, Keys, Secrets, KeyInv
<1>25. CASE Tick
  BY <1>25, Constants
     DEF Tick, Less, Types, StorageTypes, EnclaveTypes, OtherTypes, Keys, Secrets, KeyInv
<1>26. CASE UNCHANGED vars
  BY <1>26 DEF vars, Types, StorageTypes, EnclaveTypes, OtherTypes, Keys, Secrets, KeyInv
<1>27. QED
  BY <1>1, <1>2, <1>3, <1>4, <1>5, <1>6, <1>7, <1>8, <1>9, <1>10, <1>11, <1>12, <1>13, <1>14,
     <1>15, <1>16, <1>17, <1>18, <1>19, <1>20, <1>21, <1>22, <1>23, <1>24, <1>25, <1>26
     DEF Next, Attest, Regress, Manage, RegressEnclave, Leave

LEMMA FlagsStep ==
  ASSUME KeyInv, [Next]_vars
  PROVE  Flags'
<1> USE DEF storageVars, managerVars, enclaveVars, clientVars, connVars
<1>1. CASE AcceptKeyServer
  BY <1>1, Zenon DEF AcceptKeyServer, Flags, KeyInv
<1>2. CASE ProcessMsg01
  BY <1>2, Zenon DEF ProcessMsg01, Refuse, Flags, KeyInv
<1>3. CASE ProcessMsg3
  BY <1>3, Zenon DEF ProcessMsg3, Refuse, Flags, KeyInv
<1>4. CASE Expire
  BY <1>4, Zenon DEF Expire, Flags, KeyInv
<1>5. CASE ClearKey
  BY <1>5, Zenon DEF ClearKey, Flags, KeyInv
<1>6. CASE AskAttestation
  BY <1>6, Zenon DEF AskAttestation, Flags, KeyInv
<1>7. CASE SeeFlag
  BY <1>7, Zenon DEF SeeFlag, UpdaterStep, Flags, KeyInv
<1>8. CASE TestSession
  BY <1>8, Zenon DEF TestSession, UpdaterStep, Flags, KeyInv
<1>9. CASE HashKey
  BY <1>9, Zenon DEF HashKey, Regressed, UpdaterStep, Flags, KeyInv
<1>10. CASE CopyKey
  BY <1>10, Zenon DEF CopyKey, UpdaterStep, Flags, KeyInv
<1>11. CASE SetFlag
  BY <1>11, Zenon DEF SetFlag, UpdaterStep, Flags, KeyInv
<1>12. CASE WakeUpdater
  BY <1>12, Zenon DEF WakeUpdater, UpdaterStep, Flags, KeyInv
<1>13. CASE Connect
  BY <1>13, Zenon DEF Connect, NewEnclave, Flags, KeyInv
<1>14. CASE ReceiveMsg2
  BY <1>14, Zenon DEF ReceiveMsg2, Flags, KeyInv
<1>15. CASE ReceiveMsg4
  BY <1>15, Zenon DEF ReceiveMsg4, Flags, KeyInv
<1>16. CASE SetCounter
  BY <1>16, Zenon DEF SetCounter, Flags, KeyInv
<1>17. CASE SetSession
  BY <1>17, Zenon DEF SetSession, Flags, KeyInv
<1>18. CASE AcceptRequest
  BY <1>18, Zenon DEF AcceptRequest, Flags, KeyInv
<1>19. CASE Drained
  BY <1>19, Zenon DEF Drained, Flags, KeyInv
<1>20. CASE UpdateEnclaveKey
  BY <1>20, Zenon DEF UpdateEnclaveKey, Flags, KeyInv
<1>21. CASE WakeRegression
  BY <1>21, Zenon DEF WakeRegression, Flags, KeyInv
<1>22. CASE ClientArrives
  BY <1>22, Zenon DEF ClientArrives, Flags, KeyInv
<1>23. CASE ClientLeaves
  BY <1>23, Zenon DEF ClientLeaves, Flags, KeyInv
<1>24. CASE LoginFails
  BY <1>24, Zenon DEF LoginFails, Flags, KeyInv
<1>25. CASE Tick
  BY <1>25, Zenon DEF Tick, Less, Flags, KeyInv
<1>26. CASE UNCHANGED vars
  BY <1>26 DEF vars, Flags, KeyInv
<1>27. QED
  BY <1>1, <1>2, <1>3, <1>4, <1>5, <1>6, <1>7, <1>8, <1>9, <1>10, <1>11, <1>12, <1>13, <1>14,
     <1>15, <1>16, <1>17, <1>18, <1>19, <1>20, <1>21, <1>22, <1>23, <1>24, <1>25, <1>26
     DEF Next, Attest, Regress, Manage, RegressEnclave, Leave

LEMMA PhaseStep ==
  ASSUME KeyInv, [Next]_vars
  PROVE  Phase'
<1> USE DEF storageVars, managerVars, enclaveVars, clientVars, connVars
<1>1. CASE AcceptKeyServer
  BY <1>1, Messages DEF AcceptKeyServer, Phase, Done, Refused, Types, KeyInv
<1>2. CASE ProcessMsg01
  BY <1>2, Messages DEF ProcessMsg01, Refuse, Phase, Done, Refused, Types, KeyInv
<1>3. CASE ProcessMsg3
  BY <1>3, Messages DEF ProcessMsg3, Refuse, Phase, Done, Refused, Types, KeyInv
<1>4. CASE Expire
  BY <1>4, Messages DEF Expire, Phase, Done, Refused, Types, KeyInv
<1>5. CASE ClearKey
  BY <1>5, Messages DEF ClearKey, Phase, Done, Refused, Types, KeyInv
<1>6. CASE AskAttestation
  BY <1>6, Messages DEF AskAttestation, Phase, Done, Refused, Types, KeyInv
<1>7. CASE SeeFlag
  BY <1>7, Messages DEF SeeFlag, UpdaterStep, Phase, Done, Refused, Types, KeyInv
<1>8. CASE TestSession
  BY <1>8, Messages DEF TestSession, UpdaterStep, Phase, Done, Refused, Types, KeyInv
<1>9. CASE HashKey
  BY <1>9, Messages DEF HashKey, Regressed, UpdaterStep, Phase, Done, Refused, Types, KeyInv
<1>10. CASE CopyKey
  BY <1>10, Messages DEF CopyKey, UpdaterStep, Phase, Done, Refused, Types, KeyInv
<1>11. CASE SetFlag
  BY <1>11, Messages DEF SetFlag, UpdaterStep, Phase, Done, Refused, Types, KeyInv
<1>12. CASE WakeUpdater
  BY <1>12, Messages DEF WakeUpdater, UpdaterStep, Phase, Done, Refused, Types, KeyInv
<1>13. CASE Connect
  BY <1>13, Messages DEF Connect, NewEnclave, Phase, Done, Refused, Types, KeyInv
<1>14. CASE ReceiveMsg2
  BY <1>14, Messages DEF ReceiveMsg2, Phase, Done, Refused, Types, KeyInv
<1>15. CASE ReceiveMsg4
  BY <1>15, Messages DEF ReceiveMsg4, Phase, Done, Refused, Types, KeyInv
<1>16. CASE SetCounter
  BY <1>16, Messages DEF SetCounter, Phase, Done, Refused, Types, KeyInv
<1>17. CASE SetSession
  BY <1>17, Messages DEF SetSession, Phase, Done, Refused, Types, KeyInv
<1>18. CASE AcceptRequest
  BY <1>18, Messages DEF AcceptRequest, Phase, Done, Refused, Types, KeyInv
<1>19. CASE Drained
  BY <1>19, Messages DEF Drained, Phase, Done, Refused, Types, KeyInv
<1>20. CASE UpdateEnclaveKey
  BY <1>20, Messages DEF UpdateEnclaveKey, Phase, Done, Refused, Types, KeyInv
<1>21. CASE WakeRegression
  BY <1>21, Messages DEF WakeRegression, Phase, Done, Refused, Types, KeyInv
<1>22. CASE ClientArrives
  BY <1>22, Messages DEF ClientArrives, Phase, Done, Refused, Types, KeyInv
<1>23. CASE ClientLeaves
  BY <1>23, Messages DEF ClientLeaves, Phase, Done, Refused, Types, KeyInv
<1>24. CASE LoginFails
  BY <1>24, Messages DEF LoginFails, Phase, Done, Refused, Types, KeyInv
<1>25. CASE Tick
  BY <1>25, Messages DEF Tick, Less, Phase, Done, Refused, Types, KeyInv
<1>26. CASE UNCHANGED vars
  BY <1>26 DEF vars, Phase, Done, Refused, Types, KeyInv
<1>27. QED
  BY <1>1, <1>2, <1>3, <1>4, <1>5, <1>6, <1>7, <1>8, <1>9, <1>10, <1>11, <1>12, <1>13, <1>14,
     <1>15, <1>16, <1>17, <1>18, <1>19, <1>20, <1>21, <1>22, <1>23, <1>24, <1>25, <1>26
     DEF Next, Attest, Regress, Manage, RegressEnclave, Leave

LEMMA SecretStep ==
  ASSUME KeyInv, [Next]_vars
  PROVE  Secret'
<1> USE DEF storageVars, managerVars, enclaveVars, clientVars, connVars
<1>1. CASE AcceptKeyServer
  BY <1>1 DEF AcceptKeyServer, Secret, Types, OtherTypes, KeyInv
<1>2. CASE ProcessMsg01
  BY <1>2 DEF ProcessMsg01, Refuse, Secret, Types, OtherTypes, KeyInv
<1>3. CASE ProcessMsg3
  BY <1>3 DEF ProcessMsg3, Refuse, Secret, Types, OtherTypes, KeyInv
<1>4. CASE Expire
  BY <1>4 DEF Expire, Secret, Types, OtherTypes, KeyInv
<1>5. CASE ClearKey
  BY <1>5 DEF ClearKey, Secret, Types, OtherTypes, KeyInv
<1>6. CASE AskAttestation
  BY <1>6 DEF AskAttestation, Secret, Types, OtherTypes, KeyInv
<1>7. CASE SeeFlag
  BY <1>7 DEF SeeFlag, UpdaterStep, Secret, Types, OtherTypes, KeyInv
<1>8. CASE TestSession
  BY <1>8 DEF TestSession, UpdaterStep, Secret, Types, OtherTypes, KeyInv
<1>9. CASE HashKey
  BY <1>9 DEF HashKey, Regressed, UpdaterStep, Secret, Types, OtherTypes, KeyInv
<1>10. CASE CopyKey
  BY <1>10 DEF CopyKey, UpdaterStep, Secret, Types, OtherTypes, KeyInv
<1>11. CASE SetFlag
  BY <1>11 DEF SetFlag, UpdaterStep, Secret, Types, OtherTypes, KeyInv
<1>12. CASE WakeUpdater
  BY <1>12 DEF WakeUpdater, UpdaterStep, Secret, Types, OtherTypes, KeyInv
<1>13. CASE Connect
  BY <1>13 DEF Connect, NewEnclave, Secret, Types, OtherTypes, KeyInv
<1>14. CASE ReceiveMsg2
  BY <1>14 DEF ReceiveMsg2, Secret, Types, OtherTypes, KeyInv
<1>15. CASE ReceiveMsg4
  BY <1>15 DEF ReceiveMsg4, Secret, Types, OtherTypes, KeyInv
<1>16. CASE SetCounter
  BY <1>16 DEF SetCounter, Secret, Types, OtherTypes, KeyInv
<1>17. CASE SetSession
  BY <1>17 DEF SetSession, Secret, Types, EnclaveTypes, KeyInv
<1>18. CASE AcceptRequest
  BY <1>18 DEF AcceptRequest, Secret, Types, OtherTypes, KeyInv
<1>19. CASE Drained
  BY <1>19 DEF Drained, Secret, Types, OtherTypes, KeyInv
<1>20. CASE UpdateEnclaveKey
  BY <1>20 DEF UpdateEnclaveKey, Secret, Types, OtherTypes, KeyInv
<1>21. CASE WakeRegression
  BY <1>21 DEF WakeRegression, Secret, Types, OtherTypes, KeyInv
<1>22. CASE ClientArrives
  BY <1>22 DEF ClientArrives, Secret, Types, OtherTypes, KeyInv
<1>23. CASE ClientLeaves
  BY <1>23 DEF ClientLeaves, Secret, Types, OtherTypes, KeyInv
<1>24. CASE LoginFails
  BY <1>24 DEF LoginFails, Secret, Types, OtherTypes, KeyInv
<1>25. CASE Tick
  BY <1>25 DEF Tick, Less, Secret, Types, OtherTypes, KeyInv
<1>26. CASE UNCHANGED vars
  BY <1>26 DEF vars, Secret, Types, OtherTypes, KeyInv
<1>27. QED
  BY <1>1, <1>2, <1>3, <1>4, <1>5, <1>6, <1>7, <1>8, <1>9, <1>10, <1>11, <1>12, <1>13, <1>14,
     <1>15, <1>16, <1>17, <1>18, <1>19, <1>20, <1>21, <1>22, <1>23, <1>24, <1>25, <1>26
     DEF Next, Attest, Regress, Manage, RegressEnclave, Leave

LEMMA FreshStep ==
  ASSUME KeyInv, [Next]_vars
  PROVE  Fresh'
<1> USE DEF storageVars, managerVars, enclaveVars, clientVars, connVars
<1>1. CASE AcceptKeyServer
  BY <1>1, Constants, Messages
     DEF AcceptKeyServer, Fresh, Phase, Done, Refused, Types, EnclaveTypes, KeyInv
<1>2. CASE ProcessMsg01
  BY <1>2, Constants, Messages
     DEF ProcessMsg01, Refuse, Fresh, Phase, Done, Refused, Types, EnclaveTypes, KeyInv
<1>3. CASE ProcessMsg3
  BY <1>3, Constants, Messages
     DEF ProcessMsg3, Refuse, Fresh, Phase, Done, Refused, Types, EnclaveTypes, KeyInv
<1>4. CASE Expire
  BY <1>4, Constants, Messages
     DEF Expire, Fresh, Phase, Done, Refused, Types, EnclaveTypes, KeyInv
<1>5. CASE ClearKey
  BY <1>5, Constants, Messages
     DEF ClearKey, Fresh, Phase, Done, Refused, Types, EnclaveTypes, KeyInv
<1>6. CASE AskAttestation
  BY <1>6, Constants, Messages
     DEF AskAttestation, Fresh, Phase, Done, Refused, Types, EnclaveTypes, KeyInv
<1>7. CASE SeeFlag
  BY <1>7, Constants, Messages
     DEF SeeFlag, UpdaterStep, Fresh, Phase, Done, Refused, Types, EnclaveTypes, KeyInv
<1>8. CASE TestSession
  BY <1>8, Constants, Messages
     DEF TestSession, UpdaterStep, Fresh, Phase, Done, Refused, Types, EnclaveTypes, KeyInv
<1>9. CASE HashKey
  BY <1>9, Constants, Messages
     DEF HashKey, Regressed, UpdaterStep, Fresh, Phase, Done, Refused, Types, EnclaveTypes, KeyInv
<1>10. CASE CopyKey
  BY <1>10, Constants, Messages
     DEF CopyKey, UpdaterStep, Fresh, Phase, Done, Refused, Types, EnclaveTypes, KeyInv
<1>11. CASE SetFlag
  BY <1>11, Constants, Messages
     DEF SetFlag, UpdaterStep, Fresh, Phase, Done, Refused, Types, EnclaveTypes, KeyInv
<1>12. CASE WakeUpdater
  BY <1>12, Constants, Messages
     DEF WakeUpdater, UpdaterStep, Fresh, Phase, Done, Refused, Types, EnclaveTypes, KeyInv
<1>13. CASE Connect
  BY <1>13, Constants, Messages
     DEF Connect, NewEnclave, Fresh, Phase, Done, Refused, Types, EnclaveTypes, KeyInv
<1>14. CASE ReceiveMsg2
  BY <1>14, Constants, Messages
     DEF ReceiveMsg2, Fresh, Phase, Done, Refused, Types, EnclaveTypes, KeyInv
<1>15. CASE ReceiveMsg4
  BY <1>15, Constants, Messages
     DEF ReceiveMsg4, Fresh, Phase, Done, Refused, Types, EnclaveTypes, KeyInv
<1>16. CASE SetCounter
  BY <1>16, Constants, Messages
     DEF SetCounter, Fresh, Phase, Done, Refused, Types, EnclaveTypes, KeyInv
<1>17. CASE SetSession
  BY <1>17, Constants, Messages
     DEF SetSession, Fresh, Phase, Done, Refused, Types, EnclaveTypes, KeyInv
<1>18. CASE AcceptRequest
  BY <1>18, Constants, Messages
     DEF AcceptRequest, Fresh, Phase, Done, Refused, Types, EnclaveTypes, KeyInv
<1>19. CASE Drained
  BY <1>19, Constants, Messages
     DEF Drained, Fresh, Phase, Done, Refused, Types, EnclaveTypes, KeyInv
<1>20. CASE UpdateEnclaveKey
  <2>1. enclave.sk = 0 => enclave'.sk = 0 /\ enclave'.key[1] = 0
    BY <1>20 DEF UpdateEnclaveKey, KeyInv, Types, EnclaveTypes
  <2>2. QED
    BY <1>20, <2>1, Constants DEF UpdateEnclaveKey, Fresh, Refused, KeyInv
<1>21. CASE WakeRegression
  BY <1>21, Constants, Messages
     DEF WakeRegression, Fresh, Phase, Done, Refused, Types, EnclaveTypes, KeyInv
<1>22. CASE ClientArrives
  BY <1>22, Constants, Messages
     DEF ClientArrives, Fresh, Phase, Done, Refused, Types, EnclaveTypes, KeyInv
<1>23. CASE ClientLeaves
  BY <1>23, Constants, Messages
     DEF ClientLeaves, Fresh, Phase, Done, Refused, Types, EnclaveTypes, KeyInv
<1>24. CASE LoginFails
  BY <1>24, Constants, Messages
     DEF LoginFails, Fresh, Phase, Done, Refused, Types, EnclaveTypes, KeyInv
<1>25. CASE Tick
  <2>1. manager \in {"msg2", "msg4", "counter", "session"} => Refused
    BY <1>25, Messages DEF Tick, AtRest, Quiet, StorageQuiet, KeyServerQuiet, KeyInv, Phase, Done,
                       Refused
  <2>2. QED
    BY <1>25, <2>1 DEF Tick, Fresh, Refused, KeyInv
<1>26. CASE UNCHANGED vars
  BY <1>26 DEF vars, Fresh, Phase, Done, Refused, Types, EnclaveTypes, KeyInv
<1>27. QED
  BY <1>1, <1>2, <1>3, <1>4, <1>5, <1>6, <1>7, <1>8, <1>9, <1>10, <1>11, <1>12, <1>13, <1>14,
     <1>15, <1>16, <1>17, <1>18, <1>19, <1>20, <1>21, <1>22, <1>23, <1>24, <1>25, <1>26
     DEF Next, Attest, Regress, Manage, RegressEnclave, Leave

LEMMA ChainStep ==
  ASSUME KeyInv, [Next]_vars
  PROVE  Chain'
<1> USE DEF storageVars, managerVars, enclaveVars, clientVars, connVars
<1>1. CASE AcceptKeyServer
  BY <1>1 DEF AcceptKeyServer, Chain, Types, EnclaveTypes, KeyInv
<1>2. CASE ProcessMsg01
  BY <1>2 DEF ProcessMsg01, Refuse, Chain, Types, EnclaveTypes, KeyInv
<1>3. CASE ProcessMsg3
  BY <1>3 DEF ProcessMsg3, Refuse, Chain, Types, EnclaveTypes, KeyInv
<1>4. CASE Expire
  BY <1>4 DEF Expire, Chain, Types, EnclaveTypes, KeyInv
<1>5. CASE ClearKey
  BY <1>5 DEF ClearKey, Chain, Types, EnclaveTypes, KeyInv
<1>6. CASE AskAttestation
  BY <1>6 DEF AskAttestation, Chain, Types, EnclaveTypes, KeyInv
<1>7. CASE SeeFlag
  BY <1>7 DEF SeeFlag, UpdaterStep, Chain, Types, EnclaveTypes, KeyInv
<1>8. CASE TestSession
  BY <1>8 DEF TestSession, UpdaterStep, Chain, Types, EnclaveTypes, KeyInv
<1>9. CASE HashKey
  BY <1>9 DEF HashKey, Regressed, UpdaterStep, Chain, Types, EnclaveTypes, KeyInv
<1>10. CASE CopyKey
  BY <1>10 DEF CopyKey, UpdaterStep, Chain, Types, EnclaveTypes, KeyInv
<1>11. CASE SetFlag
  BY <1>11 DEF SetFlag, UpdaterStep, Chain, Types, EnclaveTypes, KeyInv
<1>12. CASE WakeUpdater
  BY <1>12 DEF WakeUpdater, UpdaterStep, Chain, Types, EnclaveTypes, KeyInv
<1>13. CASE Connect
  BY <1>13 DEF Connect, NewEnclave, Chain, Types, EnclaveTypes, KeyInv
<1>14. CASE ReceiveMsg2
  BY <1>14 DEF ReceiveMsg2, Chain, Types, EnclaveTypes, KeyInv
<1>15. CASE ReceiveMsg4
  BY <1>15 DEF ReceiveMsg4, Chain, Types, EnclaveTypes, KeyInv
<1>16. CASE SetCounter
  BY <1>16 DEF SetCounter, Chain, Types, EnclaveTypes, KeyInv
<1>17. CASE SetSession
  <2>1. attempts > 0 /\ attempts \in Nat
    BY <1>17 DEF SetSession, Secret, KeyInv, Types, OtherTypes
  <2>2. enclave'.key = enclave.key /\ enclave'.sk = attempts
    BY <1>17 DEF SetSession, KeyInv, Types, EnclaveTypes
  <2>3. QED
    BY <1>17, <2>1, <2>2 DEF SetSession, KeyInv, Fresh, Chain
<1>18. CASE AcceptRequest
  BY <1>18 DEF AcceptRequest, Chain, Types, EnclaveTypes, KeyInv
<1>19. CASE Drained
  BY <1>19 DEF Drained, Chain, Types, EnclaveTypes, KeyInv
<1>20. CASE UpdateEnclaveKey
  <2>1. PICK n \in 0 .. CountLimit - 1 : n = enclave.count
    BY DEF KeyInv, Types, EnclaveTypes
  <2>2. enclave'.key[2] = n /\ enclave'.count = Pred(n)
    BY <1>20, <2>1, Wraps DEF UpdateEnclaveKey, KeyInv, Types, EnclaveTypes
  <2>3. QED
    BY <2>2 DEF Chain
<1>21. CASE WakeRegression
  BY <1>21 DEF WakeRegression, Chain, Types, EnclaveTypes, KeyInv
<1>22. CASE ClientArrives
  BY <1>22 DEF ClientArrives, Chain, Types, EnclaveTypes, KeyInv
<1>23. CASE ClientLeaves
  BY <1>23 DEF ClientLeaves, Chain, Types, EnclaveTypes, KeyInv
<1>24. CASE LoginFails
  BY <1>24 DEF LoginFails, Chain, Types, EnclaveTypes, KeyInv
<1>25. CASE Tick
  BY <1>25 DEF Tick, Less, Chain, Types, EnclaveTypes, KeyInv
<1>26. CASE UNCHANGED vars
  BY <1>26 DEF vars, Chain, Types, EnclaveTypes, KeyInv
<1>27. QED
  BY <1>1, <1>2, <1>3, <1>4, <1>5, <1>6, <1>7, <1>8, <1>9, <1>10, <1>11, <1>12, <1>13, <1>14,
     <1>15, <1>16, <1>17, <1>18, <1>19, <1>20, <1>21, <1>22, <1>23, <1>24, <1>25, <1>26
     DEF Next, Attest, Regress, Manage, RegressEnclave, Leave

-----------------------------------------------------------------------------
LEMMA KeyStep == KeyInv /\ [Next]_vars => KeyInv'
BY TypesStep, FlagsStep, PhaseStep, FreshStep, SecretStep, ChainStep DEF KeyInv

LEMMA KeyAlways == Spec => []KeyInv
BY KeyInit, KeyStep, PTL DEF Spec

(* At the end of an attestation both sides hold its secret, in every order of their steps and
   after any number of attestations, refused ones and lost clients among them. *)
THEOREM SecretsMatch == Spec => []SameSecret
<1>1. KeyInv => SameSecret
  <2> SUFFICES ASSUME KeyInv PROVE SameSecret
    OBVIOUS
  <2>1. toStorage \in Seq({"request", "msg01", "msg3"}) /\ toKeyServer \in Seq({"msg2", "msg4"})
    BY Boxes DEF KeyInv, Phase, Refused
  <2>2. clientCount \in 0 .. MaxClients /\ threads \in 0 .. MaxClients
    BY Constants DEF KeyInv, Types, OtherTypes
  <2>3. enclave \in [sk : 0 .. MaxAttempts, count : 0 .. CountLimit - 1, key : Keys]
    BY DEF KeyInv, Types, EnclaveTypes, Keys, Secrets
  <2>4. TypeOK
    BY <2>1, <2>2, <2>3
       DEF KeyInv, Types, Flags, StorageTypes, EnclaveTypes, OtherTypes, TypeOK
  <2>5. manager = "accept" =>
          /\ enclave.sk = attempts
          /\ attester \in {"sleep", "zero", "ask"} => session = enclave.sk
    BY DEF KeyInv, Phase, Done, Refused, Secret
  <2>6. QED
    BY <2>4, <2>5 DEF SameSecret
<1>2. QED
  BY <1>1, KeyAlways, PTL

(* Updates of the enclave only go back along the chain of one secret, as long as the chain is not
   used up; the counter must not be at its largest value at the beginning, where its wrap would
   not show. *)
THEOREM NeverForward ==
  MaxTimes < CountLimit - 1 => (Spec => OnlyBackwards)
<1> SUFFICES ASSUME MaxTimes < CountLimit - 1 PROVE Spec => OnlyBackwards
  OBVIOUS
<1> DEFINE Back ==
      \/ enclave'.key = Zero
      \/ enclave.key = Zero
      \/ enclave'.key[1] # enclave.key[1]
      \/ enclave'.key[2] < enclave.key[2]
      \/ enclave.count > MaxTimes
<1>1. KeyInv /\ [Next]_vars => [enclave.key # enclave'.key => Back]_vars
  <2> SUFFICES ASSUME KeyInv, Next, enclave.key # enclave'.key PROVE Back
    BY DEF vars
  <2>1. UpdateEnclaveKey \/ Connect
    BY DEF Next, Attest, Regress, Manage, RegressEnclave, Leave, KeyInv, Types, EnclaveTypes,
           AcceptKeyServer, ProcessMsg01, ProcessMsg3, Expire, ClearKey, AskAttestation, SeeFlag,
           TestSession, HashKey, CopyKey, SetFlag, WakeUpdater, UpdaterStep, ReceiveMsg2,
           ReceiveMsg4, SetCounter, SetSession, AcceptRequest, Drained, WakeRegression,
           ClientArrives, ClientLeaves, LoginFails, Tick, managerVars, enclaveVars, clientVars,
           connVars, storageVars
  <2>2. CASE Connect
    BY <2>2 DEF Connect, NewEnclave
  <2>3. CASE UpdateEnclaveKey
    <3>1. PICK n \in 0 .. CountLimit - 1 : n = enclave.count
      BY DEF KeyInv, Types, EnclaveTypes
    <3>2. enclave'.key = <<enclave.sk, n>>
      BY <2>3, <3>1 DEF UpdateEnclaveKey, KeyInv, Types, EnclaveTypes
    <3>3. SUFFICES ASSUME enclave.key # Zero, enclave.key[1] = enclave.sk PROVE Back
      BY <3>2
    <3>4. enclave.key[2] \in 0 .. CountLimit
      BY <3>3 DEF KeyInv, Types, EnclaveTypes, Secrets
    <3>5. CASE manager = "session"
      BY <2>3, <3>3, <3>5 DEF KeyInv, Fresh, Refused, Phase, Done, UpdateEnclaveKey
    <3>6. CASE enclave.count = Pred(enclave.key[2])
      BY <3>1, <3>2, <3>4, <3>6, Constants DEF Pred
    <3>7. QED
      BY <3>3, <3>5, <3>6 DEF KeyInv, Chain
  <2>4. QED BY <2>1, <2>2, <2>3
<1>2. QED
  BY <1>1, KeyAlways, PTL DEF Spec, OnlyBackwards

-----------------------------------------------------------------------------
(* The two regressions under the first attestation *)

(* Before it is complete neither side has begun. *)
Unbegun == ~flag /\ updater = "poll" /\ times = MaxTimes /\ regression = "unborn"

Beginning ==
    /\ session <= attempts
    /\ request => session # 0
    /\ attempts <= 1 /\ (attester \in {"msg01", "msg3"} \/ toStorage # << >>) => session = 0
    /\ session = 0 /\ attempts <= 1 => Unbegun
    /\ manager = "session" /\ regression = "unborn" => enclave.count = MaxTimes

\* the enclave is about to be at c, or it is, and the counter says so
At(c) == IF regression = "unborn" THEN c = MaxTimes ELSE enclave.count = c

(* The keys of the two sides by their counters. *)
KeysByCount ==
    /\ updater = "copy" => hashed = Regressed(1, times)
    /\ updater = "set" => key = Regressed(1, times)
    /\ updater # "set" /\ times < MaxTimes => key = <<1, times + 1>>
    /\ updater = "sleep" => times < MaxTimes
    /\ regression = "sleep" /\ enclave.count < MaxTimes => enclave.key = <<1, enclave.count + 1>>

(* Neither side is ahead of the other but by the round both have to make now. *)
Lockstep ==
    IF updater = "sleep"
    THEN IF regression = "sleep"
         THEN \/ intervalLeft = regressionLeft /\ enclave.count = times
              \/ intervalLeft = Interval /\ regressionLeft = 0 /\ enclave.count = times + 1
              \/ intervalLeft = 0 /\ regressionLeft = Interval /\ enclave.count = Pred(times)
         ELSE \/ intervalLeft = 0 /\ At(times)
              \/ intervalLeft = Interval /\ At(times + 1)
    ELSE IF regression = "sleep"
         THEN \/ regressionLeft = 0 /\ enclave.count = times
              \/ regressionLeft = Interval /\ enclave.count = Pred(times)
         ELSE At(times)

FirstLasts == session = 1 /\ attester = "sleep"

Together ==
    FirstLasts =>
        /\ manager = "accept" <=> regression # "unborn"
        /\ updater # "crashed" /\ (updater \in {"poll", "test", "sleep"} => flag)
        /\ times >= 0 => KeysByCount /\ Lockstep

AgreeInv == KeyInv /\ Beginning /\ Together

LEMMA BeginInit == Init => Beginning
BY DEF Init, Beginning, Unbegun

LEMMA BeginStep ==
  ASSUME KeyInv, Beginning, [Next]_vars
  PROVE  Beginning'
<1> USE DEF storageVars, managerVars, enclaveVars, clientVars, connVars
<1>0. session \in Nat /\ attempts \in Nat /\ (manager # "connect" => attempts > 0)
  BY Constants DEF KeyInv, Types, StorageTypes, OtherTypes, Secret
<1>1. CASE AcceptKeyServer
  BY <1>0, <1>1, Messages
     DEF AcceptKeyServer, Beginning, Unbegun, KeyInv, Phase, Done, Refused, Types, EnclaveTypes
<1>2. CASE ProcessMsg01
  BY <1>0, <1>2, Messages
     DEF ProcessMsg01, Refuse, Beginning, Unbegun, KeyInv, Phase, Done, Refused, Types, EnclaveTypes
<1>3. CASE ProcessMsg3
  BY <1>0, <1>3, Messages
     DEF ProcessMsg3, Refuse, Beginning, Unbegun, KeyInv, Phase, Done, Refused, Types, EnclaveTypes
<1>4. CASE Expire
  BY <1>0, <1>4, Messages
     DEF Expire, Beginning, Unbegun, KeyInv, Phase, Done, Refused, Types, EnclaveTypes
<1>5. CASE ClearKey
  BY <1>0, <1>5, Messages
     DEF ClearKey, Beginning, Unbegun, KeyInv, Phase, Done, Refused, Types, EnclaveTypes
<1>6. CASE AskAttestation
  BY <1>0, <1>6, Messages
     DEF AskAttestation, Beginning, Unbegun, KeyInv, Phase, Done, Refused, Types, EnclaveTypes
<1>7. CASE SeeFlag
  BY <1>0, <1>7, Messages
     DEF SeeFlag, UpdaterStep, Beginning, Unbegun, KeyInv, Phase, Done, Refused, Types, EnclaveTypes
<1>8. CASE TestSession
  BY <1>0, <1>8, Messages
     DEF TestSession, UpdaterStep, Beginning, Unbegun, KeyInv, Phase, Done, Refused, Types, EnclaveTypes
<1>9. CASE HashKey
  BY <1>0, <1>9, Messages
     DEF HashKey, UpdaterStep, Beginning, Unbegun, KeyInv, Phase, Done, Refused, Types, EnclaveTypes
<1>10. CASE CopyKey
  BY <1>0, <1>10, Messages
     DEF CopyKey, UpdaterStep, Beginning, Unbegun, KeyInv, Phase, Done, Refused, Types, EnclaveTypes
<1>11. CASE SetFlag
  BY <1>0, <1>11, Messages
     DEF SetFlag, UpdaterStep, Beginning, Unbegun, KeyInv, Phase, Done, Refused, Types, EnclaveTypes
<1>12. CASE WakeUpdater
  BY <1>0, <1>12, Messages
     DEF WakeUpdater, UpdaterStep, Beginning, Unbegun, KeyInv, Phase, Done, Refused, Types, EnclaveTypes
<1>13. CASE Connect
  BY <1>0, <1>13, Messages
     DEF Connect, NewEnclave, Beginning, Unbegun, KeyInv, Phase, Done, Refused, Types, EnclaveTypes
<1>14. CASE ReceiveMsg2
  BY <1>0, <1>14, Messages
     DEF ReceiveMsg2, Beginning, Unbegun, KeyInv, Phase, Done, Refused, Types, EnclaveTypes
<1>15. CASE ReceiveMsg4
  BY <1>0, <1>15, Messages
     DEF ReceiveMsg4, Beginning, Unbegun, KeyInv, Phase, Done, Refused, Types, EnclaveTypes
<1>16. CASE SetCounter
  BY <1>0, <1>16, Messages
     DEF SetCounter, Beginning, Unbegun, KeyInv, Phase, Done, Refused, Types, EnclaveTypes
<1>17. CASE SetSession
  BY <1>0, <1>17, Messages
     DEF SetSession, Beginning, Unbegun, KeyInv, Phase, Done, Refused, Types, EnclaveTypes
<1>18. CASE AcceptRequest
  BY <1>0, <1>18, Messages
     DEF AcceptRequest, Beginning, Unbegun, KeyInv, Phase, Done, Refused, Types, EnclaveTypes
<1>19. CASE Drained
  BY <1>0, <1>19, Messages
     DEF Drained, Beginning, Unbegun, KeyInv, Phase, Done, Refused, Types, EnclaveTypes
<1>20. CASE UpdateEnclaveKey
  BY <1>0, <1>20, Messages
     DEF UpdateEnclaveKey, Beginning, Unbegun, KeyInv, Phase, Done, Refused, Types, EnclaveTypes
<1>21. CASE WakeRegression
  BY <1>0, <1>21, Messages
     DEF WakeRegression, Beginning, Unbegun, KeyInv, Phase, Done, Refused, Types, EnclaveTypes
<1>22. CASE ClientArrives
  BY <1>0, <1>22, Messages
     DEF ClientArrives, Beginning, Unbegun, KeyInv, Phase, Done, Refused, Types, EnclaveTypes
<1>23. CASE ClientLeaves
  BY <1>0, <1>23, Messages
     DEF ClientLeaves, Beginning, Unbegun, KeyInv, Phase, Done, Refused, Types, EnclaveTypes
<1>24. CASE LoginFails
  BY <1>0, <1>24, Messages
     DEF LoginFails, Beginning, Unbegun, KeyInv, Phase, Done, Refused, Types, EnclaveTypes
<1>25. CASE Tick
  BY <1>0, <1>25, Messages
     DEF Tick, Beginning, Unbegun, KeyInv, Phase, Done, Refused, Types, EnclaveTypes
<1>26. CASE UNCHANGED vars
  BY <1>26 DEF vars, Beginning, Unbegun
<1>27. QED
  BY <1>1, <1>2, <1>3, <1>4, <1>5, <1>6, <1>7, <1>8, <1>9, <1>10, <1>11, <1>12, <1>13, <1>14,
     <1>15, <1>16, <1>17, <1>18, <1>19, <1>20, <1>21, <1>22, <1>23, <1>24, <1>25, <1>26
     DEF Next, Attest, Regress, Manage, RegressEnclave, Leave

LEMMA InFirst ==
  ASSUME KeyInv, FirstLasts
  PROVE  /\ attempts = 1 /\ ~request /\ toStorage = << >>
         /\ \/ manager = "msg4" /\ toKeyServer # << >>
            \/ manager \in {"counter", "session", "accept"}
         /\ manager = "accept" => enclave.sk = 1
         /\ times \in Int /\ enclave.count \in Nat
BY Messages, Constants DEF KeyInv, Phase, Done, Refused, FirstLasts, Secret, Types, StorageTypes,
                           EnclaveTypes

\* what the statement is about
lockVars == <<session, attester, updater, flag, times, hashed, key, intervalLeft, regression,
              regressionLeft>>

LEMMA TogetherKept ==
  ASSUME Together, UNCHANGED lockVars, FirstLasts => enclave' = enclave,
         FirstLasts => ((manager' = "accept") = (manager = "accept"))
  PROVE  Together'
BY DEF Together, FirstLasts, KeysByCount, Lockstep, At, Regressed, lockVars

\* a step of the updater
LEMMA UpdaterTogether ==
  ASSUME KeyInv, Together, Regress
  PROVE  Together'
<1> USE DEF UpdaterStep, managerVars, enclaveVars
<1>1. /\ UNCHANGED <<session, attester, manager, regression, regressionLeft, enclave>>
      /\ FirstLasts' = FirstLasts
  BY DEF Regress, SeeFlag, TestSession, HashKey, CopyKey, SetFlag, WakeUpdater, FirstLasts
<1> SUFFICES ASSUME FirstLasts PROVE Together'
  BY <1>1 DEF Together
<1>2. /\ manager = "accept" <=> regression # "unborn"
      /\ updater # "crashed" /\ (updater \in {"poll", "test", "sleep"} => flag)
      /\ times >= 0 => KeysByCount /\ Lockstep
      /\ session = 1
  BY DEF Together, FirstLasts
<1>3. PICK t \in Int : t = times
  BY InFirst
<1>4. PICK c \in Nat : c = enclave.count
  BY InFirst
<1> USE Constants
<1>5. CASE SeeFlag
  BY <1>1, <1>2, <1>5 DEF SeeFlag, Together, KeysByCount, Lockstep, At, Regressed
<1>6. CASE TestSession
  BY <1>1, <1>2, <1>6 DEF TestSession, Together, KeysByCount, Lockstep, At, Regressed
<1>7. CASE HashKey
  BY <1>1, <1>2, <1>7 DEF HashKey, Together, KeysByCount, Lockstep, At, Regressed
<1>8. CASE CopyKey
  BY <1>1, <1>2, <1>8 DEF CopyKey, Together, KeysByCount, Lockstep, At, Regressed
<1>9. CASE SetFlag
  <2>1. /\ updater = "set" /\ updater' = "sleep" /\ flag' /\ times' = t - 1
        /\ intervalLeft' = Interval /\ key' = key
    BY <1>3, <1>9 DEF SetFlag
  <2>2. SUFFICES ASSUME t - 1 >= 0 PROVE (KeysByCount /\ Lockstep)'
    BY <1>1, <1>2, <2>1 DEF Together
  <2>3. key = <<1, t>> /\ t <= MaxTimes /\ KeysByCount /\ Lockstep
    BY <1>2, <1>3, <2>1, <2>2
       DEF KeysByCount, Regressed, KeyInv, Types, StorageTypes
  <2>4. KeysByCount'
    <3>1. times' < MaxTimes /\ times' + 1 = t
      BY <2>1, <2>3
    <3>2. QED
      BY <1>1, <2>1, <2>3, <3>1 DEF KeysByCount
  <2>5. Lockstep'
    <3>1. Pred(t) = t - 1 /\ (t - 1) + 1 = t
      BY <2>2 DEF Pred
    <3>2. CASE regression = "sleep"
      <4>1. \/ regressionLeft = 0 /\ c = t
            \/ regressionLeft = Interval /\ c = t - 1
        BY <1>3, <1>4, <2>1, <2>3, <3>1, <3>2 DEF Lockstep
      <4>2. QED
        BY <1>1, <1>4, <2>1, <3>1, <3>2, <4>1 DEF Lockstep
    <3>3. CASE regression # "sleep"
      <4>1. At(t)
        BY <1>3, <2>1, <2>3, <3>3 DEF Lockstep
      <4>2. QED
        BY <1>1, <2>1, <3>1, <3>3, <4>1 DEF Lockstep, At
    <3>4. QED BY <3>2, <3>3
  <2>6. QED BY <2>4, <2>5
<1>10. CASE WakeUpdater
  <2>1. /\ intervalLeft = 0 /\ updater = "sleep" /\ updater' = "poll"
        /\ UNCHANGED <<flag, key, hashed, times, intervalLeft>>
    BY <1>10 DEF WakeUpdater
  <2>2. KeysByCount => KeysByCount'
    BY <1>1, <2>1 DEF KeysByCount, Regressed
  <2>3. Lockstep => Lockstep'
    BY <1>1, <2>1 DEF Lockstep, At
  <2>4. QED
    BY <1>1, <1>2, <2>1, <2>2, <2>3 DEF Together
<1>11. QED
  BY <1>5, <1>6, <1>7, <1>8, <1>9, <1>10 DEF Regress

\* a step of the enclave's key, or one that makes it possible
LEMMA EnclaveTogether ==
  ASSUME KeyInv, Beginning, Together, SetCounter \/ SetSession \/ RegressEnclave
  PROVE  Together'
<1> USE DEF storageVars
<1>1. UNCHANGED storageVars /\ FirstLasts' = FirstLasts
  BY DEF SetCounter, SetSession, RegressEnclave, UpdateEnclaveKey, WakeRegression, FirstLasts
<1> SUFFICES ASSUME FirstLasts PROVE Together'
  BY <1>1 DEF Together
<1>2. /\ manager = "accept" <=> regression # "unborn"
      /\ updater # "crashed" /\ (updater \in {"poll", "test", "sleep"} => flag)
      /\ times >= 0 => KeysByCount /\ Lockstep
  BY DEF Together
<1>3. PICK t \in Int : t = times
  BY InFirst
<1>4. PICK c \in Nat : c = enclave.count
  BY InFirst
<1> USE Constants
<1>5. CASE SetCounter
  <2>1. regression = "unborn" /\ regression' = "unborn" /\ manager' # "accept"
    BY <1>2, <1>5 DEF SetCounter
  <2>2. KeysByCount => KeysByCount'
    BY <1>1, <2>1 DEF KeysByCount, Regressed
  <2>3. Lockstep => Lockstep'
    BY <1>1, <2>1 DEF Lockstep, At
  <2>4. QED
    BY <1>1, <1>2, <2>1, <2>2, <2>3 DEF Together
<1>6. CASE SetSession
  <2>1. /\ regression = "unborn" /\ regression' = "run" /\ manager' = "accept"
        /\ c = MaxTimes /\ enclave'.count = c
    BY <1>2, <1>4, <1>6 DEF SetSession, Beginning, KeyInv, Types, EnclaveTypes
  <2>2. KeysByCount => KeysByCount'
    BY <1>1, <2>1 DEF KeysByCount, Regressed
  <2>3. Lockstep => Lockstep'
    BY <1>1, <2>1 DEF Lockstep, At
  <2>4. QED
    BY <1>1, <1>2, <2>1, <2>2, <2>3 DEF Together
<1>7. CASE UpdateEnclaveKey
  <2>1. /\ regression = "run" /\ regression' = "sleep" /\ manager' = manager
        /\ regressionLeft' = Interval
    BY <1>7 DEF UpdateEnclaveKey, managerVars
  <2>2. enclave.sk = 1 /\ c \in 0 .. CountLimit - 1
    BY <1>2, <1>4, <2>1, InFirst DEF KeyInv, Types, EnclaveTypes
  <2>3. enclave'.key = <<1, c>> /\ enclave'.count = Pred(c)
    BY <1>4, <1>7, <2>2, Wraps DEF UpdateEnclaveKey, KeyInv, Types, EnclaveTypes
  <2>4. KeysByCount => KeysByCount'
    <3>1. enclave'.count < MaxTimes => enclave'.count + 1 = c
      BY <2>2, <2>3 DEF Pred
    <3>2. QED
      BY <1>1, <2>1, <2>3, <3>1 DEF KeysByCount, Regressed
  <2>5. ASSUME t >= 0, Lockstep PROVE Lockstep'
    <3>1. Pred(t + 1) = t
      BY <2>5 DEF Pred
    <3>2. \/ updater # "sleep" /\ c = t
          \/ updater = "sleep" /\ intervalLeft = 0 /\ c = t
          \/ updater = "sleep" /\ intervalLeft = Interval /\ c = t + 1
      BY <1>3, <1>4, <2>1, <2>5 DEF Lockstep, At
    <3>3. QED
      BY <1>1, <1>3, <2>1, <2>3, <3>1, <3>2 DEF Lockstep
  <2>6. QED
    BY <1>1, <1>2, <1>3, <2>1, <2>4, <2>5 DEF Together
<1>8. CASE WakeRegression
  <2>1. /\ regressionLeft = 0 /\ regression = "sleep" /\ regression' = "run"
        /\ UNCHANGED <<enclave, manager>>
    BY <1>8 DEF WakeRegression, managerVars
  <2>2. KeysByCount => KeysByCount'
    BY <1>1, <2>1 DEF KeysByCount, Regressed
  <2>3. Lockstep => Lockstep'
    BY <1>1, <2>1 DEF Lockstep, At
  <2>4. QED
    BY <1>1, <1>2, <2>1, <2>2, <2>3 DEF Together
<1>9. QED
  BY <1>5, <1>6, <1>7, <1>8 DEF RegressEnclave

LEMMA FirstAtRest ==
  ASSUME KeyInv, Together, FirstLasts, AtRest, times >= 0
  PROVE  /\ updater = "sleep" /\ regression = "sleep" /\ intervalLeft # 0 /\ regressionLeft # 0
         /\ intervalLeft = regressionLeft /\ enclave.count = times /\ KeysByCount
<1>1. updater = "sleep" /\ intervalLeft # 0
  BY InFirst DEF Together, AtRest, Quiet, StorageQuiet, Due, FirstLasts
<1>2. regression = "sleep" /\ regressionLeft # 0
  BY InFirst DEF Together, AtRest, Quiet, KeyServerQuiet, Due
<1>3. QED
  BY <1>1, <1>2 DEF Together, Lockstep

LEMMA TickTogether ==
  ASSUME KeyInv, Together, Tick
  PROVE  Together'
<1> USE DEF managerVars
<1>1. /\ UNCHANGED <<attester, flag, session, key, updater, hashed, times, manager, regression,
                     enclave>>
      /\ FirstLasts' = FirstLasts
      /\ intervalLeft' = Less(intervalLeft) /\ regressionLeft' = Less(regressionLeft)
  BY DEF Tick, FirstLasts
<1>2. KeysByCount => KeysByCount'
  BY <1>1 DEF KeysByCount, Regressed
<1>3. FirstLasts /\ times >= 0 => Lockstep'
  BY <1>1, FirstAtRest DEF Tick, Lockstep
<1>4. QED
  BY <1>1, <1>2, <1>3 DEF Together

LEMMA TogetherStep ==
  ASSUME KeyInv, Beginning, Together, [Next]_vars
  PROVE  Together'
<1> USE DEF storageVars, managerVars, enclaveVars, clientVars, connVars, lockVars
<1>1. CASE ProcessMsg3
  <2>1. SUFFICES ASSUME FirstLasts' PROVE Together'
    BY DEF Together
  <2>2. session' = attempts /\ attempts = 1 /\ flag' /\ attester = "msg3" /\ session = 0
    BY <1>1, <2>1 DEF ProcessMsg3, Refuse, FirstLasts, Beginning
  <2>3. Unbegun /\ manager = "msg4"
    BY <2>2, <1>1, Messages DEF Beginning, KeyInv, Phase, Done, Refused, ProcessMsg3
  <2>4. updater' = "poll" /\ times' = MaxTimes /\ regression' = "unborn" /\ manager' = "msg4"
    BY <1>1, <2>3 DEF ProcessMsg3, Unbegun
  <2>5. QED
    BY <2>1, <2>2, <2>4, Constants DEF Together, KeysByCount, Lockstep, At
<1>2. CASE AcceptKeyServer \/ ProcessMsg01 \/ Expire \/ ClearKey \/ AskAttestation
  <2>1. ~FirstLasts'
    BY <1>2 DEF AcceptKeyServer, ProcessMsg01, Refuse, Expire, ClearKey, AskAttestation, FirstLasts
  <2>2. QED
    BY <2>1 DEF Together
<1>3. CASE Regress
  BY <1>3, UpdaterTogether
<1>4. CASE Connect \/ ReceiveMsg2 \/ ReceiveMsg4 \/ AcceptRequest \/ Drained
  <2>1. UNCHANGED lockVars
    BY <1>4 DEF Connect, ReceiveMsg2, ReceiveMsg4, AcceptRequest, Drained
  <2>2. FirstLasts => ReceiveMsg4
    BY <1>4, InFirst DEF Connect, ReceiveMsg2, AcceptRequest, Drained
  <2>3. QED
    BY <2>1, <2>2, TogetherKept DEF ReceiveMsg4
<1>5. CASE SetCounter \/ SetSession \/ RegressEnclave
  BY <1>5, EnclaveTogether
<1>6. CASE ClientArrives \/ Leave \/ UNCHANGED vars
  BY <1>6, TogetherKept DEF ClientArrives, Leave, ClientLeaves, LoginFails, vars
<1>7. CASE Tick
  BY <1>7, TickTogether
<1>8. QED
  BY <1>1, <1>2, <1>3, <1>4, <1>5, <1>6, <1>7 DEF Next, Attest, Manage

LEMMA AgreeInit == Init => AgreeInv
<1>1. Init => Together
  BY DEF Init, Together, FirstLasts
<1>2. QED
  BY <1>1, KeyInit, BeginInit DEF AgreeInv

LEMMA AgreeStep == AgreeInv /\ [Next]_vars => AgreeInv'
BY KeyStep, BeginStep, TogetherStep DEF AgreeInv

(* As long as the first attestation lasts and the regressions are not used up, the storage server
   gives clients the key that the enclave has, whenever neither side has anything to do, for
   chains, intervals and lifespans of any length (dataSR.cpp:595-645, keyServer.cpp:180-218). *)
THEOREM FirstKeysAgree == Spec => []KeysAgree
<1>1. AgreeInv => KeysAgree
  <2> SUFFICES ASSUME AgreeInv, AtRest, FirstLasts, times >= 0 PROVE key = enclave.key
    BY DEF KeysAgree, FirstLasts
  <2>1. /\ updater = "sleep" /\ regression = "sleep" /\ enclave.count = times /\ KeysByCount
    BY FirstAtRest DEF AgreeInv
  <2>2. QED
    BY <2>1 DEF KeysByCount
<1>2. QED
  BY <1>1, AgreeInit, AgreeStep, PTL DEF Spec
=============================================================================
