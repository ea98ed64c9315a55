-------------------------- MODULE PowSessionProofs --------------------------
(***************************************************************************)
(* What holds of proof-of-ownership sessions for all processes, client IDs *)
(* and directories, whatever is killed, lost or refused and however the    *)
(* processes and the threads of the server interleave.                     *)
(***************************************************************************)
EXTENDS PowSession, TLAPS

PcValues == {"off", "load", "seal", "write", "refused"} \union Calls \union Ended

(* The types the proof needs: of the batches only that they are counted. *)
Types ==
    /\ setting \in Settings
    /\ pc \in [Process -> PcValues]
    /\ key \in [Process -> Process \union {None}]
    /\ sealed \in [Directory -> Process \union {None, Torn}]
    /\ link \in [Process -> {"none", "open", "lost"}]
    /\ request \in [Process -> Calls \union {None}]
    /\ reply \in [Process -> {"ok", "no", None}]
    /\ answered \in [Process -> Nat] /\ forwarded \in [Process -> Nat]
    /\ sessions \in [Client -> Process \union {None}]
    /\ trusted \subseteq Process /\ computing \subseteq Process
    /\ verifying \in [Process -> Process \union {None}]

(* A session is one of a process of its client ID. *)
OwnSessions == \A c \in Client : sessions[c] # None => Id[sessions[c]] = c

\* the calls up to the first batch, in which a process may still change its key
First == {"off", "load", "logout", "login", "msg01", "msg3", "sealed", "getsk"}

(* Before its first batch a process has asked for none, and none was answered. *)
Before(p) ==
    pc[p] \in First =>
        answered[p] = 0 /\ forwarded[p] = 0 /\ p \notin computing /\ request[p] # "hash"

(* A call is on its way, at the server or answered, and is the one the process waits in, as long
   as its connection is open; what was answered is ahead of what was forwarded then, by one when
   the process has not yet seen the answer. *)
Calling(p) ==
    /\ link[p] = "none" => pc[p] = "off"
    /\ pc[p] \in {"off", "load"} => request[p] = None /\ reply[p] = None
    /\ reply[p] # None => link[p] = "open" /\ request[p] = None /\ p \notin computing
    /\ p \in computing => request[p] = None
    /\ link[p] = "open" =>
          /\ request[p] # None => request[p] = pc[p]
          /\ p \in computing => pc[p] = "hash"
          /\ forwarded[p] <= answered[p]
          /\ pc[p] = "hash" /\ reply[p] = "ok" => forwarded[p] < answered[p]

(* The answered batches of p were under a key of an attestation of its client ID, and one that is
   verified is so with such a key. *)
Attested1(p) ==
    /\ answered[p] > 0 => key[p] \in Process /\ Id[key[p]] = Id[p]
    /\ p \in computing => verifying[p] \in Process /\ Id[verifying[p]] = Id[p]

Each(p) == Before(p) /\ Calling(p) /\ Attested1(p)

PowInv == Types /\ OwnSessions /\ \A p \in Process : Each(p)

-----------------------------------------------------------------------------
LEMMA Names ==
  /\ None \notin Process /\ None \notin Calls /\ None # "ok" /\ None # "no"
  /\ Torn \notin Process /\ Torn # None
  /\ \A s \in Settings : s.id \in [Process -> Client]
BY PowSessionAssumption

LEMMA IdStays == UNCHANGED setting => Id' = Id /\ Dir' = Dir /\ Directory' = Directory
BY DEF Id, Dir, Directory

LEMMA IdType == setting \in Settings => Id \in [Process -> Client]
BY Names DEF Id

LEMMA PowInit == Init => PowInv
<1> SUFFICES ASSUME Init PROVE PowInv
  OBVIOUS
<1>1. Types
  BY DEF Init, Types, PcValues, Directory
<1>2. OwnSessions
  BY DEF Init, OwnSessions
<1>3. ASSUME NEW p \in Process PROVE Each(p)
  BY Names DEF Init, Each, Before, Calling, Attested1, First, Calls
<1>4. QED
  BY <1>1, <1>2, <1>3 DEF PowInv

-----------------------------------------------------------------------------
(* What a step leaves of the processes it is not about *)

\* nothing that Each says of q is changed
Untouched(q) ==
    /\ pc'[q] = pc[q] /\ key'[q] = key[q] /\ link'[q] = link[q]
    /\ request'[q] = request[q] /\ reply'[q] = reply[q]
    /\ answered'[q] = answered[q] /\ forwarded'[q] = forwarded[q]
    /\ (q \in computing') = (q \in computing) /\ verifying'[q] = verifying[q]

LEMMA UntouchedKeeps ==
  ASSUME NEW q \in Process, Each(q), Untouched(q), Id' = Id
  PROVE  Each(q)'
BY DEF Each, Before, Calling, Attested1, Untouched

\* a step of p keeps the invariant if it keeps what is said of p, and touches nobody else
LEMMA StepKeeps ==
  ASSUME PowInv, NEW p \in Process, Types', OwnSessions', Each(p)', UNCHANGED setting,
         \A q \in Process : q # p => Untouched(q)
  PROVE  PowInv'
<1>1. ASSUME NEW q \in Process PROVE Each(q)'
  <2>1. CASE q = p
    BY <2>1
  <2>2. CASE q # p
    BY <2>2, IdStays, UntouchedKeeps DEF PowInv
  <2>3. QED BY <2>1, <2>2
<1>2. QED
  BY <1>1 DEF PowInv

-----------------------------------------------------------------------------
(* The steps of a client *)

LEMMA StartKeeps ==
  ASSUME PowInv, NEW p \in Process, Start(p)
  PROVE  PowInv'
<1> USE DEF clientVars, callVars, serverVars
<1>1. UNCHANGED setting /\ Directory' = Directory /\ Id' = Id
  BY IdStays DEF Start
<1>2. Types'
  BY <1>1 DEF PowInv, Types, Start, PcValues
<1>3. OwnSessions'
  BY <1>1 DEF PowInv, OwnSessions, Start
<1>4. Each(p)'
  BY <1>1 DEF PowInv, Types, Start, Each, Before, Calling, Attested1, First
<1>5. \A q \in Process : q # p => Untouched(q)
  BY DEF PowInv, Types, Start, Untouched
<1>6. QED
  BY <1>1, <1>2, <1>3, <1>4, <1>5, StepKeeps

LEMMA LoadKeeps ==
  ASSUME PowInv, NEW p \in Process, Load(p)
  PROVE  PowInv'
<1> USE DEF clientVars, callVars, serverVars
<1>1. UNCHANGED setting /\ Directory' = Directory /\ Id' = Id /\ Dir[p] \in Directory
  BY IdStays DEF Load, Directory
<1>2. \/ \E m \in {"logout", "sealed"} : Call(p, m)
      \/ pc' = [pc EXCEPT ![p] = "failed"] /\ request' = request
  BY DEF Load
<1>3. \/ key' = key
      \/ \E k \in Process : key' = [key EXCEPT ![p] = k]
  BY <1>1, Names DEF Load, PowInv, Types
<1>4. Types'
  <2>1. pc' \in [Process -> PcValues] /\ request' \in [Process -> Calls \union {None}]
    BY <1>2 DEF Call, PowInv, Types, PcValues, Calls, Ended
  <2>2. key' \in [Process -> Process \union {None}]
    BY <1>3 DEF PowInv, Types
  <2>3. QED
    BY <1>1, <2>1, <2>2 DEF PowInv, Types, Load
<1>5. OwnSessions'
  BY <1>1 DEF PowInv, OwnSessions, Load
<1>6. Each(p)'
  <2>1. pc[p] = "load" /\ answered[p] = 0 /\ forwarded[p] = 0 /\ p \notin computing
        /\ request[p] = None /\ reply[p] = None /\ link[p] # "none"
    BY DEF PowInv, Load, Each, Before, Calling, First
  <2>2. /\ answered'[p] = 0 /\ forwarded'[p] = 0 /\ p \notin computing'
        /\ reply'[p] = None /\ link'[p] = link[p]
    BY <2>1 DEF Load
  <2>3. \/ pc'[p] \in {"logout", "sealed"} /\ request'[p] \in {pc'[p], None}
        \/ pc'[p] = "failed" /\ request'[p] = None
    BY <1>2, <2>1 DEF Call, PowInv, Types
  <2>4. QED
    BY <2>1, <2>2, <2>3, Names DEF Each, Before, Calling, Attested1, First, Calls
<1>7. \A q \in Process : q # p => Untouched(q)
  <2>1. \A q \in Process : q # p => pc'[q] = pc[q] /\ request'[q] = request[q]
    BY <1>2 DEF Call, PowInv, Types
  <2>2. \A q \in Process : q # p => key'[q] = key[q]
    BY <1>3 DEF PowInv, Types
  <2>3. QED
    BY <2>1, <2>2 DEF Load, Untouched
<1>8. QED
  BY <1>1, <1>4, <1>5, <1>6, <1>7, StepKeeps

(* What a reply leads to, other than one to a batch: the next call, or the end. *)
NextCall(p) ==
    /\ pc[p] \in First
    /\ \E m \in {"login", "msg01", "msg3", "getsk", "hash"} : Call(p, m)
    /\ key' \in {key, [key EXCEPT ![p] = p]}

EndsHere(p) ==
    /\ \E to \in {"failed", "seal", "done", "refused"} : pc' = [pc EXCEPT ![p] = to]
    /\ UNCHANGED <<key, request>>

LEMMA AfterCallGoes ==
  ASSUME NEW p \in Process, NEW ok \in BOOLEAN, pc[p] \in Calls, pc[p] # "hash", AfterCall(p, ok)
  PROVE  forwarded' = forwarded /\ (NextCall(p) \/ EndsHere(p))
<1>1. forwarded' = forwarded
  BY DEF AfterCall
<1>2. CASE AfterLogin(p)
  BY <1>1, <1>2 DEF AfterLogin, NextCall, First
<1>3. CASE DoAttestation(p, ok)
  BY <1>1, <1>3 DEF DoAttestation, SetSessionKey, NextCall, EndsHere, First
<1>4. CASE pc[p] = "getsk" /\ ok /\ Call(p, "hash") /\ UNCHANGED key
  BY <1>1, <1>4 DEF NextCall, First
<1>5. CASE pc[p] \in {"getsk", "exit"} /\ Leave(p) /\ UNCHANGED key
  BY <1>1, <1>5 DEF Leave, EndsHere
<1>6. QED
  BY <1>1, <1>2, <1>3, <1>4, <1>5 DEF AfterCall

\* what the end of a call leaves alone, and that it takes the reply
Taken(p) ==
    /\ UNCHANGED <<sealed, link, answered, serverVars>>
    /\ reply' = [reply EXCEPT ![p] = None]
    /\ pc[p] \in Calls
    /\ link[p] = "open" => reply[p] # None

LEMMA NextCallKeeps ==
  ASSUME PowInv, NEW p \in Process, Taken(p), NextCall(p), forwarded' = forwarded
  PROVE  PowInv'
<1> USE DEF Taken, serverVars
<1>1. UNCHANGED setting /\ Directory' = Directory /\ Id' = Id
  BY IdStays
<1>2. PICK m \in {"login", "msg01", "msg3", "getsk", "hash"} : Call(p, m)
  BY DEF NextCall
<1>3. Types'
  <2>1. pc' \in [Process -> PcValues] /\ request' \in [Process -> Calls \union {None}]
    BY <1>2 DEF Call, PowInv, Types, PcValues, Calls
  <2>2. key' \in [Process -> Process \union {None}]
    BY DEF NextCall, PowInv, Types
  <2>3. QED
    BY <1>1, <2>1, <2>2 DEF PowInv, Types
<1>4. OwnSessions'
  BY <1>1 DEF PowInv, OwnSessions
<1>5. Each(p)'
  <2>1. answered[p] = 0 /\ forwarded[p] = 0 /\ p \notin computing /\ link[p] # "none"
    BY DEF PowInv, NextCall, Each, Before, Calling, First, Calls
  <2>2. answered'[p] = 0 /\ forwarded'[p] = 0 /\ p \notin computing' /\ link'[p] = link[p]
    BY <2>1
  <2>3. pc'[p] = m /\ request'[p] = (IF link[p] = "open" THEN m ELSE None) /\ reply'[p] = None
    BY <1>2 DEF Call, PowInv, Types
  <2>4. QED
    BY <2>1, <2>2, <2>3, Names DEF Each, Before, Calling, Attested1, First, Calls
<1>6. \A q \in Process : q # p => Untouched(q)
  BY <1>2 DEF Call, NextCall, PowInv, Types, Untouched
<1>7. QED
  BY <1>1, <1>3, <1>4, <1>5, <1>6, StepKeeps

LEMMA EndsHereKeeps ==
  ASSUME PowInv, NEW p \in Process, Taken(p), EndsHere(p), forwarded' = forwarded
  PROVE  PowInv'
<1> USE DEF Taken, serverVars
<1>1. UNCHANGED setting /\ Directory' = Directory /\ Id' = Id
  BY IdStays
<1>2. PICK to \in {"failed", "seal", "done", "refused"} : pc' = [pc EXCEPT ![p] = to]
  BY DEF EndsHere
<1>3. Types'
  <2>1. pc' \in [Process -> PcValues]
    BY <1>2 DEF PowInv, Types, PcValues, Ended
  <2>2. QED
    BY <1>1, <2>1 DEF PowInv, Types, EndsHere
<1>4. OwnSessions'
  BY <1>1 DEF PowInv, OwnSessions
<1>5. Each(p)'
  <2>1. pc'[p] = to /\ reply'[p] = None /\ UNCHANGED <<key, request, computing, link>>
    BY <1>2 DEF PowInv, Types, EndsHere
  <2>2. link[p] # "none"
    BY DEF PowInv, Each, Calling, Calls
  <2>3. link[p] = "open" => request[p] = None /\ p \notin computing
    BY DEF PowInv, Each, Calling
  <2>4. QED
    BY <1>1, <2>1, <2>2, <2>3 DEF PowInv, Each, Before, Calling, Attested1, First
<1>6. \A q \in Process : q # p => Untouched(q)
  BY <1>2 DEF EndsHere, PowInv, Types, Untouched
<1>7. QED
  BY <1>1, <1>3, <1>4, <1>5, <1>6, StepKeeps

LEMMA ForwardKeeps ==
  ASSUME PowInv, NEW p \in Process, Taken(p), pc[p] = "hash", UNCHANGED key, ForwardBatch(p),
         link[p] = "open" => reply[p] = "ok"
  PROVE  PowInv'
<1> USE DEF Taken, serverVars
<1>1. UNCHANGED setting /\ Directory' = Directory /\ Id' = Id
  BY IdStays
<1>2. PICK m \in {"hash", "exit"} : Call(p, m)
  BY DEF ForwardBatch
<1>3. Types'
  <2>1. pc' \in [Process -> PcValues] /\ request' \in [Process -> Calls \union {None}]
    BY <1>2 DEF Call, PowInv, Types, PcValues, Calls
  <2>2. forwarded' \in [Process -> Nat]
    BY DEF ForwardBatch, PowInv, Types
  <2>3. QED
    BY <1>1, <2>1, <2>2 DEF PowInv, Types
<1>4. OwnSessions'
  BY <1>1 DEF PowInv, OwnSessions
<1>5. Each(p)'
  <2>1. link[p] # "none" /\ answered[p] \in Nat /\ forwarded[p] \in Nat
    BY DEF PowInv, Types, Each, Calling
  <2>2. link[p] = "open" => p \notin computing /\ forwarded[p] < answered[p]
    BY Names DEF PowInv, Each, Calling
  <2>3. /\ pc'[p] = m /\ request'[p] = (IF link[p] = "open" THEN m ELSE None)
        /\ reply'[p] = None /\ forwarded'[p] = forwarded[p] + 1
    BY <1>2 DEF Call, ForwardBatch, PowInv, Types
  <2>4. QED
    BY <1>1, <2>1, <2>2, <2>3, Names
       DEF PowInv, Each, Before, Calling, Attested1, First, Calls
<1>6. \A q \in Process : q # p => Untouched(q)
  BY <1>2 DEF Call, ForwardBatch, PowInv, Types, Untouched
<1>7. QED
  BY <1>1, <1>3, <1>4, <1>5, <1>6, StepKeeps

LEMMA ReceiveKeeps ==
  ASSUME PowInv, NEW p \in Process, Receive(p)
  PROVE  PowInv'
<1>1. Taken(p)
  BY DEF Receive, Taken
<1>2. CASE pc[p] = "hash" /\ reply[p] = "ok"
  BY <1>1, <1>2, ForwardKeeps DEF Receive
<1>3. CASE pc[p] = "hash" /\ reply[p] # "ok"
  BY <1>1, <1>3, EndsHereKeeps DEF Receive, RefuseBatch, EndsHere
<1>4. CASE pc[p] # "hash"
  BY <1>1, <1>4, AfterCallGoes, NextCallKeeps, EndsHereKeeps DEF Receive
<1>5. QED
  BY <1>2, <1>3, <1>4

LEMMA ReceiveFailsKeeps ==
  ASSUME PowInv, NEW p \in Process, ReceiveFails(p)
  PROVE  PowInv'
<1>1. reply' = [reply EXCEPT ![p] = None]
  BY DEF ReceiveFails, PowInv, Types
<1>2. Taken(p) /\ link[p] = "lost"
  BY <1>1 DEF ReceiveFails, Taken
<1>3. CASE pc[p] = "hash" /\ ForwardBatch(p)
  BY <1>2, <1>3, ForwardKeeps DEF ReceiveFails
<1>4. CASE pc[p] = "hash" /\ RefuseBatch(p)
  BY <1>2, <1>4, EndsHereKeeps DEF ReceiveFails, RefuseBatch, EndsHere
<1>5. CASE pc[p] # "hash"
  BY <1>2, <1>5, AfterCallGoes, NextCallKeeps, EndsHereKeeps DEF ReceiveFails
<1>6. QED
  BY <1>3, <1>4, <1>5 DEF ReceiveFails

LEMMA SealKeeps ==
  ASSUME PowInv, NEW p \in Process, LeaveRefused(p) \/ Seal(p) \/ WriteSealed(p)
  PROVE  PowInv'
<1> USE DEF callVars, serverVars
<1>1. /\ UNCHANGED <<key, link, request, reply, forwarded, answered, setting, sessions,
                     trusted, computing, verifying>>
      /\ Directory' = Directory /\ Id' = Id /\ Dir[p] \in Directory
  BY IdStays DEF LeaveRefused, Leave, Seal, WriteSealed, Directory
<1>2. PICK to \in {"seal", "write", "done"} :
          pc' = [pc EXCEPT ![p] = to] /\ pc[p] \in {"refused", "seal", "write"}
  BY DEF LeaveRefused, Leave, Seal, WriteSealed
<1>3. Types'
  <2>1. pc' \in [Process -> PcValues]
    BY <1>2 DEF PowInv, Types, PcValues, Ended
  <2>2. sealed' \in [Directory -> Process \union {None, Torn}]
    BY <1>1 DEF LeaveRefused, Seal, WriteSealed, PowInv, Types
  <2>3. QED
    BY <1>1, <2>1, <2>2 DEF PowInv, Types
<1>4. OwnSessions'
  BY <1>1 DEF PowInv, OwnSessions
<1>5. Each(p)'
  <2>1. pc'[p] = to
    BY <1>2 DEF PowInv, Types
  <2>2. QED
    BY <1>1, <1>2, <2>1, Names DEF PowInv, Types, Each, Before, Calling, Attested1, First, Calls
<1>6. \A q \in Process : q # p => Untouched(q)
  BY <1>1, <1>2 DEF PowInv, Types, Untouched
<1>7. QED
  BY <1>1, <1>3, <1>4, <1>5, <1>6, StepKeeps

LEMMA LossKeeps ==
  ASSUME PowInv, NEW p \in Process, Kill(p) \/ LoseLink(p)
  PROVE  PowInv'
<1> USE DEF clientVars, serverVars
<1>1. /\ UNCHANGED <<key, sealed, forwarded, answered, setting, sessions, trusted,
                     computing, verifying>>
      /\ Directory' = Directory /\ Id' = Id
  BY IdStays DEF Kill, LoseLink
<1>2. /\ pc' \in {pc, [pc EXCEPT ![p] = "killed"]} /\ link' = [link EXCEPT ![p] = "lost"]
      /\ request' \in {request, [request EXCEPT ![p] = None]}
      /\ reply' = [reply EXCEPT ![p] = None] /\ pc[p] # "off"
  BY DEF Kill, LoseLink, Running
<1>3. Types'
  <2>1. pc' \in [Process -> PcValues]
    BY <1>2 DEF PowInv, Types, PcValues, Ended
  <2>2. request' \in [Process -> Calls \union {None}] /\ reply' \in [Process -> {"ok", "no", None}]
    BY <1>2 DEF PowInv, Types
  <2>3. link' \in [Process -> {"none", "open", "lost"}]
    BY <1>2 DEF PowInv, Types
  <2>4. QED
    BY <1>1, <2>1, <2>2, <2>3 DEF PowInv, Types
<1>4. OwnSessions'
  BY <1>1 DEF PowInv, OwnSessions
<1>5. Each(p)'
  <2>1. /\ pc'[p] \in {pc[p], "killed"} /\ link'[p] = "lost" /\ reply'[p] = None
        /\ request'[p] \in {request[p], None}
    BY <1>2 DEF PowInv, Types
  <2>2. QED
    BY <1>1, <1>2, <2>1, Names DEF PowInv, Each, Before, Calling, Attested1, First, Calls
<1>6. \A q \in Process : q # p => Untouched(q)
  BY <1>1, <1>2 DEF PowInv, Types, Untouched
<1>7. QED
  BY <1>1, <1>3, <1>4, <1>5, <1>6, StepKeeps

-----------------------------------------------------------------------------
(* The steps of the server *)

\* whatever is answered to a call other than a batch, and whatever becomes of the sessions of
\* this client ID
LEMMA AnswerKeeps ==
  ASSUME PowInv, NEW p \in Process, NEW r \in {"ok", "no"}, Answer(p, r),
         request[p] \in Calls, request[p] # "hash", UNCHANGED answered,
         sessions' \in {sessions, [sessions EXCEPT ![Id[p]] = None],
                        [sessions EXCEPT ![Id[p]] = p]},
         trusted' \in {trusted, trusted \union {p}}
  PROVE  PowInv'
<1> USE DEF clientVars
<1>1. /\ UNCHANGED <<pc, key, sealed, forwarded, link, answered, setting, computing, verifying>>
      /\ Directory' = Directory /\ Id' = Id
  BY IdStays DEF Answer
<1>2. /\ request' = [request EXCEPT ![p] = None]
      /\ reply' = [reply EXCEPT ![p] = IF link[p] = "open" THEN r ELSE None]
  BY DEF Answer
<1>3. Id \in [Process -> Client]
  BY IdType DEF PowInv, Types
<1>4. Types'
  <2>1. request' \in [Process -> Calls \union {None}] /\ reply' \in [Process -> {"ok", "no", None}]
    BY <1>2 DEF PowInv, Types
  <2>2. sessions' \in [Client -> Process \union {None}]
    BY <1>3 DEF PowInv, Types
  <2>3. QED
    BY <1>1, <2>1, <2>2 DEF PowInv, Types
<1>5. OwnSessions'
  BY <1>1, <1>3, Names DEF PowInv, Types, OwnSessions
<1>6. Each(p)'
  <2>1. request'[p] = None /\ reply'[p] = (IF link[p] = "open" THEN r ELSE None)
    BY <1>2 DEF PowInv, Types
  <2>2. p \notin computing /\ (link[p] = "open" => pc[p] # "hash")
    BY Names DEF PowInv, Each, Calling, Calls
  <2>3. pc[p] \notin {"off", "load"}
    BY Names DEF PowInv, Each, Calling
  <2>4. QED
    BY <1>1, <2>1, <2>2, <2>3, Names DEF PowInv, Each, Before, Calling, Attested1, First, Calls
<1>7. \A q \in Process : q # p => Untouched(q)
  BY <1>1, <1>2 DEF PowInv, Types, Untouched
<1>8. QED
  BY <1>1, <1>4, <1>5, <1>6, <1>7, StepKeeps

LEMMA AnswersKeep ==
  ASSUME PowInv, NEW p \in Process,
         LogIn(p) \/ LogOut(p) \/ GetKey(p) \/ LogInSealed(p) \/ ProcessMsg01(p) \/ ProcessMsg3(p)
  PROVE  PowInv'
<1> USE DEF Asked, Calls
<1>0. Id \in [Process -> Client] /\ sessions \in [Client -> Process \union {None}]
  BY IdType DEF PowInv, Types
<1>1. CASE LogIn(p)
  BY <1>1, AnswerKeeps DEF LogIn
<1>2. CASE LogOut(p)
  BY <1>2, AnswerKeeps DEF LogOut
<1>3. CASE GetKey(p)
  BY <1>3, AnswerKeeps DEF GetKey
<1>4. CASE LogInSealed(p)
  BY <1>4, AnswerKeeps DEF LogInSealed
<1>5. CASE ProcessMsg01(p)
  <2>1. sessions' \in {sessions, [sessions EXCEPT ![Id[p]] = p]}
    BY <1>0, <1>5 DEF ProcessMsg01
  <2>2. QED BY <1>5, <2>1, AnswerKeeps DEF ProcessMsg01
<1>6. CASE ProcessMsg3(p)
  BY <1>6, AnswerKeeps DEF ProcessMsg3
<1>7. QED
  BY <1>1, <1>2, <1>3, <1>4, <1>5, <1>6

LEMMA BatchKeeps ==
  ASSUME PowInv, NEW p \in Process, HashUntrusted(p) \/ VerifyBegin(p)
  PROVE  PowInv'
<1> USE DEF clientVars, serverVars
<1>1. /\ UNCHANGED <<pc, key, sealed, forwarded, link, reply, answered, setting, sessions,
                     trusted>>
      /\ Directory' = Directory /\ Id' = Id
      /\ request[p] = "hash" /\ request' = [request EXCEPT ![p] = None]
  BY IdStays DEF HashUntrusted, VerifyBegin, Asked
<1>2. \/ UNCHANGED <<computing, verifying>>
      \/ /\ sessions[Id[p]] # None /\ computing' = computing \union {p}
         /\ verifying' = [verifying EXCEPT ![p] = sessions[Id[p]]]
  BY DEF HashUntrusted, VerifyBegin
<1>3. Id[p] \in Client /\ sessions[Id[p]] \in Process \union {None}
  BY IdType DEF PowInv, Types
<1>4. Types'
  <2>1. request' \in [Process -> Calls \union {None}] /\ computing' \subseteq Process
    BY <1>1, <1>2 DEF PowInv, Types
  <2>2. verifying' \in [Process -> Process \union {None}]
    BY <1>2, <1>3 DEF PowInv, Types
  <2>3. QED
    BY <1>1, <2>1, <2>2 DEF PowInv, Types
<1>5. OwnSessions'
  BY <1>1 DEF PowInv, OwnSessions
<1>6. Each(p)'
  <2>1. request'[p] = None
    BY <1>1 DEF PowInv, Types
  <2>2. pc[p] \notin First /\ reply[p] = None
    BY <1>1, Names DEF PowInv, Each, Before, Calling, Calls
  <2>3. p \in computing' => verifying'[p] \in Process /\ Id[verifying'[p]] = Id[p]
    BY <1>2, <1>3 DEF PowInv, Types, OwnSessions, Each, Attested1
  <2>4. QED
    BY <1>1, <1>2, <2>1, <2>2, <2>3, Names
       DEF PowInv, Each, Before, Calling, Attested1, First, Calls
<1>7. \A q \in Process : q # p => Untouched(q)
  BY <1>1, <1>2 DEF PowInv, Types, Untouched
<1>8. QED
  BY <1>1, <1>4, <1>5, <1>6, <1>7, StepKeeps

LEMMA VerifyEndKeeps ==
  ASSUME PowInv, NEW p \in Process, VerifyEnd(p)
  PROVE  PowInv'
<1> USE DEF clientVars
<1>1. /\ UNCHANGED <<pc, key, sealed, forwarded, link, request, setting, sessions,
                     trusted>>
      /\ Directory' = Directory /\ Id' = Id
      /\ p \in computing /\ computing' = computing \ {p}
      /\ verifying' = [verifying EXCEPT ![p] = None]
  BY IdStays DEF VerifyEnd
<1>2. PICK ok \in {RightMac(p)} \union (IF p \in clashed THEN {FALSE} ELSE {}) :
          /\ reply' = [reply EXCEPT ![p] = IF link[p] # "open" THEN None
                                           ELSE IF ok THEN "ok" ELSE "no"]
          /\ answered' = [answered EXCEPT ![p] = IF ok THEN @ + 1 ELSE @]
  BY DEF VerifyEnd
<1>3. Types'
  <2>1. reply' \in [Process -> {"ok", "no", None}] /\ answered' \in [Process -> Nat]
    BY <1>2 DEF PowInv, Types
  <2>2. QED
    BY <1>1, <2>1 DEF PowInv, Types
<1>4. OwnSessions'
  BY <1>1 DEF PowInv, OwnSessions
<1>5. Each(p)'
  <2>1. /\ reply'[p] = (IF link[p] # "open" THEN None ELSE IF ok THEN "ok" ELSE "no")
        /\ answered'[p] = (IF ok THEN answered[p] + 1 ELSE answered[p])
        /\ answered[p] \in Nat /\ forwarded[p] \in Nat
    BY <1>2 DEF PowInv, Types
  <2>2. request[p] = None /\ pc[p] \notin First
    BY <1>1 DEF PowInv, Each, Before, Calling
  <2>3. ok => key[p] \in Process /\ Id[key[p]] = Id[p]
    <3>1. SUFFICES ASSUME RightMac(p) PROVE key[p] \in Process /\ Id[key[p]] = Id[p]
      BY <1>2
    <3>2. key[p] = verifying[p]
      BY <3>1 DEF RightMac, Mac
    <3>3. QED
      BY <1>1, <3>2 DEF PowInv, Each, Attested1
  <2>4. QED
    BY <1>1, <2>1, <2>2, <2>3 DEF PowInv, Each, Before, Calling, Attested1, First
<1>6. \A q \in Process : q # p => Untouched(q)
  BY <1>1, <1>2 DEF PowInv, Types, Untouched
<1>7. QED
  BY <1>1, <1>3, <1>4, <1>5, <1>6, StepKeeps

LEMMA DieKeeps ==
  ASSUME PowInv, Die
  PROVE  PowInv'
<1> USE DEF clientVars
<1>1. /\ UNCHANGED <<pc, key, sealed, forwarded, answered, setting>> /\ trusted' = {}
      /\ Directory' = Directory /\ Id' = Id
  BY IdStays DEF Die
<1>2. Types'
  BY <1>1 DEF PowInv, Types, Die
<1>3. OwnSessions'
  BY <1>1 DEF PowInv, OwnSessions, Die
<1>4. ASSUME NEW q \in Process PROVE Each(q)'
  <2>1. /\ request'[q] = None /\ reply'[q] = None /\ q \notin computing' /\ link'[q] # "open"
        /\ link'[q] = "none" => link[q] = "none"
    BY DEF Die, PowInv, Types
  <2>2. QED
    BY <1>1, <2>1, Names DEF PowInv, Each, Before, Calling, Attested1, Calls
<1>5. QED
  BY <1>2, <1>3, <1>4 DEF PowInv

LEMMA StandsStill ==
  ASSUME PowInv, UNCHANGED <<setting, clientVars, callVars, answered, sessions, trusted,
                           computing, verifying>>
  PROVE  PowInv'
<1> USE DEF clientVars, callVars
<1>1. Id' = Id /\ Directory' = Directory
  BY IdStays
<1>2. QED
  BY <1>1 DEF PowInv, Types, OwnSessions, Each, Before, Calling, Attested1

-----------------------------------------------------------------------------
LEMMA PowStep == PowInv /\ [Next]_vars => PowInv'
<1> SUFFICES ASSUME PowInv, [Next]_vars PROVE PowInv'
  OBVIOUS
<1>1. ASSUME NEW p \in Process,
             \/ Start(p) \/ ClientStep(p) \/ ThreadStep(p)
             \/ LeaveRefused(p) \/ Kill(p) \/ LoseLink(p)
      PROVE  PowInv'
  <2>1. CASE Start(p)
    BY <2>1, StartKeeps
  <2>2. CASE ClientStep(p)
    BY <2>2, LoadKeeps, ReceiveKeeps, ReceiveFailsKeeps, SealKeeps DEF ClientStep
  <2>3. CASE ThreadStep(p)
    BY <2>3, AnswersKeep, BatchKeeps, VerifyEndKeeps, DieKeeps DEF ThreadStep, HashThrows
  <2>4. CASE Kill(p) \/ LoseLink(p)
    BY <2>4, LossKeeps
  <2>5. CASE LeaveRefused(p)
    BY <2>5, SealKeeps
  <2>6. QED
    BY <1>1, <2>1, <2>2, <2>3, <2>4, <2>5
<1>2. CASE Stop
  BY <1>2, DieKeeps DEF Stop
<1>3. CASE StartServer
  BY <1>3, StandsStill DEF StartServer
<1>4. CASE UNCHANGED vars
  BY <1>4, StandsStill DEF vars, serverVars
<1>5. QED
  BY <1>1, <1>2, <1>3, <1>4 DEF Next

(* Every batch the server has answered was under a key of an attestation of the client's own ID,
   however many processes share IDs and directories, and whatever is killed, lost, refused or
   started again (powServer.cpp:320-338, dataSR.cpp:517-560). *)
THEOREM AnswersAttested == Spec => []AnsweredAttested
<1>1. PowInv => AnsweredAttested
  BY DEF PowInv, Each, Attested1, AnsweredAttested
<1>2. QED
  BY <1>1, PowInit, PowStep, PTL DEF Spec

(* No batch goes on to the sender that the server has not answered, unless the connection is lost
   (powClient.cpp:131-170). *)
THEOREM ForwardsAnswered == Spec => []ForwardedAnswered
<1>1. PowInv => ForwardedAnswered
  <2> SUFFICES ASSUME PowInv, NEW p \in Process
               PROVE  forwarded[p] <= answered[p] \/ link[p] = "lost"
    BY DEF ForwardedAnswered
  <2>1. CASE link[p] = "none"
    BY <2>1 DEF PowInv, Types, Each, Before, Calling, First
  <2>2. CASE link[p] = "open"
    BY <2>2 DEF PowInv, Each, Calling
  <2>3. QED
    BY <2>1, <2>2 DEF PowInv, Types
<1>2. QED
  BY <1>1, PowInit, PowStep, PTL DEF Spec

-----------------------------------------------------------------------------
(* The sessions of clients that keep to their directories: what is sealed, what the server has,
   and what the process under way knows. *)

\* the server has not started again, nor has it ended
Unbroken == up /\ restarts = 0

(* The processes of a directory are under way one after the other. *)
OneByOne == \A p, q \in Process : p # q /\ Dir[p] = Dir[q] => AtRest(p) \/ AtRest(q)

(* The server has k in the trusted session of p's client; a server that has started again may have
   lost it. *)
Has(p, k) == sessions[Id[p]] = k /\ k \in trusted
MayHave(p, k) == Has(p, k) \/ (~Unbroken /\ sessions[Id[p]] = None)

\* the attestation; only without a sealed key is one made
Attesting == {"logout", "login", "msg01", "msg3"}

(* A sealed key is the server's, and no process on the way attests itself then. *)
SealedKey(p) ==
    /\ sealed[Dir[p]] \in Process => MayHave(p, sealed[Dir[p]])
    /\ pc[p] \in Attesting \/ request[p] \in {"logout", "msg01"} => sealed[Dir[p]] = None
    /\ request[p] \in {"logout", "msg01"} => pc[p] \in {"logout", "msg01", "killed", "failed"}

\* once it has a key
Knowing == {"sealed", "getsk", "hash", "refused", "exit", "seal", "write"}

(* The key of a process that has it from its attestation or its directory is the server's. *)
KeyOf(p) ==
    /\ pc[p] = "msg3" /\ reply[p] = "ok" => Has(p, p)
    /\ pc[p] \in Knowing /\ key[p] = p => MayHave(p, p)
    /\ link[p] = "open" /\ pc[p] \in {"sealed", "getsk", "hash"} => MayHave(p, key[p])
    /\ link[p] = "open" /\ p \in computing => Has(p, key[p]) /\ verifying[p] = key[p]
    /\ pc[p] \in {"seal", "write"} => key[p] = p
    /\ request[p] = "hash" /\ Unbroken => sessions[Id[p]] # None

Own(p) == SealedKey(p) /\ KeyOf(p)

(* A client that is alone shares the context of the MACs with nobody. *)
Undisturbed ==
    /\ clashed = {}
    /\ \A p \in Process :
          /\ pc[p] = "hash" /\ reply[p] # None => reply[p] = "ok"
          /\ pc[p] = "refused" => link[p] = "lost"

OwnInv ==
    /\ PowInv /\ restarts \in Nat
    /\ OwnDirectory => OneByOne /\ \A p \in Process : Own(p)
    /\ Alone => Undisturbed

-----------------------------------------------------------------------------
LEMMA NamesStay == UNCHANGED setting => Id' = Id /\ Dir' = Dir /\ OwnDirectory' = OwnDirectory
                                        /\ Alone' = Alone
BY DEF Id, Dir, OwnDirectory, Alone

\* a step of one process, or of its thread, but for those that end or start the server
StepOf(p) ==
    \/ Start(p) \/ ClientStep(p) \/ LeaveRefused(p) \/ Kill(p) \/ LoseLink(p)
    \/ LogIn(p) \/ LogOut(p) \/ GetKey(p) \/ LogInSealed(p) \/ ProcessMsg01(p) \/ ProcessMsg3(p)
    \/ HashUntrusted(p) \/ VerifyBegin(p) \/ VerifyEnd(p)

LEMMA ReceiveGoes ==
  ASSUME PowInv, NEW p \in Process, Receive(p) \/ ReceiveFails(p)
  PROVE  /\ UNCHANGED <<sealed, link, answered, serverVars>>
         /\ reply' = [reply EXCEPT ![p] = None]
         /\ \E m \in PcValues : pc' = [pc EXCEPT ![p] = m]
         /\ request' \in {request} \union {[request EXCEPT ![p] = m] : m \in Calls \union {None}}
         /\ key' \in {key, [key EXCEPT ![p] = p]}
         /\ \E n \in Nat : forwarded' = [forwarded EXCEPT ![p] = n]
<1>1. /\ UNCHANGED <<sealed, link, answered, serverVars>>
      /\ reply' = [reply EXCEPT ![p] = None] /\ pc[p] \in Calls
  BY DEF Receive, ReceiveFails, PowInv, Types
<1>2. forwarded = [forwarded EXCEPT ![p] = forwarded[p]] /\ forwarded[p] \in Nat
  BY DEF PowInv, Types
<1>3. CASE ForwardBatch(p) /\ UNCHANGED key
  <2>1. PICK m \in {"hash", "exit"} : Call(p, m)
    BY <1>3 DEF ForwardBatch
  <2>2. m \in PcValues /\ m \in Calls
    BY DEF PcValues, Calls
  <2>3. forwarded' = [forwarded EXCEPT ![p] = forwarded[p] + 1] /\ forwarded[p] + 1 \in Nat
    BY <1>2, <1>3 DEF ForwardBatch
  <2>4. /\ \E l \in PcValues : pc' = [pc EXCEPT ![p] = l]
        /\ request' \in {[request EXCEPT ![p] = l] : l \in Calls \union {None}}
    BY <2>1, <2>2 DEF Call
  <2>5. QED
    BY <1>1, <1>3, <2>3, <2>4
<1>4. CASE RefuseBatch(p) /\ UNCHANGED key
  BY <1>1, <1>2, <1>4 DEF RefuseBatch, PcValues
<1>5. CASE \E ok \in BOOLEAN : pc[p] # "hash" /\ AfterCall(p, ok)
  <2>1. forwarded' = forwarded /\ (NextCall(p) \/ EndsHere(p))
    BY <1>1, <1>5, AfterCallGoes
  <2>2. CASE NextCall(p)
    BY <1>1, <1>2, <2>1, <2>2 DEF NextCall, Call, PcValues, Calls
  <2>3. CASE EndsHere(p)
    BY <1>1, <1>2, <2>1, <2>3 DEF EndsHere, PcValues, Ended
  <2>4. QED BY <2>1, <2>2, <2>3
<1>6. QED
  BY <1>3, <1>4, <1>5 DEF Receive, ReceiveFails

LEMMA Apart ==
  ASSUME PowInv, NEW p \in Process, StepOf(p), NEW q \in Process, q # p
  PROVE  Untouched(q)
<1> USE DEF PowInv, Types, Untouched, clientVars, callVars, serverVars
<1>1. CASE \/ Start(p) \/ Load(p) \/ LeaveRefused(p) \/ Seal(p) \/ WriteSealed(p)
           \/ Kill(p) \/ LoseLink(p)
  BY <1>1 DEF Start, Load, Call, LeaveRefused, Leave, Seal, WriteSealed, Kill, LoseLink
<1>2. CASE Receive(p) \/ ReceiveFails(p)
  BY <1>2, ReceiveGoes
<1>3. CASE LogIn(p) \/ LogOut(p) \/ GetKey(p) \/ LogInSealed(p) \/ ProcessMsg01(p)
           \/ ProcessMsg3(p)
  BY <1>3 DEF LogIn, LogOut, GetKey, LogInSealed, ProcessMsg01, ProcessMsg3, Answer
<1>4. CASE HashUntrusted(p) \/ VerifyBegin(p)
  BY <1>4 DEF HashUntrusted, VerifyBegin
<1>5. CASE VerifyEnd(p)
  <2>1. PICK r, n : reply' = [reply EXCEPT ![p] = r] /\ answered' = [answered EXCEPT ![p] = n]
    BY <1>5 DEF VerifyEnd
  <2>2. QED
    BY <1>5, <2>1 DEF VerifyEnd
<1>6. QED
  BY <1>1, <1>2, <1>3, <1>4, <1>5 DEF StepOf, ClientStep

\* only the client ID and the directory of p are affected
LEMMA Around ==
  ASSUME PowInv, NEW p \in Process, StepOf(p)
  PROVE  /\ UNCHANGED <<setting, up, restarts>> /\ trusted \subseteq trusted'
         /\ \A c \in Client : c # Id[p] => sessions'[c] = sessions[c]
         /\ \A d \in Directory : d # Dir[p] => sealed'[d] = sealed[d]
         /\ ~AtRest(p) \/ Start(p)
<1> USE DEF clientVars, callVars, serverVars
<1>0. Id[p] \in Client
  BY IdType DEF PowInv, Types
<1>1. CASE \/ Start(p) \/ Load(p) \/ LeaveRefused(p) \/ Seal(p) \/ WriteSealed(p)
           \/ Kill(p) \/ LoseLink(p)
  BY <1>1 DEF Start, Load, LeaveRefused, Seal, WriteSealed, Kill, LoseLink, AtRest, Running,
              PowInv, Types, Ended
<1>2. CASE Receive(p) \/ ReceiveFails(p)
  BY <1>2, ReceiveGoes DEF Receive, ReceiveFails, AtRest, Running, Calls, Ended
<1>3. CASE LogIn(p) \/ LogOut(p) \/ GetKey(p) \/ LogInSealed(p) \/ ProcessMsg01(p)
           \/ ProcessMsg3(p)
  BY <1>0, <1>3, Names DEF LogIn, LogOut, GetKey, LogInSealed, ProcessMsg01, ProcessMsg3, Answer, Asked,
                    AtRest, Calls, PowInv, Types
<1>4. CASE HashUntrusted(p) \/ VerifyBegin(p) \/ VerifyEnd(p)
  BY <1>4, Names DEF HashUntrusted, VerifyBegin, VerifyEnd, Asked, AtRest, Calls
<1>5. QED
  BY <1>1, <1>2, <1>3, <1>4 DEF StepOf, ClientStep

LEMMA OthersOwn ==
  ASSUME PowInv, OwnDirectory, NEW p \in Process, StepOf(p), NEW q \in Process, q # p, Own(q),
         Own(p)', Dir[q] = Dir[p] => AtRest(q)
  PROVE  Own(q)'
<1>1. /\ UNCHANGED <<setting, up, restarts>> /\ trusted \subseteq trusted'
      /\ Id' = Id /\ Dir' = Dir /\ Untouched(q)
  BY Around, NamesStay, Apart
<1>2. CASE Dir[q] # Dir[p]
  <2>1. sessions'[Id[q]] = sessions[Id[q]] /\ sealed'[Dir[q]] = sealed[Dir[q]]
    <3>1. Id[q] # Id[p] /\ Id[q] \in Client /\ Dir[q] \in Directory
      BY <1>2, IdType DEF OwnDirectory, PowInv, Types, Directory
    <3>2. QED BY <1>2, <3>1, Around
  <2>2. QED
    BY <1>1, <2>1 DEF Own, SealedKey, KeyOf, Knowing, MayHave, Has, Unbroken, Untouched
<1>3. CASE Dir[q] = Dir[p]
  <2>1. Id[q] = Id[p] /\ AtRest(q)
    BY <1>3 DEF OwnDirectory
  <2>2. /\ pc'[q] \in {"off", "done", "failed", "killed"} /\ request'[q] = None
        /\ q \notin computing'
    BY <1>1, <2>1 DEF AtRest, Running, Untouched, Ended
  <2>3. sealed'[Dir[q]] \in Process => MayHave(q, sealed[Dir[q]])'
    BY <1>1, <1>3, <2>1 DEF Own, SealedKey, MayHave, Has
  <2>4. SealedKey(q)'
    BY <1>1, <2>2, <2>3, Names DEF SealedKey, Attesting, Calls
  <2>5. KeyOf(q)'
    BY <2>2, Names DEF KeyOf, Knowing, Calls
  <2>6. QED BY <2>4, <2>5 DEF Own
<1>4. QED
  BY <1>2, <1>3

LEMMA StillOneByOne ==
  ASSUME PowInv, OwnDirectory, OneByOne, NEW p \in Process, StepOf(p)
  PROVE  /\ OneByOne'
         /\ \A q \in Process : q # p /\ Dir[q] = Dir[p] => AtRest(q)
<1>1. \A q \in Process : q # p => (AtRest(q)' <=> AtRest(q))
  BY Apart DEF Untouched, AtRest, Running
<1>2. \A q \in Process : q # p /\ Dir[q] = Dir[p] => AtRest(q)
  <2>1. CASE Start(p)
    BY <2>1 DEF Start, OwnDirectory
  <2>2. CASE ~AtRest(p)
    BY <2>2 DEF OneByOne
  <2>3. QED BY <2>1, <2>2, Around
<1>3. Dir' = Dir
  BY Around, NamesStay
<1>4. ASSUME NEW a \in Process, NEW b \in Process, a # b, Dir[a] = Dir[b]
      PROVE  AtRest(a)' \/ AtRest(b)'
  BY <1>1, <1>2, <1>4 DEF OneByOne
<1>5. QED
  BY <1>2, <1>3, <1>4 DEF OneByOne

-----------------------------------------------------------------------------
(* What a step of p keeps of what is said of p *)

LEMMA StartOwn ==
  ASSUME PowInv, NEW p \in Process, Start(p), Own(p)
  PROVE  Own(p)'
<1> USE DEF clientVars, callVars, serverVars
<1>1. /\ UNCHANGED <<sealed, setting, up, restarts, sessions, trusted, computing,
                     verifying>>
      /\ Id' = Id /\ Dir' = Dir
  BY NamesStay DEF Start
<1>2. /\ pc'[p] = "load" /\ request'[p] = None /\ reply'[p] = None /\ p \notin computing'
  BY DEF PowInv, Types, Start, Each, Before, Calling, First
<1>3. QED
  BY <1>1, <1>2, Names DEF Own, SealedKey, KeyOf, Knowing, MayHave, Has, Unbroken, Attesting, Calls

LEMMA LoadOwn ==
  ASSUME PowInv, NEW p \in Process, Load(p), Own(p)
  PROVE  Own(p)'
<1> USE DEF clientVars, callVars, serverVars
<1>1. /\ UNCHANGED <<sealed, link, reply, setting, up, restarts, sessions, trusted, computing,
                     verifying>>
      /\ Id' = Id /\ Dir' = Dir /\ Dir[p] \in Directory
  BY NamesStay DEF Load, Directory
<1>2. reply'[p] = None /\ p \notin computing' /\ request[p] = None
  BY <1>1 DEF PowInv, Types, Load, Each, Before, Calling, First
<1>3. CASE sealed[Dir[p]] = None
  <2>1. pc'[p] = "logout" /\ request'[p] \in {"logout", None}
    BY <1>3 DEF Load, Call, PowInv, Types
  <2>2. QED
    BY <1>1, <1>2, <1>3, <2>1, Names
       DEF Own, SealedKey, KeyOf, Knowing, MayHave, Has, Unbroken, Attesting, Calls
<1>4. CASE sealed[Dir[p]] = Torn
  <2>1. pc'[p] = "failed" /\ request'[p] = None
    BY <1>2, <1>4, Names DEF Load, PowInv, Types
  <2>2. QED
    BY <1>1, <1>2, <1>4, <2>1, Names
       DEF Own, SealedKey, KeyOf, Knowing, MayHave, Has, Unbroken, Attesting, Calls
<1>5. CASE sealed[Dir[p]] \in Process
  <2>1. pc'[p] = "sealed" /\ request'[p] \in {"sealed", None} /\ key'[p] = sealed[Dir[p]]
    BY <1>5, Names DEF Load, Call, PowInv, Types
  <2>2. MayHave(p, sealed[Dir[p]])'
    BY <1>1, <1>5 DEF Own, SealedKey, MayHave, Has, Unbroken
  <2>3. MayHave(p, key[p])'
    BY <1>1, <2>1, <2>2 DEF MayHave, Has
  <2>4. SealedKey(p)'
    BY <1>1, <2>1, <2>2, Names DEF SealedKey, Attesting, Calls, MayHave, Has
  <2>5. KeyOf(p)'
    BY <1>2, <2>1, <2>3, Names DEF KeyOf, Knowing, Calls, MayHave, Has
  <2>6. QED
    BY <2>4, <2>5 DEF Own
<1>6. QED
  BY <1>1, <1>3, <1>4, <1>5 DEF PowInv, Types

\* a reply leads to the next call
LEMMA NextOwn ==
  ASSUME PowInv, NEW p \in Process, Own(p), Taken(p), NEW m, Call(p, m),
         \/ pc[p] = "logout" /\ m = "login" /\ key' = key
         \/ pc[p] = "login" /\ m = "msg01" /\ key' = key
         \/ pc[p] = "msg01" /\ m = "msg3" /\ key' = key
         \/ pc[p] = "msg3" /\ reply[p] = "ok" /\ m = "getsk" /\ key' = [key EXCEPT ![p] = p]
         \/ pc[p] = "sealed" /\ m = "getsk" /\ key' = key
         \/ pc[p] = "getsk" /\ m = "hash" /\ key' = key
         \/ pc[p] = "hash" /\ m \in {"hash", "exit"} /\ key' = key
  PROVE  Own(p)'
<1> USE DEF Taken, serverVars
<1>1. /\ UNCHANGED <<sealed, link, setting, up, restarts, sessions, trusted, computing,
                     verifying>>
      /\ Id' = Id /\ Dir' = Dir
  BY NamesStay
<1>2. /\ pc'[p] = m /\ request'[p] = (IF link[p] = "open" THEN m ELSE None)
      /\ reply'[p] = None /\ m \in Calls /\ m # "logout"
  BY DEF Call, PowInv, Types, Calls
<1>3. link[p] = "open" => p \notin computing'
  BY <1>1 DEF PowInv, Each, Calling
<1>4. key'[p] = (IF pc[p] = "msg3" THEN p ELSE key[p])
  BY DEF PowInv, Types
<1>5. SealedKey(p)'
  BY <1>1, <1>2, Names DEF Own, SealedKey, MayHave, Has, Unbroken, Attesting, Calls
<1>6. m \in {"getsk", "hash", "exit"} /\ key'[p] = p => MayHave(p, p)
  BY <1>4 DEF Own, KeyOf, Knowing, MayHave
<1>7. link[p] = "open" /\ m \in {"getsk", "hash"} => MayHave(p, key'[p])
  BY <1>4 DEF Own, KeyOf, Knowing, MayHave
<1>8. link[p] = "open" /\ m = "hash" /\ Unbroken => sessions[Id[p]] # None
  BY <1>7, Names DEF PowInv, Types, MayHave, Has
<1>9. \A k : MayHave(p, k) => MayHave(p, k)'
  BY <1>1 DEF MayHave, Has, Unbroken
<1>10. KeyOf(p)'
  <2>1. pc'[p] \in Knowing /\ key'[p] = p => MayHave(p, p)'
    BY <1>2, <1>6, <1>9 DEF Knowing, Calls
  <2>2. link'[p] = "open" /\ pc'[p] \in {"sealed", "getsk", "hash"} => MayHave(p, key[p])'
    <3>1. SUFFICES ASSUME link'[p] = "open", pc'[p] \in {"sealed", "getsk", "hash"}
                   PROVE  MayHave(p, key[p])'
      OBVIOUS
    <3>2. MayHave(p, key'[p])
      BY <1>1, <1>2, <1>7, <3>1
    <3>3. QED BY <1>1, <3>2 DEF MayHave, Has, Unbroken
  <2>3. request'[p] = "hash" /\ Unbroken' => sessions'[Id'[p]] # None
    BY <1>1, <1>2, <1>8, Names DEF Unbroken, Calls
  <2>4. QED
    BY <1>1, <1>2, <1>3, <2>1, <2>2, <2>3, Names DEF KeyOf, Knowing, MayHave, Has, Unbroken
<1>11. QED
  BY <1>5, <1>10 DEF Own

\* or to the end
LEMMA EndOwn ==
  ASSUME PowInv, NEW p \in Process, Own(p), Taken(p), NEW m, pc' = [pc EXCEPT ![p] = m],
         UNCHANGED <<key, request>>,
         \/ m = "failed" /\ pc[p] \in {"msg01", "msg3"}
         \/ m = "refused" /\ pc[p] = "hash"
         \/ m = "seal" /\ pc[p] \in {"getsk", "exit"} /\ key[p] = p
         \/ m = "done" /\ pc[p] \in {"getsk", "exit"}
  PROVE  Own(p)'
<1> USE DEF Taken, serverVars
<1>1. /\ UNCHANGED <<key, request, sealed, link, setting, up, restarts, sessions, trusted, computing,
                     verifying>>
      /\ Id' = Id /\ Dir' = Dir
  BY NamesStay
<1>2. pc'[p] = m /\ reply'[p] = None
  BY DEF PowInv, Types
<1>3. link[p] = "open" => p \notin computing'
  BY <1>1 DEF PowInv, Each, Calling
<1>4. SealedKey(p)'
  BY <1>1, <1>2, Names DEF Own, SealedKey, MayHave, Has, Unbroken, Attesting
<1>5. KeyOf(p)'
  BY <1>1, <1>2, <1>3, Names DEF Own, KeyOf, Knowing, MayHave, Has, Unbroken
<1>6. QED
  BY <1>4, <1>5 DEF Own

LEMMA ReceiveOwn ==
  ASSUME PowInv, NEW p \in Process, Receive(p) \/ ReceiveFails(p), Own(p)
  PROVE  Own(p)'
<1>1. Taken(p)
  BY DEF Receive, ReceiveFails, Taken, PowInv, Types
<1>2. CASE ForwardBatch(p) /\ pc[p] = "hash" /\ UNCHANGED key
  BY <1>1, <1>2, NextOwn DEF ForwardBatch
<1>3. CASE RefuseBatch(p) /\ pc[p] = "hash" /\ UNCHANGED key
  BY <1>1, <1>3, EndOwn DEF RefuseBatch
<1>4. CASE \E ok \in BOOLEAN : (ok => reply[p] = "ok") /\ pc[p] # "hash" /\ AfterCall(p, ok)
  <2>1. PICK ok \in BOOLEAN : (ok => reply[p] = "ok") /\ pc[p] # "hash" /\ AfterCall(p, ok)
    BY <1>4
  <2>2. CASE AfterLogin(p)
    BY <1>1, <2>2, NextOwn DEF AfterLogin
  <2>3. CASE DoAttestation(p, ok)
    BY <1>1, <2>1, <2>3, NextOwn, EndOwn DEF DoAttestation, SetSessionKey
  <2>4. CASE pc[p] = "getsk" /\ ok /\ Call(p, "hash") /\ UNCHANGED key
    BY <1>1, <2>4, NextOwn
  <2>5. CASE pc[p] \in {"getsk", "exit"} /\ Leave(p) /\ UNCHANGED key
    BY <1>1, <2>5, EndOwn DEF Leave, Attested
  <2>6. QED
    BY <2>1, <2>2, <2>3, <2>4, <2>5 DEF AfterCall
<1>5. QED
  BY <1>2, <1>3, <1>4 DEF Receive, ReceiveFails

LEMMA LeaveOwn ==
  ASSUME PowInv, NEW p \in Process, LeaveRefused(p), Own(p)
  PROVE  Own(p)'
<1> USE DEF serverVars
<1>1. /\ UNCHANGED <<key, sealed, link, request, reply, setting, up, restarts, sessions, trusted,
                     computing, verifying>>
      /\ Id' = Id /\ Dir' = Dir
  BY NamesStay DEF LeaveRefused, Leave
<1>2. /\ pc[p] = "refused" /\ pc'[p] = (IF key[p] = p THEN "seal" ELSE "done")
  BY DEF LeaveRefused, Leave, Attested, PowInv, Types
<1>3. link[p] = "open" => p \notin computing
  BY <1>2 DEF PowInv, Each, Calling
<1>4. SealedKey(p)'
  BY <1>1, <1>2, Names DEF Own, SealedKey, MayHave, Has, Unbroken, Attesting
<1>5. KeyOf(p)'
  BY <1>1, <1>2, <1>3, Names DEF Own, KeyOf, Knowing, MayHave, Has, Unbroken
<1>6. QED
  BY <1>4, <1>5 DEF Own

LEMMA SealOwn ==
  ASSUME PowInv, NEW p \in Process, Seal(p) \/ WriteSealed(p), Own(p)
  PROVE  Own(p)'
<1> USE DEF callVars, serverVars
<1>1. /\ UNCHANGED <<key, link, request, reply, setting, up, restarts, sessions, trusted, computing,
                     verifying>>
      /\ Id' = Id /\ Dir' = Dir /\ Dir[p] \in Directory
  BY NamesStay DEF Seal, WriteSealed, Directory
<1>2. /\ pc[p] \in {"seal", "write"} /\ pc'[p] \in {"write", "done"}
      /\ sealed'[Dir[p]] \in {Torn, p}
  BY <1>1 DEF Seal, WriteSealed, PowInv, Types, Own, KeyOf, Knowing
<1>3. key[p] = p /\ MayHave(p, p) /\ request[p] \notin {"logout", "msg01"}
  BY <1>2 DEF Own, KeyOf, Knowing, SealedKey
<1>4. SealedKey(p)'
  BY <1>1, <1>2, <1>3, Names DEF SealedKey, MayHave, Has, Unbroken, Attesting
<1>5. KeyOf(p)'
  BY <1>1, <1>2, <1>3, Names DEF Own, KeyOf, Knowing, MayHave, Has, Unbroken
<1>6. QED
  BY <1>4, <1>5 DEF Own

LEMMA LossOwn ==
  ASSUME PowInv, NEW p \in Process, Kill(p) \/ LoseLink(p), Own(p)
  PROVE  Own(p)'
<1> USE DEF clientVars, serverVars
<1>1. /\ UNCHANGED <<key, sealed, setting, up, restarts, sessions, trusted, computing,
                     verifying>>
      /\ Id' = Id /\ Dir' = Dir
  BY NamesStay DEF Kill, LoseLink
<1>2. /\ pc'[p] \in {pc[p], "killed"} /\ link'[p] = "lost" /\ reply'[p] = None
      /\ request'[p] \in {request[p], None}
  BY DEF Kill, LoseLink, PowInv, Types
<1>3. SealedKey(p)'
  BY <1>1, <1>2, Names DEF Own, SealedKey, MayHave, Has, Unbroken, Attesting, Calls
<1>4. KeyOf(p)'
  BY <1>1, <1>2, Names DEF Own, KeyOf, Knowing, MayHave, Has, Unbroken, Calls
<1>5. QED
  BY <1>3, <1>4 DEF Own

LEMMA AnswerOwn ==
  ASSUME PowInv, NEW p \in Process, Own(p),
         LogIn(p) \/ LogOut(p) \/ GetKey(p) \/ LogInSealed(p) \/ ProcessMsg01(p) \/ ProcessMsg3(p)
  PROVE  Own(p)'
<1> USE DEF clientVars
<1>0. Id \in [Process -> Client] /\ sessions \in [Client -> Process \union {None}]
  BY IdType DEF PowInv, Types
<1>1. /\ UNCHANGED <<pc, key, sealed, link, setting, up, restarts, computing,
                     verifying>>
      /\ Id' = Id /\ Dir' = Dir /\ request'[p] = None
      /\ reply'[p] # None => link[p] = "open" /\ request[p] = pc[p]
      /\ request[p] \in Calls \ {"hash"}
  <2>1. /\ \E r : Answer(p, r)
        /\ request[p] \in Calls \ {"hash"}
    BY DEF LogIn, LogOut, GetKey, LogInSealed, ProcessMsg01, ProcessMsg3, Asked, Calls
  <2>2. link[p] = "open" => request[p] = pc[p]
    BY <2>1, Names DEF PowInv, Each, Calling
  <2>3. QED
    BY <2>1, <2>2, NamesStay DEF Answer, PowInv, Types
<1>2. /\ p \notin computing
      /\ link[p] = "open" => pc[p] # "hash"
  BY <1>1, Names DEF PowInv, Each, Calling, Calls
<1>3. CASE LogIn(p) \/ GetKey(p) \/ LogInSealed(p)
  <2>1. UNCHANGED <<sessions, trusted>> /\ pc[p] = "msg3" => reply'[p] = None
    BY <1>1, <1>3 DEF LogIn, GetKey, LogInSealed, Asked
  <2>2. UNCHANGED <<sessions, trusted>>
    BY <1>3 DEF LogIn, GetKey, LogInSealed
  <2>3. SealedKey(p)'
    BY <1>1, <2>2, Names DEF Own, SealedKey, MayHave, Has, Unbroken, Calls
  <2>4. KeyOf(p)'
    BY <1>1, <1>2, <2>1, <2>2, Names DEF Own, KeyOf, Knowing, MayHave, Has, Unbroken, Calls
  <2>5. QED
    BY <2>3, <2>4 DEF Own
<1>4. CASE LogOut(p) \/ ProcessMsg01(p)
  <2>1. request[p] \in {"logout", "msg01"}
    BY <1>4 DEF LogOut, ProcessMsg01, Asked
  <2>2. sealed[Dir[p]] = None /\ pc[p] \in {"logout", "msg01", "killed", "failed"}
    BY <2>1 DEF Own, SealedKey
  <2>3. SealedKey(p)'
    BY <1>1, <2>2, Names DEF SealedKey, Calls
  <2>4. KeyOf(p)'
    BY <1>1, <1>2, <2>2, Names DEF KeyOf, Knowing, Calls
  <2>5. QED
    BY <2>3, <2>4 DEF Own
<1>5. CASE ProcessMsg3(p)
  <2>1. /\ sessions' = sessions /\ trusted \subseteq trusted'
        /\ reply'[p] = "ok" => Has(p, p)'
    BY <1>0, <1>1, <1>5, Names DEF ProcessMsg3, Answer, Has, PowInv, Types
  <2>2. \A k : MayHave(p, k) => MayHave(p, k)'
    BY <1>1, <2>1 DEF MayHave, Has, Unbroken
  <2>3. SealedKey(p)'
    <3>1. sealed'[Dir'[p]] \in Process => MayHave(p, sealed[Dir[p]])'
      BY <1>1, <2>1 DEF Own, SealedKey, MayHave, Has, Unbroken
    <3>2. QED
      BY <1>1, <3>1, Names DEF Own, SealedKey, Calls, MayHave, Has
  <2>4. KeyOf(p)'
    BY <1>1, <1>2, <2>1, Names DEF Own, KeyOf, Knowing, MayHave, Has, Unbroken, Calls
  <2>5. QED
    BY <2>3, <2>4 DEF Own
<1>6. QED
  BY <1>3, <1>4, <1>5

LEMMA BatchOwn ==
  ASSUME PowInv, NEW p \in Process, Own(p), HashUntrusted(p) \/ VerifyBegin(p) \/ VerifyEnd(p)
  PROVE  Own(p)'
<1> USE DEF clientVars, serverVars
<1>1. /\ UNCHANGED <<pc, key, sealed, link, setting, up, restarts, sessions, trusted>>
      /\ Id' = Id /\ Dir' = Dir
  BY NamesStay DEF HashUntrusted, VerifyBegin, VerifyEnd
<1>2. request'[p] = None
  BY DEF HashUntrusted, VerifyBegin, VerifyEnd, PowInv, Types, Each, Calling
<1>3. SealedKey(p)'
  BY <1>1, <1>2, Names DEF Own, SealedKey, MayHave, Has, Unbroken, Calls
<1>4. pc[p] = "msg3" => reply'[p] # "ok"
  <2>1. CASE request[p] = "hash"
    <3>1. reply' = reply /\ reply[p] = None
      BY <2>1, Names DEF HashUntrusted, VerifyBegin, VerifyEnd, PowInv, Each, Calling, Calls
    <3>2. QED BY <3>1, Names
  <2>2. CASE VerifyEnd(p)
    <3>1. link[p] # "open" => reply'[p] = None
      BY <2>2 DEF VerifyEnd, PowInv, Types
    <3>2. link[p] = "open" => pc[p] = "hash"
      BY <2>2 DEF VerifyEnd, PowInv, Each, Calling
    <3>3. QED BY <3>1, <3>2, Names
  <2>3. QED
    BY <2>1, <2>2 DEF HashUntrusted, VerifyBegin, Asked
<1>5. link[p] = "open" /\ p \in computing' => Has(p, key[p]) /\ verifying'[p] = key[p]
  <2>1. CASE HashUntrusted(p) \/ VerifyEnd(p)
    BY <2>1 DEF HashUntrusted, VerifyEnd, Own, KeyOf
  <2>2. CASE VerifyBegin(p)
    <3>1. SUFFICES ASSUME link[p] = "open" PROVE Has(p, key[p]) /\ verifying'[p] = key[p]
      OBVIOUS
    <3>2. pc[p] = "hash" /\ sessions[Id[p]] # None
      BY <2>2, <3>1, Names DEF VerifyBegin, Asked, PowInv, Each, Calling, Calls
    <3>3. Has(p, key[p])
      BY <3>1, <3>2 DEF Own, KeyOf, MayHave
    <3>4. QED
      BY <2>2, <3>3 DEF VerifyBegin, Has, PowInv, Types
  <2>3. QED
    BY <2>1, <2>2
<1>6. KeyOf(p)'
  BY <1>1, <1>2, <1>4, <1>5, Names DEF Own, KeyOf, Knowing, MayHave, Has, Unbroken, Calls
<1>7. QED
  BY <1>3, <1>6 DEF Own

LEMMA StepOwns ==
  ASSUME PowInv, NEW p \in Process, StepOf(p), Own(p)
  PROVE  Own(p)'
BY StartOwn, LoadOwn, ReceiveOwn, LeaveOwn, SealOwn, LossOwn, AnswerOwn, BatchOwn
   DEF StepOf, ClientStep

-----------------------------------------------------------------------------
(* A client that is alone *)

LEMMA AloneIsOwn == Alone => OwnDirectory
BY DEF Alone

LEMMA StepUndisturbed ==
  ASSUME PowInv, Alone, OneByOne, NEW p \in Process, Own(p), StepOf(p), Undisturbed
  PROVE  Undisturbed'
<1> USE DEF clientVars, callVars, serverVars
<1>1. \A q \in Process : q # p => Untouched(q)
  BY Apart
<1>2. clashed' = {}
  <2>1. CASE VerifyBegin(p)
    <3>1. ASSUME NEW q \in computing PROVE FALSE
      <4>1. q \in Process /\ ~AtRest(q)
        BY DEF PowInv, Types, AtRest
      <4>2. request[p] # None /\ ~AtRest(p)
        BY <2>1, Names DEF VerifyBegin, Asked, AtRest, Calls
      <4>3. q = p
        BY <4>1, <4>2 DEF OneByOne, Alone, OwnDirectory
      <4>4. QED
        BY <4>2, <4>3 DEF PowInv, Each, Calling
    <3>2. QED
      BY <2>1, <3>1 DEF VerifyBegin, Undisturbed
  <2>2. CASE clashed' \in {clashed, clashed \ {p}}
    BY <2>2 DEF Undisturbed
  <2>3. CASE Receive(p) \/ ReceiveFails(p)
    BY <2>3, ReceiveGoes DEF Undisturbed
  <2>4. QED
    BY <2>1, <2>2, <2>3
       DEF StepOf, ClientStep, Start, Load, LeaveRefused, Seal, WriteSealed, Kill, LoseLink, LogIn,
           LogOut, GetKey, LogInSealed, ProcessMsg01, ProcessMsg3, Answer, HashUntrusted, VerifyEnd
<1>3. /\ pc'[p] = "hash" /\ reply'[p] # None => reply'[p] = "ok"
      /\ pc'[p] = "refused" => link'[p] = "lost"
  <2>1. CASE Start(p) \/ Load(p) \/ LeaveRefused(p) \/ Seal(p) \/ WriteSealed(p)
    <3>1. pc'[p] \in {"load", "logout", "failed", "sealed", "seal", "write", "done"}
      BY <2>1 DEF Start, Load, Call, LeaveRefused, Leave, Seal, WriteSealed, PowInv, Types
    <3>2. QED BY <3>1
  <2>2. CASE Kill(p) \/ LoseLink(p)
    BY <2>2 DEF Kill, LoseLink, PowInv, Types
  <2>3. CASE Receive(p) \/ ReceiveFails(p)
    <3>1. reply'[p] = None /\ link' = link
      BY <2>3, ReceiveGoes DEF PowInv, Types
    <3>2. CASE pc[p] = "hash" /\ RefuseBatch(p)
      <4>1. reply[p] = None \/ reply[p] = "ok"
        BY <3>2 DEF Undisturbed
      <4>2. link[p] = "lost"
        BY <2>3, <3>2, <4>1, Names DEF Receive, ReceiveFails, RefuseBatch, ForwardBatch, Call,
                                       PowInv, Types
      <4>3. QED BY <3>1, <4>2
    <3>3. CASE pc[p] = "hash" /\ ForwardBatch(p)
      BY <3>1, <3>3 DEF ForwardBatch, Call, PowInv, Types
    <3>4. CASE \E ok \in BOOLEAN : pc[p] # "hash" /\ AfterCall(p, ok)
      <4>1. pc'[p] # "refused"
        BY <3>4 DEF AfterCall, AfterLogin, DoAttestation, Leave, Call, PowInv, Types
      <4>2. QED BY <3>1, <4>1
    <3>5. QED
      BY <2>3, <3>2, <3>3, <3>4 DEF Receive, ReceiveFails
  <2>4. CASE LogIn(p) \/ LogOut(p) \/ GetKey(p) \/ LogInSealed(p) \/ ProcessMsg01(p)
             \/ ProcessMsg3(p)
    <3>1. (\E r : Answer(p, r)) /\ request[p] \in Calls \ {"hash"}
      BY <2>4 DEF LogIn, LogOut, GetKey, LogInSealed, ProcessMsg01, ProcessMsg3, Asked, Calls
    <3>2. link[p] = "open" => pc[p] # "hash"
      BY <3>1, Names DEF PowInv, Each, Calling
    <3>3. QED
      BY <3>1, <3>2 DEF Answer, PowInv, Types, Undisturbed
  <2>5. CASE HashUntrusted(p) \/ VerifyBegin(p)
    BY <2>5 DEF HashUntrusted, VerifyBegin, Undisturbed
  <2>6. CASE VerifyEnd(p)
    <3>1. p \in computing /\ p \notin clashed /\ UNCHANGED <<pc, link>>
      BY <2>6 DEF VerifyEnd, Undisturbed
    <3>2. link[p] = "open" => RightMac(p)
      BY <3>1 DEF Own, KeyOf, Knowing, Has, RightMac, Mac
    <3>3. reply'[p] = IF link[p] # "open" THEN None ELSE IF RightMac(p) THEN "ok" ELSE "no"
      BY <2>6, <3>1 DEF VerifyEnd, PowInv, Types
    <3>4. QED
      BY <3>1, <3>2, <3>3 DEF Undisturbed
  <2>7. QED
    BY <2>1, <2>2, <2>3, <2>4, <2>5, <2>6 DEF StepOf, ClientStep
<1>4. QED
  BY <1>1, <1>2, <1>3 DEF Undisturbed, Untouched

-----------------------------------------------------------------------------
LEMMA OwnInit == Init => OwnInv
<1> SUFFICES ASSUME Init PROVE OwnInv
  OBVIOUS
<1>1. PowInv /\ restarts \in Nat
  BY PowInit DEF Init
<1>2. OneByOne
  BY DEF Init, OneByOne, AtRest, Running
<1>3. ASSUME NEW p \in Process PROVE Own(p)
  <2>1. /\ sealed[Dir[p]] = None /\ request[p] = None /\ reply[p] = None /\ pc[p] = "off"
        /\ p \notin computing
    BY DEF Init, Directory
  <2>2. QED
    BY <2>1, Names DEF Own, SealedKey, KeyOf, Knowing, Attesting, Calls
<1>4. Undisturbed
  BY DEF Init, Undisturbed
<1>5. QED
  BY <1>1, <1>2, <1>3, <1>4 DEF OwnInv

LEMMA DieOwn ==
  ASSUME OwnInv, Die
  PROVE  OwnInv'
<1> USE DEF clientVars
<1>1. /\ UNCHANGED <<pc, key, sealed, setting, restarts>> /\ Id' = Id /\ Dir' = Dir
      /\ OwnDirectory' = OwnDirectory /\ Alone' = Alone
  BY NamesStay DEF Die
<1>2. PowInv' /\ restarts' \in Nat
  BY <1>1, DieKeeps DEF OwnInv
<1>3. \A p \in Process : /\ request'[p] = None /\ reply'[p] = None /\ p \notin computing'
                         /\ link'[p] # "open" /\ (link[p] = "lost" => link'[p] = "lost")
  BY DEF Die, OwnInv, PowInv, Types
<1>4. OneByOne => OneByOne'
  BY <1>1, <1>3 DEF OneByOne, AtRest, Running
<1>5. ASSUME OwnDirectory, NEW p \in Process PROVE Own(p)'
  <2>1. ~Unbroken' /\ sessions'[Id'[p]] = None
    BY <1>1, IdType DEF Die, Unbroken, OwnInv, PowInv, Types
  <2>2. \A k : MayHave(p, k)'
    BY <2>1 DEF MayHave
  <2>3. Own(p)
    BY <1>5 DEF OwnInv
  <2>4. SealedKey(p)'
    BY <1>1, <1>3, <2>2, <2>3, Names DEF Own, SealedKey, Calls
  <2>5. KeyOf(p)'
    BY <1>1, <1>3, <2>2, <2>3, Names DEF Own, KeyOf, Knowing, Calls
  <2>6. QED
    BY <2>4, <2>5 DEF Own
<1>6. Undisturbed => Undisturbed'
  BY <1>1, <1>3 DEF Undisturbed, Die
<1>7. QED
  BY <1>1, <1>2, <1>4, <1>5, <1>6 DEF OwnInv

LEMMA RestOwn ==
  ASSUME OwnInv, StartServer \/ UNCHANGED vars
  PROVE  OwnInv'
<1> USE DEF vars, clientVars, callVars, serverVars
<1>1. /\ UNCHANGED <<setting, clientVars, callVars, answered, sessions, trusted, computing,
                     verifying, clashed>>
      /\ Id' = Id /\ Dir' = Dir /\ OwnDirectory' = OwnDirectory /\ Alone' = Alone
  BY NamesStay DEF StartServer
<1>2. PowInv'
  BY <1>1, StandsStill DEF OwnInv
<1>3. restarts' \in Nat /\ (Unbroken' => Unbroken)
  BY DEF StartServer, OwnInv, Unbroken
<1>4. OneByOne => OneByOne'
  BY <1>1 DEF OneByOne, AtRest, Running
<1>5. ASSUME OwnDirectory, NEW p \in Process PROVE Own(p)'
  <2>1. Own(p)
    BY <1>5 DEF OwnInv
  <2>2. \A k : (Has(p, k) => Has(p, k)') /\ (MayHave(p, k) => MayHave(p, k)')
    BY <1>1, <1>3 DEF Has, MayHave
  <2>3. SealedKey(p)'
    BY <1>1, <1>3, <2>1 DEF Own, SealedKey, MayHave, Has
  <2>4. KeyOf(p)'
    BY <1>1, <1>3, <2>1 DEF Own, KeyOf, Knowing, MayHave, Has
  <2>5. QED
    BY <2>3, <2>4 DEF Own
<1>6. Undisturbed => Undisturbed'
  BY <1>1 DEF Undisturbed
<1>7. QED
  BY <1>1, <1>2, <1>3, <1>4, <1>5, <1>6 DEF OwnInv

LEMMA StepOwnInv ==
  ASSUME OwnInv, NEW p \in Process, StepOf(p), PowInv'
  PROVE  OwnInv'
<1>1. /\ PowInv /\ restarts' \in Nat
      /\ OwnDirectory' = OwnDirectory /\ Alone' = Alone
  BY Around, NamesStay DEF OwnInv
<1>2. ASSUME OwnDirectory PROVE OneByOne' /\ \A q \in Process : Own(q)'
  <2>1. OneByOne /\ \A q \in Process : Own(q)
    BY <1>2 DEF OwnInv
  <2>2. OneByOne' /\ \A q \in Process : q # p /\ Dir[q] = Dir[p] => AtRest(q)
    BY <1>1, <1>2, <2>1, StillOneByOne
  <2>3. Own(p)'
    BY <1>1, <2>1, StepOwns
  <2>4. \A q \in Process : q # p => Own(q)'
    BY <1>1, <1>2, <2>1, <2>2, <2>3, OthersOwn
  <2>5. QED
    BY <2>2, <2>3, <2>4
<1>3. ASSUME Alone PROVE Undisturbed'
  <2>1. OneByOne /\ Own(p) /\ Undisturbed
    BY <1>3, AloneIsOwn DEF OwnInv
  <2>2. QED
    BY <1>1, <1>3, <2>1, StepUndisturbed
<1>4. QED
  BY <1>1, <1>2, <1>3 DEF OwnInv

LEMMA OwnStep == OwnInv /\ [Next]_vars => OwnInv'
<1> SUFFICES ASSUME OwnInv, [Next]_vars PROVE OwnInv'
  OBVIOUS
<1>1. PowInv'
  BY PowStep DEF OwnInv
<1>2. CASE \E p \in Process : StepOf(p)
  BY <1>1, <1>2, StepOwnInv
<1>3. CASE Die
  BY <1>3, DieOwn
<1>4. CASE StartServer \/ UNCHANGED vars
  BY <1>4, RestOwn
<1>5. QED
  BY <1>2, <1>3, <1>4 DEF Next, StepOf, ThreadStep, HashThrows, Stop

(* While the server has not started again and every client keeps to its directory, a batch that
   comes to the server finds the session of its client ID, and sessions.at does not throw: a
   client that logs out has no sealed key, and attests itself before its first batch
   (powClient.cpp:346-458, dataSR.cpp:512-585, powServer.cpp:323-336). *)
THEOREM SessionsFound == Spec => []ServerLives
<1>1. OwnInv => ServerLives
  <2> SUFFICES ASSUME OwnInv, OwnDirectory, restarts = 0, NEW p \in Process, Asked(p, "hash")
               PROVE  sessions[Id[p]] # None
    BY DEF ServerLives
  <2>1. QED
    BY DEF OwnInv, Own, KeyOf, Knowing, Asked, Unbroken
<1>2. QED
  BY <1>1, OwnInit, OwnStep, PTL DEF Spec

(* The batches of a client that is alone at the server are refused only when its connection is
   lost, whether its key is new or unsealed, whatever its earlier processes were killed at and
   however often the server has started again (powClient.cpp:103-176, powServer.cpp:323-336). *)
THEOREM AloneNotRefused == Spec => []NeverRefused
<1>1. OwnInv => NeverRefused
  BY DEF OwnInv, Undisturbed, NeverRefused
<1>2. QED
  BY <1>1, OwnInit, OwnStep, PTL DEF Spec

-----------------------------------------------------------------------------
(* The types with their bounds: how many batches are answered *)

\* a batch of p that the server has yet to answer
Due(p) == IF request[p] = "hash" \/ p \in computing THEN 1 ELSE 0

(* A process does not send more than its batches, nor one before it has gone on from the last. *)
Counted(p) ==
    /\ answered[p] + Due(p) <= Batches
    /\ forwarded[p] <= Batches /\ (pc[p] = "hash" => forwarded[p] < Batches)
    /\ link[p] = "open" /\ pc[p] = "hash" => answered[p] + Due(p) <= forwarded[p] + 1

ServerTypes ==
    /\ current \in [Process -> Process \union {None}]
    /\ up \in BOOLEAN /\ restarts \in 0 .. MaxRestarts
    /\ clashed \subseteq computing

CountInv == OwnInv /\ ServerTypes /\ \A p \in Process : Counted(p)

LEMMA SomeBatches == Batches \in Nat /\ Batches > 0 /\ MaxRestarts \in Nat
BY PowSessionAssumption

LEMMA CountedTypes == CountInv => TypeOK
<1> SUFFICES ASSUME CountInv PROVE TypeOK
  OBVIOUS
<1>1. ASSUME NEW p \in Process PROVE answered[p] \in 0 .. Batches /\ forwarded[p] \in 0 .. Batches
  BY SomeBatches DEF CountInv, OwnInv, PowInv, Types, Counted, Due
<1>2. Types
  BY DEF CountInv, OwnInv, PowInv
<1>3. answered \in [Process -> 0 .. Batches] /\ forwarded \in [Process -> 0 .. Batches]
  BY <1>1, <1>2 DEF Types
<1>4. QED
  BY <1>2, <1>3 DEF CountInv, ServerTypes, TypeOK, Types, PcValues

LEMMA CountInit == Init => CountInv
<1> SUFFICES ASSUME Init PROVE CountInv
  OBVIOUS
<1>1. ServerTypes
  BY SomeBatches DEF Init, ServerTypes
<1>2. ASSUME NEW p \in Process PROVE Counted(p)
  BY SomeBatches, Names DEF Init, Counted, Due, Calls
<1>3. QED
  BY <1>1, <1>2, OwnInit DEF CountInv

LEMMA CountUntouched ==
  ASSUME NEW q \in Process, Counted(q), Untouched(q)
  PROVE  Counted(q)'
BY DEF Counted, Due, Untouched

\* a step that neither answers nor forwards a batch, nor begins with one
LEMMA CountLess ==
  ASSUME PowInv, NEW p \in Process, Counted(p), UNCHANGED <<answered, forwarded>>,
         Due(p)' <= Due(p), pc'[p] = "hash" => pc[p] = "hash",
         link'[p] = "open" => link[p] = "open" \/ pc'[p] # "hash"
  PROVE  Counted(p)'
<1>1. /\ answered[p] \in Nat /\ forwarded[p] \in Nat /\ Due(p) \in Nat /\ Due(p)' \in Nat
      /\ answered'[p] = answered[p] /\ forwarded'[p] = forwarded[p]
  BY DEF PowInv, Types, Due
<1>2. Batches \in Nat /\ Batches' = Batches
  BY SomeBatches
<1>3. \A a, d, e, b \in Nat : e <= d /\ a + d <= b => a + e <= b
  OBVIOUS
<1>4. answered'[p] + Due(p)' <= Batches
  BY <1>1, <1>2, <1>3 DEF Counted
<1>5. link'[p] = "open" /\ pc'[p] = "hash" => answered'[p] + Due(p)' <= forwarded'[p] + 1
  <2>1. SUFFICES ASSUME link'[p] = "open", pc'[p] = "hash"
                 PROVE  answered[p] + Due(p)' <= forwarded[p] + 1
    BY <1>1
  <2>2. answered[p] + Due(p) <= forwarded[p] + 1 /\ forwarded[p] + 1 \in Nat
    BY <1>1, <2>1 DEF Counted
  <2>3. QED
    BY <1>1, <1>3, <2>2
<1>6. QED
  BY <1>1, <1>4, <1>5 DEF Counted

\* a reply leads to a batch, the next or the first one
LEMMA CountForward ==
  ASSUME PowInv, NEW p \in Process, Counted(p), Taken(p), pc[p] = "hash", ForwardBatch(p)
  PROVE  Counted(p)'
<1> USE DEF Taken, serverVars
<1>1. PICK n \in Nat : n = forwarded[p]
  BY DEF PowInv, Types
<1>2. PICK a \in Nat : a = answered[p]
  BY DEF PowInv, Types
<1>3. forwarded'[p] = n + 1 /\ answered'[p] = a /\ link'[p] = link[p] /\ n < Batches
  BY <1>1, <1>2 DEF ForwardBatch, PowInv, Types, Counted
<1>4. pc'[p] = (IF n + 1 < Batches THEN "hash" ELSE "exit")
  BY <1>1 DEF ForwardBatch, Call, PowInv, Types
<1>5. request'[p] = (IF link[p] = "open" THEN pc'[p] ELSE None)
  BY <1>1, <1>4 DEF ForwardBatch, Call, PowInv, Types
<1>6. CASE link[p] = "open"
  <2>1. Due(p) = 0 /\ p \notin computing'
    BY <1>6, Names DEF PowInv, Each, Calling, Due, Calls
  <2>2. a + 0 <= Batches /\ a + 0 <= n + 1
    BY <1>1, <1>2, <1>6, <2>1 DEF Counted
  <2>3. Due(p)' = (IF n + 1 < Batches THEN 1 ELSE 0)
    BY <1>4, <1>5, <1>6, <2>1 DEF Due
  <2>4. QED
    BY <1>3, <1>4, <2>2, <2>3, SomeBatches DEF Counted
<1>7. CASE link[p] # "open"
  <2>1. Due(p)' <= Due(p) /\ Due(p) \in {0, 1} /\ Due(p)' \in {0, 1}
    BY <1>5, <1>7, Names DEF Due, Calls
  <2>2. a + Due(p) <= Batches
    BY <1>2 DEF Counted
  <2>3. QED
    BY <1>3, <1>4, <1>7, <2>1, <2>2, SomeBatches DEF Counted
<1>8. QED
  BY <1>6, <1>7

LEMMA CountReceive ==
  ASSUME PowInv, NEW p \in Process, Counted(p), Receive(p) \/ ReceiveFails(p)
  PROVE  Counted(p)'
<1>1. Taken(p)
  BY DEF Receive, ReceiveFails, Taken, PowInv, Types
<1>2. CASE ForwardBatch(p) /\ pc[p] = "hash"
  BY <1>1, <1>2, CountForward
<1>3. CASE EndsHere(p) /\ forwarded' = forwarded
  <2>1. Due(p)' = Due(p)
    BY <1>1, <1>3 DEF EndsHere, Taken, serverVars, Due
  <2>2. pc'[p] # "hash"
    BY <1>3 DEF EndsHere, PowInv, Types
  <2>3. QED
    BY <1>1, <1>3, <2>1, <2>2, CountLess DEF Taken, Due
<1>4. CASE NextCall(p) /\ forwarded' = forwarded
  <2>1. answered[p] = 0 /\ forwarded[p] = 0
    BY <1>4 DEF NextCall, PowInv, Each, Before
  <2>2. answered'[p] = 0 /\ forwarded'[p] = 0 /\ Due(p)' \in {0, 1}
    BY <1>1, <1>4, <2>1 DEF Taken, Due
  <2>3. QED
    BY <2>2, SomeBatches DEF Counted
<1>5. QED
  <2>1. RefuseBatch(p) /\ UNCHANGED key => EndsHere(p) /\ forwarded' = forwarded
    BY DEF RefuseBatch, EndsHere
  <2>2. QED
    BY <1>2, <1>3, <1>4, <2>1, AfterCallGoes DEF Receive, ReceiveFails

LEMMA CountVerify ==
  ASSUME PowInv, NEW p \in Process, Counted(p), VerifyEnd(p)
  PROVE  Counted(p)'
<1> USE DEF clientVars
<1>1. PICK a \in Nat : a = answered[p]
  BY DEF PowInv, Types
<1>2. PICK n \in Nat : n = forwarded[p]
  BY DEF PowInv, Types
<1>3. /\ answered'[p] \in {a, a + 1} /\ forwarded'[p] = n /\ pc'[p] = pc[p] /\ link'[p] = link[p]
      /\ p \in computing /\ request'[p] = None /\ p \notin computing'
  BY <1>1, <1>2 DEF VerifyEnd, PowInv, Types, Each, Calling
<1>4. Due(p) = 1 /\ Due(p)' = 0
  BY <1>3, Names DEF Due, Calls
<1>5. a + 1 <= Batches /\ (link[p] = "open" /\ pc[p] = "hash" => a + 1 <= n + 1)
  BY <1>1, <1>2, <1>4 DEF Counted
<1>6. QED
  BY <1>1, <1>2, <1>3, <1>4, <1>5, SomeBatches DEF Counted

LEMMA CountAnswer ==
  ASSUME PowInv, NEW p \in Process, Counted(p),
         LogIn(p) \/ LogOut(p) \/ GetKey(p) \/ LogInSealed(p) \/ ProcessMsg01(p) \/ ProcessMsg3(p)
  PROVE  Counted(p)'
<1> USE DEF clientVars
<1>1. UNCHANGED answered /\ \E r : Answer(p, r)
  BY DEF LogIn, LogOut, GetKey, LogInSealed, ProcessMsg01, ProcessMsg3
<1>2. Due(p)' <= Due(p)
  <2>1. request'[p] = None /\ computing' = computing
    BY <1>1 DEF Answer, PowInv, Types
  <2>2. QED
    BY <2>1, Names DEF Due, Calls
<1>3. QED
  BY <1>1, <1>2, CountLess DEF Answer

LEMMA CountStepOf ==
  ASSUME PowInv, NEW p \in Process, Counted(p), StepOf(p)
  PROVE  Counted(p)'
<1> USE DEF clientVars, callVars, serverVars
<1>1. CASE Start(p) \/ Load(p)
  <2>1. /\ answered[p] = 0 /\ forwarded[p] = 0 /\ UNCHANGED <<answered, forwarded, computing>>
        /\ pc'[p] # "hash"
    <3>1. pc[p] \in First /\ UNCHANGED <<answered, forwarded, computing>>
      BY <1>1 DEF Start, Load, First
    <3>2. pc'[p] # "hash"
      BY <1>1 DEF Start, Load, Call, PowInv, Types
    <3>3. QED
      BY <3>1, <3>2 DEF PowInv, Each, Before
  <2>2. Due(p)' \in {0, 1}
    BY DEF Due
  <2>3. QED
    BY <2>1, <2>2, SomeBatches DEF Counted
<1>2. CASE LeaveRefused(p) \/ Seal(p) \/ WriteSealed(p)
  <2>1. UNCHANGED <<answered, forwarded, computing, request, link>> /\ pc'[p] # "hash"
    BY <1>2 DEF LeaveRefused, Leave, Seal, WriteSealed, PowInv, Types
  <2>2. Due(p)' <= Due(p)
    BY <2>1 DEF Due
  <2>3. QED
    BY <2>1, <2>2, CountLess
<1>3. CASE Kill(p) \/ LoseLink(p)
  <2>1. /\ UNCHANGED <<answered, forwarded, computing>> /\ link'[p] # "open"
        /\ pc'[p] \in {pc[p], "killed"} /\ request'[p] \in {request[p], None}
    BY <1>3 DEF Kill, LoseLink, PowInv, Types
  <2>2. Due(p)' <= Due(p)
    BY <2>1, Names DEF Due, Calls
  <2>3. QED
    BY <2>1, <2>2, CountLess
<1>4. CASE HashUntrusted(p) \/ VerifyBegin(p)
  <2>1. UNCHANGED <<answered, forwarded, pc, link>> /\ request[p] = "hash"
    BY <1>4 DEF HashUntrusted, VerifyBegin, Asked
  <2>2. Due(p)' <= Due(p)
    BY <2>1 DEF Due
  <2>3. QED
    BY <2>1, <2>2, CountLess
<1>5. QED
  BY <1>1, <1>2, <1>3, <1>4, CountReceive, CountVerify, CountAnswer DEF StepOf, ClientStep

LEMMA ServerTypesStep == PowInv /\ ServerTypes /\ [Next]_vars => ServerTypes'
<1> SUFFICES ASSUME PowInv, ServerTypes, [Next]_vars PROVE ServerTypes'
  OBVIOUS
<1> USE DEF ServerTypes, clientVars, callVars, serverVars
<1>1. CASE UNCHANGED <<current, up, restarts, clashed, computing>>
  BY <1>1
<1>2. ASSUME NEW p \in Process, StepOf(p) PROVE ServerTypes'
  <2>1. CASE LogInSealed(p) \/ ProcessMsg3(p)
    <3>1. UNCHANGED <<up, restarts, clashed, computing>>
      BY <2>1 DEF LogInSealed, ProcessMsg3, Answer
    <3>2. CASE UNCHANGED current
      BY <1>1, <3>1, <3>2
    <3>3. CASE sessions[Id[p]] \in trusted /\ current' = [current EXCEPT ![p] = sessions[Id[p]]]
      <4>1. sessions[Id[p]] \in Process
        BY <3>3 DEF PowInv, Types
      <4>2. QED
        BY <3>1, <3>3, <4>1
    <3>4. CASE current' = [current EXCEPT ![p] = p]
      BY <3>1, <3>4
    <3>5. QED
      BY <2>1, <3>2, <3>3, <3>4 DEF LogInSealed, ProcessMsg3
  <2>2. CASE VerifyBegin(p)
    BY <2>2 DEF VerifyBegin
  <2>3. CASE VerifyEnd(p)
    BY <2>3 DEF VerifyEnd
  <2>4. CASE Receive(p) \/ ReceiveFails(p)
    BY <1>1, <2>4, ReceiveGoes
  <2>5. QED
    BY <1>1, <1>2, <2>1, <2>2, <2>3, <2>4
       DEF StepOf, ClientStep, Start, Load, LeaveRefused, Seal, WriteSealed, Kill, LoseLink, LogIn,
           LogOut, GetKey, ProcessMsg01, Answer, HashUntrusted
<1>3. CASE Die
  BY <1>3, SomeBatches DEF Die
<1>4. CASE StartServer
  BY <1>4, SomeBatches DEF StartServer
<1>5. CASE UNCHANGED vars
  BY <1>1, <1>5 DEF vars
<1>6. QED
  BY <1>2, <1>3, <1>4, <1>5 DEF Next, StepOf, ThreadStep, HashThrows, Stop

LEMMA CountDie ==
  ASSUME PowInv, Die, NEW p \in Process, Counted(p)
  PROVE  Counted(p)'
<1>1. /\ UNCHANGED <<answered, forwarded, pc>> /\ link'[p] # "open" /\ request'[p] = None
      /\ p \notin computing'
  BY DEF Die, clientVars, PowInv, Types
<1>2. Due(p)' <= Due(p)
  BY <1>1, Names DEF Due, Calls
<1>3. QED
  BY <1>1, <1>2, CountLess

LEMMA CountStep == CountInv /\ [Next]_vars => CountInv'
<1> SUFFICES ASSUME CountInv, [Next]_vars PROVE CountInv'
  OBVIOUS
<1>1. PowInv /\ OwnInv' /\ ServerTypes'
  BY OwnStep, ServerTypesStep DEF CountInv, OwnInv
<1>2. ASSUME NEW p \in Process PROVE Counted(p)'
  <2>1. CASE \E q \in Process : StepOf(q)
    BY <1>1, <2>1, CountStepOf, CountUntouched, Apart DEF CountInv
  <2>2. CASE Die
    BY <1>1, <2>2, CountDie DEF CountInv
  <2>3. CASE StartServer \/ UNCHANGED vars
    BY <2>3 DEF StartServer, vars, clientVars, callVars, serverVars, CountInv, Counted, Due
  <2>4. QED
    BY <2>1, <2>2, <2>3 DEF Next, StepOf, ThreadStep, HashThrows, Stop
<1>3. QED
  BY <1>1, <1>2 DEF CountInv

(* What is sealed is the key the server has in the client's trusted session, whatever moment a
   process was killed at, while the server has not started again and every client keeps to its
   directory: only a client without a sealed key logs out and attests itself, and it seals the key
   of its own attestation (powClient.cpp:203-458, powServer.cpp:84-321).  The
   type invariant, with its bounds, is part of it. *)
THEOREM SealedAreServers == Spec => []SealedIsServers
<1>1. CountInv => SealedIsServers
  <2> SUFFICES ASSUME CountInv, OwnDirectory, up, restarts = 0, NEW p \in Process,
                      sealed[Dir[p]] \in Process
               PROVE  sessions[Id[p]] = sealed[Dir[p]] /\ sealed[Dir[p]] \in trusted
    BY CountedTypes DEF SealedIsServers
  <2>1. QED
    BY DEF CountInv, OwnInv, Own, SealedKey, MayHave, Has, Unbroken
<1>2. QED
  BY <1>1, CountInit, CountStep, PTL DEF Spec
=============================================================================
