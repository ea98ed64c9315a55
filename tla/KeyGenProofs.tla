---------------------------- MODULE KeyGenProofs ----------------------------
(***************************************************************************)
(* Key generation by the key server's enclave.  In the CTR mode, for any   *)
(* clients, batches, regions and slots, whatever clients are killed and    *)
(* whatever login comes between the steps of a batch: a client and the     *)
(* enclave have counted the same blocks between two batches, and fresh     *)
(* keys that pass the client's check are right, but for the ways in which  *)
(* the code gets them wrong.  In the CFB mode, for any clients and         *)
(* batches, whatever clients are killed: the key server counts its         *)
(* threads, and answers to each client that has its present session key    *)
(* what that client has asked.                                             *)
(***************************************************************************)
EXTENDS KeyGenCTR, KeyGenCFB, FiniteSetTheorems, SequenceTheorems, TLAPS

-----------------------------------------------------------------------------
(* The CTR mode: the invariant *)

Only(s) == s = <<Head(s)>>
Running == {d \in Clients : thread[d] # "none"}

\* c has the enclave's session key, and no login has cut through its batch
InStep(c) == clientEpoch[c] = epoch /\ c \notin torn

Shape ==
    /\ TypeOK
    /\ toServer = [c \in Clients |-> toServer[c]]
    /\ toClient = [c \in Clients |-> toClient[c]]
    /\ begun = [c \in Clients |-> begun[c]]
    /\ buffer = [c \in Clients |-> buffer[c]]

\* a thread that returns before it serves stays counted
Counted == Cardinality(Running) <= clientCount

\* a login adds up the entries there are, one after the other, and leaves no current counter
Unfolded ==
    /\ unfolded \subseteq Known /\ half \in unfolded \union {None}
    /\ (\A d \in Clients : thread[d] # "modify") => unfolded = {}
Folding(c) == thread[c] = "modify" /\ c \notin unfolded => info[c] = None \/ info[c].current = 0

\* the blocks that the client counts, or prepared ones
Good(c, sends) ==
    sends.prepared \/ sends.blocks = Stream(info[c].nonce, counter[c], 4 * sends.n, clientEpoch[c])

\* before the enclave has accepted the client's counter
Before(c) ==
    /\ state[c] \in {"off", "login"}
    /\ toServer[c] # << >> =>
          /\ Only(toServer[c])
          /\ Head(toServer[c]).nonce \in Nonces /\ Head(toServer[c]).counter \in Counters
          /\ Head(toServer[c]).epoch \in Epochs
    /\ thread[c] = "none" => toClient[c] = << >>
    /\ thread[c] = "modify" => toServer[c] # << >>
    /\ state[c] = "off" /\ toServer[c] # << >> => c \in strayed
    /\ state[c] = "login" =>
          \/ /\ toServer[c] = <<[nonce |-> nonce[c], counter |-> counter[c],
                                 epoch |-> clientEpoch[c]]>>
             /\ toClient[c] = << >>
          \/ toServer[c] = << >> /\ toClient[c] = <<"used">> /\ info[c] = None
          \/ toServer[c] = << >> /\ toClient[c] = <<"resend">>

\* the answer to a login is on its way
Answered(c) ==
    /\ thread[c] = "serve" /\ toServer[c] = << >>
    /\ \/ toClient[c] = <<"success">> /\ (InStep(c) => counter[c] = Total(c))
       \/ toClient[c] = <<"reset">> /\ (InStep(c) => Total(c) = 0)

\* a batch is with the key server, in the enclave, or answered
Sent(c) ==
    /\ thread[c] = "serve" /\ toServer[c] # << >> /\ toClient[c] = << >>
    /\ Head(toServer[c]).epoch = clientEpoch[c]
    /\ counter[c] + 4 * Head(toServer[c]).n <= MaxCounter
    /\ InStep(c) => counter[c] = Total(c)

Taken(c) ==
    /\ thread[c] \in {"read", "masked", "adding"} /\ toClient[c] = << >>
    /\ counter[c] + 4 * begun[c].n <= MaxCounter
    /\ InStep(c) =>
          /\ counter[c] = Total(c)
          /\ thread[c] # "masked" => half # c /\ begun[c].current = info[c].current
          /\ thread[c] # "read" => Good(c, begun[c].reply)

Replied(c) ==
    /\ thread[c] = "serve" /\ toServer[c] = << >> /\ toClient[c] # << >> /\ Only(toClient[c])
    /\ LET got == Head(toClient[c])
       IN  /\ got.n \in Batches /\ counter[c] + 4 * got.n <= MaxCounter
           /\ InStep(c) => counter[c] + 4 * got.n = Total(c) /\ Good(c, got)

\* once it has
After(c) ==
    /\ info[c] # None
    /\ toServer[c] # << >> =>
          thread[c] = "serve" /\ Only(toServer[c]) /\ Head(toServer[c]).n \in Batches
    /\ thread[c] # "serve" =>
          /\ begun[c].n \in Batches /\ begun[c].current \in Nat
          /\ thread[c] # "read" => begun[c].reply.n = begun[c].n
    /\ state[c] # "off" => clientEpoch[c] <= epoch
    /\ state[c] = "login" => Answered(c)
    /\ state[c] \in {"ready", "stuck"} =>
          thread[c] = "serve" /\ toServer[c] = << >> /\ toClient[c] = << >>
    /\ state[c] = "ready" => (InStep(c) => counter[c] = Total(c))
    /\ state[c] = "wait" => Sent(c) \/ Taken(c) \/ Replied(c)

Talks(c) == IF thread[c] \in {"none", "init", "modify"} THEN Before(c) ELSE After(c)

\* the enclave has the nonce that the client has, or will have
NonceKept(c) ==
    c \notin strayed =>
        IF state[c] # "off" THEN info[c] # None => info[c].nonce = nonce[c]
        ELSE IF stored[c] = None THEN info[c] = None
        ELSE info[c] # None => info[c].nonce = stored[c].nonce

Wrongs(c) ==
    result[c] = "wrong" =>
        /\ thread[c] \notin {"none", "init", "modify"} /\ state[c] \in {"ready", "wait", "stuck"}
        /\ c \in torn \/ clientEpoch[c] # epoch \/ (c \in strayed /\ info[c].nonce # nonce[c])

CounterInv ==
    /\ Shape /\ Counted /\ Unfolded
    /\ \A c \in Clients : Folding(c) /\ Talks(c) /\ NonceKept(c) /\ Wrongs(c)

-----------------------------------------------------------------------------

LEMMA Queue ==
  ASSUME NEW m
  PROVE  /\ Append(<< >>, m) = <<m>> /\ Head(<<m>>) = m /\ Tail(<<m>>) = << >>
         /\ <<m>> # << >> /\ Only(<<m>>)
<1>1. Append(<< >>, m) = <<m>>
  OBVIOUS
<1>2. Tail(<<m>>) = << >>
  OBVIOUS
<1>3. Head(<<m>>) = m /\ <<m>> # << >>
  OBVIOUS
<1>4. QED
  BY <1>1, <1>2, <1>3 DEF Only

LEMMA OnlyTail ==
  ASSUME NEW s, Only(s)
  PROVE  Tail(s) = << >>
BY Queue DEF Only

LEMMA Fields ==
  ASSUME Shape, NEW c \in Clients
  PROVE  /\ info[c] # None => /\ info[c] \in Infos /\ info[c].nonce \in Nonces
                              /\ info[c].previous \in Nat /\ info[c].current \in Nat
                              /\ info[c].offline \in BOOLEAN /\ info[c].slot \in 1 .. Slots
                              /\ Total(c) \in Nat
         /\ counter[c] \in Nat /\ counter[c] <= MaxCounter
         /\ clientEpoch[c] \in Nat /\ epoch \in Nat
BY KeyGenCTRAssumption DEF Shape, TypeOK, Infos, Total, Counters, Epochs

LEMMA CounterInit == Init => CounterInv
<1> SUFFICES ASSUME Init PROVE CounterInv
  OBVIOUS
<1> USE KeyGenCTRAssumption
<1>1. 0 \in Counters /\ 0 \in Epochs /\ 0 \in Nonces
  BY DEF Counters, Epochs, Nonces
<1>2. Shape
  BY <1>1 DEF Init, Shape, TypeOK
<1>3. Running = {}
  BY DEF Init, Running
<1>4. Counted
  BY <1>3, FS_EmptySet DEF Init, Counted
<1>5. Unfolded
  BY DEF Init, Unfolded
<1>6. ASSUME NEW c \in Clients
      PROVE  Folding(c) /\ Talks(c) /\ NonceKept(c) /\ Wrongs(c)
  BY DEF Init, Folding, Talks, Before, NonceKept, Wrongs
<1>7. QED
  BY <1>2, <1>4, <1>5, <1>6 DEF CounterInv

-----------------------------------------------------------------------------
(* What the enclave's calls make of the entries of the clients *)

\* one field of an entry is written
LEMMA Written ==
  ASSUME Shape, NEW c \in Clients, info[c] # None, NEW x \in Nat
  PROVE  /\ LET new == [info EXCEPT ![c].current = x]
            IN  /\ new \in [Clients -> Infos \cup {None}]
                /\ new[c] # None /\ new[c].current = x /\ new[c].previous = info[c].previous
                /\ new[c].nonce = info[c].nonce
                /\ \A d \in Clients \ {c} : new[d] = info[d]
         /\ LET new == [info EXCEPT ![c].previous = x]
            IN  /\ new \in [Clients -> Infos \cup {None}]
                /\ new[c] # None /\ new[c].previous = x /\ new[c].current = info[c].current
                /\ new[c].nonce = info[c].nonce
                /\ \A d \in Clients \ {c} : new[d] = info[d]
<1>1. /\ info \in [Clients -> Infos \cup {None}] /\ info[c] \in Infos
      /\ info[c].nonce \in Nonces
      /\ info[c].previous \in Nat /\ info[c].current \in Nat
      /\ info[c].offline \in BOOLEAN /\ info[c].slot \in 1 .. Slots
  BY Fields DEF Shape, TypeOK
<1>2. DEFINE here  == [info[c] EXCEPT !.current = x]
             there == [info[c] EXCEPT !.previous = x]
<1>3. /\ [info EXCEPT ![c].current = x] = [info EXCEPT ![c] = here]
      /\ [info EXCEPT ![c].previous = x] = [info EXCEPT ![c] = there]
  OBVIOUS
<1>4. /\ here = [nonce |-> info[c].nonce, previous |-> info[c].previous, current |-> x,
                 offline |-> info[c].offline, slot |-> info[c].slot]
      /\ there = [nonce |-> info[c].nonce, previous |-> x, current |-> info[c].current,
                  offline |-> info[c].offline, slot |-> info[c].slot]
  BY <1>1 DEF Infos
<1>5. here \in Infos /\ there \in Infos
  BY <1>1, <1>4 DEF Infos
<1>6. here # None /\ there # None
  BY <1>5, KeyGenCTRAssumption
<1>7. /\ here.current = x /\ here.previous = info[c].previous /\ here.nonce = info[c].nonce
      /\ there.previous = x /\ there.current = info[c].current /\ there.nonce = info[c].nonce
  BY <1>4
<1> HIDE DEF here, there
<1>8. /\ [info EXCEPT ![c] = here] \in [Clients -> Infos \cup {None}]
      /\ [info EXCEPT ![c] = there] \in [Clients -> Infos \cup {None}]
      /\ [info EXCEPT ![c] = here][c] = here /\ [info EXCEPT ![c] = there][c] = there
      /\ \A d \in Clients \ {c} : /\ [info EXCEPT ![c] = here][d] = info[d]
                                  /\ [info EXCEPT ![c] = there][d] = info[d]
  BY <1>1, <1>5
<1>9. QED
  BY <1>3, <1>6, <1>7, <1>8

\* a login that passes the hmac
LEMMA Accepts ==
  ASSUME Shape, NEW c \in Clients, info[c] = None \/ info[c].current = 0,
         NEW m, m.nonce \in Nonces, m.counter \in Nat
  PROVE  LET after == InfoAfter(c, m)
         IN  \/ Answer(c, m) = "used" /\ info[c] = None /\ after = None
             \/ /\ after \in Infos /\ after # None
                /\ info[c] = None \/ Answer(c, m) = "reset" => after.nonce = m.nonce
                /\ info[c] # None /\ Answer(c, m) = "success" => after = info[c]
                /\ \/ Answer(c, m) = "success" /\ after.previous + after.current = m.counter
                   \/ /\ Answer(c, m) = "reset"
                      /\ after.previous = 0 /\ after.current = 0
<1> DEFINE new(s) == [nonce |-> m.nonce, previous |-> 0, current |-> 0, offline |-> FALSE,
                      slot |-> s]
<1>1. ASSUME NEW s \in 1 .. Slots PROVE new(s) \in Infos /\ new(s) # None
  <2>1. new(s) \in Infos
    BY DEF Infos
  <2>2. QED
    BY <2>1, KeyGenCTRAssumption
<1>2. 1 \in 1 .. Slots
  BY KeyGenCTRAssumption
<1>3. CASE info[c] = None /\ Used(c, m.nonce)
  <2>1. Answer(c, m) = "used"
    BY <1>3 DEF Answer
  <2>2. InfoAfter(c, m) = None
    BY <1>3, <2>1 DEF InfoAfter
  <2>3. QED
    BY <1>3, <2>1, <2>2
<1>4. CASE info[c] = None /\ ~Used(c, m.nonce)
  <2>1. InfoAfter(c, m) = new(1) /\ Answer(c, m) = IF m.counter = 0 THEN "success" ELSE "reset"
    BY <1>4 DEF Answer, InfoAfter
  <2>2. QED
    BY <1>1, <1>2, <1>4, <2>1
<1>5. CASE info[c] # None /\ info[c].previous = m.counter
  <2>1. InfoAfter(c, m) = info[c] /\ Answer(c, m) = "success"
    BY <1>5 DEF Answer, InfoAfter
  <2>2. QED
    BY <1>5, <2>1, Fields
<1>6. CASE info[c] # None /\ info[c].previous # m.counter
  <2>1. InfoAfter(c, m) = [new(1) EXCEPT !.slot = info[c].slot] /\ Answer(c, m) = "reset"
    BY <1>6 DEF Answer, InfoAfter
  <2>2. InfoAfter(c, m) = new(info[c].slot) /\ info[c].slot \in 1 .. Slots
    BY <1>6, <2>1, Fields
  <2>3. QED
    BY <1>1, <1>6, <2>1, <2>2
<1>7. QED
  BY <1>3, <1>4, <1>5, <1>6

\* the masks are prepared
LEMMA Generates ==
  ASSUME Shape, GenerateMasks, NEW c \in Clients
  PROVE  \/ info'[c] = info[c]
         \/ /\ info[c] # None /\ info'[c] \in Infos /\ info'[c] # None
            /\ info'[c].nonce = info[c].nonce
            /\ info'[c].previous = info[c].previous /\ info'[c].current = info[c].current
<1>1. PICK chosen \in SUBSET Known : \E slotOf \in [chosen -> 1 .. Slots] :
         info' = [d \in Clients |->
                IF d \in chosen THEN [info[d] EXCEPT !.offline = TRUE, !.slot = slotOf[d]]
                ELSE info[d]]
  BY Zenon DEF GenerateMasks
<1>2. PICK slotOf \in [chosen -> 1 .. Slots] :
         info' = [d \in Clients |->
                IF d \in chosen THEN [info[d] EXCEPT !.offline = TRUE, !.slot = slotOf[d]]
                ELSE info[d]]
  BY <1>1
<1>3. CASE c \notin chosen
  BY <1>2, <1>3
<1>4. CASE c \in chosen
  <2>1. info[c] # None /\ slotOf[c] \in 1 .. Slots
    BY <1>2, <1>4 DEF Known
  <2>2. info'[c] = [info[c] EXCEPT !.offline = TRUE, !.slot = slotOf[c]]
    BY <1>2, <1>4
  <2>3. info[c] \in Infos
    BY <2>1, Fields
  <2>4. info'[c] \in Infos
    BY <2>1, <2>2, <2>3 DEF Infos
  <2>5. /\ info'[c].nonce = info[c].nonce
        /\ info'[c].previous = info[c].previous /\ info'[c].current = info[c].current
    BY <2>1, <2>2, <2>3 DEF Infos
  <2>6. QED
    BY <2>1, <2>4, <2>5, KeyGenCTRAssumption
<1>5. QED
  BY <1>3, <1>4

LEMMA MasksTyped ==
  ASSUME Shape, GenerateMasks
  PROVE  /\ info' \in [Clients -> Infos \cup {None}]
         /\ masks' \in [1 .. Slots -> Masks \cup {None}]
<1>1. PICK chosen \in SUBSET Known : \E slotOf \in [chosen -> 1 .. Slots] :
         /\ info' = [d \in Clients |->
                IF d \in chosen THEN [info[d] EXCEPT !.offline = TRUE, !.slot = slotOf[d]]
                ELSE info[d]]
         /\ masks' = [s \in 1 .. Slots |->
                IF \E d \in chosen : slotOf[d] = s THEN Mask(CHOOSE d \in chosen : slotOf[d] = s)
                ELSE masks[s]]
  BY Zenon DEF GenerateMasks
<1>2. PICK slotOf \in [chosen -> 1 .. Slots] :
         /\ info' = [d \in Clients |->
                IF d \in chosen THEN [info[d] EXCEPT !.offline = TRUE, !.slot = slotOf[d]]
                ELSE info[d]]
         /\ masks' = [s \in 1 .. Slots |->
                IF \E d \in chosen : slotOf[d] = s THEN Mask(CHOOSE d \in chosen : slotOf[d] = s)
                ELSE masks[s]]
  BY <1>1
<1>3. \A d \in Clients : info'[d] \in Infos \cup {None}
  BY Generates DEF Shape, TypeOK
<1>4. ASSUME NEW d \in chosen PROVE Mask(d) \in Masks
  <2>1. d \in Clients /\ info[d] # None
    BY DEF Known
  <2>2. info[d].nonce \in Nonces /\ info[d].previous + info[d].current \in Nat
    BY <2>1, Fields
  <2>3. QED
    BY <2>2 DEF Mask, Masks, Shape, TypeOK
<1>5. ASSUME NEW s \in 1 .. Slots PROVE masks'[s] \in Masks \cup {None}
  <2>1. CASE \E d \in chosen : slotOf[d] = s
    <3>1. (CHOOSE d \in chosen : slotOf[d] = s) \in chosen
      BY <2>1
    <3>2. QED
      BY <1>2, <1>4, <2>1, <3>1
  <2>2. CASE ~\E d \in chosen : slotOf[d] = s
    BY <1>2, <2>2 DEF Shape, TypeOK
  <2>3. QED
    BY <2>1, <2>2
<1>6. QED
  BY <1>2, <1>3, <1>5

-----------------------------------------------------------------------------
(* The count of the threads *)

LEMMA FiniteRunning ==
  ASSUME NEW S \in SUBSET Clients
  PROVE  IsFiniteSet(S) /\ Cardinality(S) \in Nat
BY KeyGenCTRAssumption, FS_Subset, FS_CardinalityType

\* with a thread for a client, something is counted
LEMMA SomeCounted ==
  ASSUME Shape, Counted, NEW c \in Clients, thread[c] # "none"
  PROVE  clientCount >= 1
<1>1. Running \in SUBSET Clients /\ IsFiniteSet(Running) /\ Cardinality(Running) \in Nat
  BY FiniteRunning DEF Running
<1>2. c \in Running
  BY DEF Running
<1>3. Cardinality(Running) # 0
  BY <1>1, <1>2, FS_EmptySet
<1>4. QED
  BY <1>1, <1>3 DEF Counted, Shape, TypeOK

\* a thread goes on to serve, or returns and is counted down
LEMMA ThreadCountedOn ==
  ASSUME Shape, Counted, NEW c \in Clients, NEW t, thread[c] # "none",
         thread' = [thread EXCEPT ![c] = t], clientCount' \in {clientCount, clientCount - 1},
         clientCount' = clientCount \/ t = "none"
  PROVE  Counted' /\ clientCount' \in Nat
<1>1. Running \in SUBSET Clients /\ IsFiniteSet(Running) /\ Cardinality(Running) \in Nat
  BY FiniteRunning DEF Running
<1>2. c \in Running /\ clientCount \in Nat /\ clientCount >= 1
  BY SomeCounted DEF Running, Shape, TypeOK
<1>3. CASE t = "none"
  <2>1. Running' = Running \ {c}
    BY <1>3 DEF Running, Shape, TypeOK
  <2>2. Cardinality(Running') = Cardinality(Running) - 1
    BY <1>1, <1>2, <2>1, FS_RemoveElement
  <2>3. QED
    BY <1>1, <1>2, <2>2 DEF Counted
<1>4. CASE t # "none"
  <2>1. Running' = Running
    BY <1>4 DEF Running, Shape, TypeOK
  <2>2. QED
    BY <1>2, <1>4, <2>1 DEF Counted
<1>5. QED
  BY <1>3, <1>4

LEMMA CountedNext ==
  ASSUME Shape, Counted, [Next]_vars
  PROVE  Counted' /\ clientCount' \in Nat
<1>1. Running \in SUBSET Clients /\ IsFiniteSet(Running) /\ Cardinality(Running) \in Nat
  BY FiniteRunning DEF Running
<1>2. clientCount \in Nat
  BY DEF Shape, TypeOK
<1>3. ASSUME NEW c \in Clients, ThreadStarts(c) PROVE Counted' /\ clientCount' \in Nat
  <2>1. Running' = Running \cup {c} /\ c \notin Running
    BY <1>3 DEF ThreadStarts, Moves, Running, Shape, TypeOK
  <2>2. Cardinality(Running') = Cardinality(Running) + 1
    BY <1>1, <2>1, FS_AddElement
  <2>3. clientCount' = clientCount + 1
    BY <1>3 DEF ThreadStarts
  <2>4. QED
    BY <1>1, <1>2, <2>2, <2>3 DEF Counted
<1>4. ASSUME NEW c \in Clients, ModifyBegins(c) \/ TakeRequest(c) \/ TakeReply(c)
      PROVE  Counted' /\ clientCount' \in Nat
  BY <1>4, ThreadCountedOn DEF ModifyBegins, TakeRequest, TakeReply, Moves
<1>5. ASSUME NEW c \in Clients, ModifyStatus(c) PROVE Counted' /\ clientCount' \in Nat
  <2>1. thread[c] # "none" /\ clientCount' = clientCount
    BY <1>5 DEF ModifyStatus
  <2>2. PICK t : thread' = [thread EXCEPT ![c] = t]
    BY <1>5 DEF ModifyStatus
  <2>3. QED
    BY <2>1, <2>2, ThreadCountedOn
<1>6. ASSUME NEW c \in Clients, BeginKeys(c) PROVE Counted' /\ clientCount' \in Nat
  BY <1>6, ThreadCountedOn DEF BeginKeys, Asks
<1>7. ASSUME NEW c \in Clients, NEW sends, Replies(c, sends), thread[c] # "none"
      PROVE  Counted' /\ clientCount' \in Nat
  BY <1>7, ThreadCountedOn DEF Replies
<1>8. ASSUME NEW c \in Clients, RefuseKeys(c) \/ EndKeys(c) PROVE Counted' /\ clientCount' \in Nat
  BY <1>7, <1>8 DEF RefuseKeys, EndKeys, Asks
<1>9. ASSUME NEW c \in Clients, ThreadEnds(c) PROVE Counted' /\ clientCount' \in Nat
  <2>1. clientCount' \in {clientCount, clientCount - 1}
    BY <1>9 DEF ThreadEnds
  <2>2. QED
    BY <1>9, <2>1, ThreadCountedOn DEF ThreadEnds
<1>10. ASSUME thread' = thread /\ clientCount' = clientCount PROVE Counted' /\ clientCount' \in Nat
  BY <1>2, <1>10 DEF Counted, Running
<1>11. ASSUME NEW c \in Clients, Start(c) \/ ClientStep(c) \/ Kill(c) \/ FoldAdds(c) \/ FoldClears(c)
       PROVE  thread' = thread /\ clientCount' = clientCount
  BY <1>11 DEF Start, ClientStep, Kill, LoggedIn, SentBack, ReceiveKeys, Finish, SendHashes,
     ProcessEnds, FoldAdds, FoldClears, serverVars
<1>12. ClaimMasks \/ GenerateMasks => thread' = thread /\ clientCount' = clientCount
  BY Zenon DEF ClaimMasks, GenerateMasks
<1>13. UpdateKey \/ Attest \/ UNCHANGED vars => thread' = thread /\ clientCount' = clientCount
  BY DEF UpdateKey, Attest, vars, serverVars
<1>14. QED
  BY <1>3, <1>4, <1>5, <1>6, <1>8, <1>9, <1>10, <1>11, <1>12, <1>13 DEF Next, ThreadStep

\* the key server attests when it has no threads
LEMMA NoThreads ==
  ASSUME Shape, Counted, Attest, NEW c \in Clients
  PROVE  thread[c] = "none"
BY SomeCounted DEF Attest

-----------------------------------------------------------------------------
(* A login goes through the entries *)

LEMMA Adds ==
  ASSUME CounterInv, NEW d \in Clients, FoldAdds(d)
  PROVE  \E e \in unfolded :
            /\ e \in Clients /\ info[e] # None /\ half = None /\ half' = e
            /\ info' \in [Clients -> Infos \cup {None}] /\ info'[e] # None
            /\ info'[e].previous = Total(e) /\ info'[e].current = info[e].current
            /\ info'[e].nonce = info[e].nonce
            /\ \A c \in Clients \ {e} : info'[c] = info[c]
            /\ torn' = IF thread[e] \in {"read", "adding"} THEN torn \union {e} ELSE torn
<1>1. PICK e \in unfolded :
         /\ info' = [info EXCEPT ![e].previous = @ + info[e].current]
         /\ half' = e
         /\ torn' = IF thread[e] \in {"read", "adding"} THEN torn \union {e} ELSE torn
  BY DEF FoldAdds
<1>2. e \in Clients /\ info[e] # None /\ half = None
  BY DEF CounterInv, Unfolded, Known, FoldAdds
<1>3. PICK x \in Nat : x = Total(e) /\ x = info[e].previous + info[e].current
  BY <1>2, Fields, KeyGenCTRAssumption DEF CounterInv, Total
<1>4. info' = [info EXCEPT ![e].previous = x]
  BY <1>1, <1>3
<1>5. Shape
  BY DEF CounterInv
<1>6. /\ info' \in [Clients -> Infos \cup {None}] /\ info'[e] # None
      /\ info'[e].previous = x /\ info'[e].current = info[e].current
      /\ info'[e].nonce = info[e].nonce
      /\ \A c \in Clients \ {e} : info'[c] = info[c]
  BY <1>2, <1>4, <1>5, Written
<1>7. QED
  BY <1>1, <1>2, <1>3, <1>6

LEMMA Clears ==
  ASSUME CounterInv, NEW d \in Clients, FoldClears(d)
  PROVE  /\ half \in unfolded /\ half \in Clients /\ info[half] # None /\ half' = None
         /\ info' \in [Clients -> Infos \cup {None}] /\ info'[half] # None
         /\ info'[half].previous = info[half].previous /\ info'[half].current = 0
         /\ info'[half].nonce = info[half].nonce
         /\ \A c \in Clients \ {half} : info'[c] = info[c]
<1>1. half \in unfolded /\ half \in Clients /\ info[half] # None /\ half' = None
  BY DEF CounterInv, FoldClears, Unfolded, Known
<1>2. info' = [info EXCEPT ![half].current = 0]
  BY DEF FoldClears
<1>3. QED
  BY <1>1, <1>2, Written DEF CounterInv

\* the batch is counted
LEMMA Counts ==
  ASSUME CounterInv, NEW c \in Clients, EndKeys(c)
  PROVE  /\ info[c] # None /\ info' \in [Clients -> Infos \cup {None}] /\ info'[c] # None
         /\ info'[c].previous = info[c].previous /\ info'[c].nonce = info[c].nonce
         /\ info'[c].current = begun[c].current + 4 * begun[c].n
         /\ begun[c].n \in Nat /\ begun[c].current \in Nat
         /\ \A d \in Clients \ {c} : info'[d] = info[d]
<1>1. /\ info[c] # None /\ begun[c].n \in Nat /\ begun[c].current \in Nat
  BY KeyGenCTRAssumption DEF CounterInv, EndKeys, Talks, After
<1>2. PICK x \in Nat : x = begun[c].current + 4 * begun[c].n
  BY <1>1
<1>3. info' = [info EXCEPT ![c].current = x]
  BY <1>2 DEF EndKeys, UsedBy
<1>4. Shape
  BY DEF CounterInv
<1>5. /\ info' \in [Clients -> Infos \cup {None}] /\ info'[c] # None
      /\ info'[c].current = x /\ info'[c].previous = info[c].previous
      /\ info'[c].nonce = info[c].nonce
      /\ \A d \in Clients \ {c} : info'[d] = info[d]
  BY <1>1, <1>3, <1>4, Written
<1>6. QED
  BY <1>1, <1>2, <1>5

LEMMA UnfoldedNext ==
  ASSUME CounterInv, [Next]_vars
  PROVE  Unfolded' /\ \A c \in Clients : Folding(c)'
<1> USE DEF CounterInv
<1>1. ASSUME NEW d \in Clients, ModifyBegins(d) PROVE Unfolded' /\ \A c \in Clients : Folding(c)'
  <2>1. unfolded = {} /\ half = None
    BY <1>1 DEF ModifyBegins, Unfolded
  <2>2. /\ unfolded' = Known /\ info' = info /\ half' = half /\ Known' = Known
        /\ thread' = [thread EXCEPT ![d] = "modify"]
    BY <1>1 DEF ModifyBegins, Moves, Known
  <2>3. thread'[d] = "modify"
    BY <2>2 DEF Shape, TypeOK
  <2>4. QED
    BY <2>1, <2>2, <2>3 DEF Unfolded, Folding, Known
<1>2. ASSUME NEW d \in Clients, FoldAdds(d) PROVE Unfolded' /\ \A c \in Clients : Folding(c)'
  <2>1. PICK e \in unfolded :
           /\ half' = e /\ e \in Clients /\ info[e] # None /\ info'[e] # None
           /\ info'[e].current = info[e].current
           /\ \A c \in Clients \ {e} : info'[c] = info[c]
    BY <1>2, Adds
  <2>5. unfolded' = unfolded /\ thread' = thread /\ Known' = Known
    BY <1>2, <2>1 DEF FoldAdds, serverVars, Known
  <2>6. QED
    BY <2>1, <2>5 DEF Unfolded, Folding
<1>3. ASSUME NEW d \in Clients, FoldClears(d) PROVE Unfolded' /\ \A c \in Clients : Folding(c)'
  <2>1. /\ half \in unfolded /\ info[half] # None
        /\ info'[half] # None /\ info'[half].current = 0
        /\ \A c \in Clients \ {half} : info'[c] = info[c]
    BY <1>3, Clears
  <2>3. thread[d] = "modify" /\ half \in Clients
    BY <1>3, Clears DEF FoldClears
  <2>4. unfolded' = unfolded \ {half} /\ half' = None /\ thread' = thread /\ Known' = Known
    BY <1>3, <2>1 DEF FoldClears, serverVars, Known
  <2>5. QED
    BY <2>1, <2>3, <2>4 DEF Unfolded, Folding
<1>4. ASSUME NEW d \in Clients, ModifyStatus(d) PROVE Unfolded' /\ \A c \in Clients : Folding(c)'
  <2>1. unfolded = {} /\ half = None /\ unfolded' = unfolded /\ half' = half
    BY <1>4 DEF ModifyStatus, Unfolded
  <2>2. thread'[d] # "modify"
    BY <1>4 DEF ModifyStatus, Shape, TypeOK
  <2>3. \A c \in Clients \ {d} : thread'[c] = thread[c] /\ info'[c] = info[c]
    BY <1>4 DEF ModifyStatus, Shape, TypeOK
  <2>4. QED
    BY <2>1, <2>2, <2>3 DEF Unfolded, Folding
<1>5. ASSUME NEW d \in Clients, EndKeys(d) PROVE Unfolded' /\ \A c \in Clients : Folding(c)'
  <2>1. /\ info[d] # None /\ info'[d] # None /\ thread[d] = "adding"
        /\ \A c \in Clients \ {d} : info'[c] = info[c]
    BY <1>5, Counts DEF EndKeys
  <2>4. /\ unfolded' = unfolded /\ half' = half
        /\ thread'[d] # "modify" /\ \A c \in Clients \ {d} : thread'[c] = thread[c]
    BY <1>5 DEF EndKeys, Replies, Shape, TypeOK
  <2>5. Known' = Known
    BY <2>1 DEF Known
  <2>6. QED
    BY <2>1, <2>4, <2>5 DEF Unfolded, Folding
<1>6. ASSUME NEW d \in Clients, ThreadStarts(d) \/ BeginKeys(d) \/ RefuseKeys(d) \/ TakeRequest(d)
                                \/ TakeReply(d) \/ ThreadEnds(d)
      PROVE  Unfolded' /\ \A c \in Clients : Folding(c)'
  <2>1. unfolded' = unfolded /\ half' = half /\ info' = info
    BY <1>6 DEF ThreadStarts, BeginKeys, RefuseKeys, TakeRequest, TakeReply, ThreadEnds, enclaveVars
  <2>2. thread[d] # "modify" /\ thread'[d] # "modify"
    BY <1>6 DEF ThreadStarts, BeginKeys, RefuseKeys, TakeRequest, TakeReply, ThreadEnds, Moves,
       Replies, Asks, Shape, TypeOK
  <2>3. \A c \in Clients \ {d} : thread'[c] = thread[c]
    BY <1>6 DEF ThreadStarts, BeginKeys, RefuseKeys, TakeRequest, TakeReply, ThreadEnds, Moves,
       Replies, Shape, TypeOK
  <2>4. QED
    BY <2>1, <2>2, <2>3 DEF Unfolded, Folding, Known
<1>7. ASSUME UNCHANGED <<thread, info, unfolded, half>> PROVE Unfolded' /\ \A c \in Clients : Folding(c)'
  BY <1>7 DEF Unfolded, Folding, Known
<1>8. ASSUME NEW c \in Clients, Start(c) \/ ClientStep(c) \/ Kill(c)
      PROVE  UNCHANGED <<thread, info, unfolded, half>>
  BY <1>8 DEF Start, ClientStep, Kill, LoggedIn, SentBack, ReceiveKeys, Finish, SendHashes,
     ProcessEnds, serverVars, enclaveVars
<1>9. ClaimMasks \/ UpdateKey \/ UNCHANGED vars => UNCHANGED <<thread, info, unfolded, half>>
  BY DEF ClaimMasks, UpdateKey, vars, serverVars, enclaveVars
<1>10. ASSUME GenerateMasks PROVE Unfolded' /\ \A c \in Clients : Folding(c)'
  <2>1. UNCHANGED <<thread, unfolded, half>>
    BY <1>10, Zenon DEF GenerateMasks
  <2>2. \A c \in Clients : /\ info'[c] = None <=> info[c] = None
                           /\ info[c] # None => info'[c].current = info[c].current
    BY <1>10, Generates
  <2>3. Known' = Known
    BY <2>2 DEF Known
  <2>4. QED
    BY <2>1, <2>2, <2>3 DEF Unfolded, Folding
<1>11. ASSUME Attest PROVE Unfolded' /\ \A c \in Clients : Folding(c)'
  <2>1. \A c \in Clients : thread[c] = "none"
    BY <1>11, NoThreads
  <2>2. UNCHANGED <<thread, unfolded, half>>
    BY <1>11 DEF Attest, serverVars
  <2>3. QED
    BY <2>1, <2>2 DEF Unfolded, Folding
<1>12. QED
  BY <1>1, <1>2, <1>3, <1>4, <1>5, <1>6, <1>7, <1>8, <1>9, <1>10, <1>11 DEF Next, ThreadStep

-----------------------------------------------------------------------------
(* Types *)

\* a login's answer, and what it leaves of the entry
LEMMA Modifies ==
  ASSUME CounterInv, NEW c \in Clients, ModifyStatus(c)
  PROVE  LET m     == Head(toServer[c])
             tells == IF m.epoch = epoch THEN Answer(c, m) ELSE "resend"
         IN  /\ toServer[c] = <<m>> /\ m.nonce \in Nonces /\ m.counter \in Counters
             /\ state[c] = "login" => /\ toClient[c] = << >> /\ m.nonce = nonce[c]
                                      /\ m.counter = counter[c] /\ m.epoch = clientEpoch[c]
             /\ state[c] \in {"off", "login"} /\ (state[c] = "off" => c \in strayed)
             /\ half = None /\ half' = None
             /\ toServer'[c] = << >> /\ toClient'[c] = Append(toClient[c], tells)
             /\ info' \in [Clients -> Infos \cup {None}]
             /\ \/ tells = "resend" /\ thread'[c] = "init" /\ info'[c] = info[c]
                \/ tells = "used" /\ thread'[c] = "init" /\ info[c] = None /\ info'[c] = None
                \/ /\ tells \in {"success", "reset"} /\ m.epoch = epoch
                   /\ thread'[c] = "serve" /\ info'[c] # None
                   /\ info[c] = None \/ tells = "reset" => info'[c].nonce = m.nonce
                   /\ info[c] # None /\ tells = "success" => info'[c] = info[c]
                   /\ tells = "success" => info'[c].previous + info'[c].current = m.counter
                   /\ tells = "reset" => info'[c].previous = 0 /\ info'[c].current = 0
<1> DEFINE m     == Head(toServer[c])
           tells == IF m.epoch = epoch THEN Answer(c, m) ELSE "resend"
<1>1. Shape /\ Folding(c) /\ Unfolded /\ Before(c) /\ thread[c] = "modify" /\ unfolded = {}
  BY DEF CounterInv, ModifyStatus, Talks
<1>2. /\ toServer[c] = <<m>> /\ Only(toServer[c]) /\ m.nonce \in Nonces /\ m.counter \in Counters
      /\ state[c] \in {"off", "login"} /\ (state[c] = "off" => c \in strayed)
  BY <1>1 DEF Before, Only
<1>3. state[c] = "login" => /\ toClient[c] = << >> /\ m.nonce = nonce[c]
                            /\ m.counter = counter[c] /\ m.epoch = clientEpoch[c]
  <2>1. SUFFICES ASSUME state[c] = "login"
                 PROVE  /\ toClient[c] = << >> /\ m.nonce = nonce[c]
                        /\ m.counter = counter[c] /\ m.epoch = clientEpoch[c]
    OBVIOUS
  <2>2. toServer[c] = <<[nonce |-> nonce[c], counter |-> counter[c], epoch |-> clientEpoch[c]]>>
        /\ toClient[c] = << >>
    BY <1>1, <2>1 DEF Before
  <2>3. m = [nonce |-> nonce[c], counter |-> counter[c], epoch |-> clientEpoch[c]]
    BY <2>2
  <2>4. QED
    BY <2>2, <2>3
<1>4. half = None /\ half' = None
  BY <1>1 DEF Unfolded, ModifyStatus
<1>5. /\ toServer'[c] = << >> /\ toClient'[c] = Append(toClient[c], tells)
      /\ thread'[c] = IF tells \in {"resend", "used"} THEN "init" ELSE "serve"
      /\ info' = [info EXCEPT ![c] = IF tells = "resend" THEN info[c] ELSE InfoAfter(c, m)]
  <2>1. /\ toServer'[c] = Tail(toServer[c]) /\ toClient'[c] = Append(toClient[c], tells)
        /\ thread'[c] = IF tells \in {"resend", "used"} THEN "init" ELSE "serve"
        /\ info' = [info EXCEPT ![c] = IF tells = "resend" THEN info[c] ELSE InfoAfter(c, m)]
    BY <1>1 DEF ModifyStatus, Shape, TypeOK
  <2>2. QED
    BY <1>2, <2>1, OnlyTail
<1>6. info[c] = None \/ info[c].current = 0
  BY <1>1 DEF Folding
<1>7. m.counter \in Nat
  BY <1>2, KeyGenCTRAssumption DEF Counters
<1>8. info \in [Clients -> Infos \cup {None}]
  BY <1>1 DEF Shape, TypeOK
<1> HIDE DEF m
<1>9. CASE m.epoch # epoch
  <2>1. tells = "resend"
    BY <1>9
  <2>2. info' = info
    BY <1>5, <1>8, <2>1
  <2>3. QED
    BY <1>2, <1>3, <1>4, <1>5, <1>8, <2>1, <2>2 DEF m
<1>10. CASE m.epoch = epoch
  <2>1. tells = Answer(c, m)
    BY <1>10
  <2> DEFINE after == InfoAfter(c, m)
  <2>2. \/ Answer(c, m) = "used" /\ info[c] = None /\ after = None
        \/ /\ after \in Infos /\ after # None
           /\ info[c] = None \/ Answer(c, m) = "reset" => after.nonce = m.nonce
           /\ info[c] # None /\ Answer(c, m) = "success" => after = info[c]
           /\ \/ Answer(c, m) = "success" /\ after.previous + after.current = m.counter
              \/ Answer(c, m) = "reset" /\ after.previous = 0 /\ after.current = 0
    BY <1>1, <1>2, <1>6, <1>7, Accepts
  <2>3. tells # "resend"
    BY <2>1, <2>2
  <2>4. info' = [info EXCEPT ![c] = after] /\ after \in Infos \cup {None}
    BY <1>5, <2>2, <2>3
  <2> HIDE DEF after
  <2>5. info' \in [Clients -> Infos \cup {None}] /\ info'[c] = after
    BY <1>8, <2>4
  <2> HIDE DEF tells
  <2>6. CASE Answer(c, m) = "used" /\ info[c] = None /\ after = None
    BY <1>2, <1>3, <1>4, <1>5, <2>1, <2>5, <2>6 DEF m, tells
  <2>7. CASE /\ after \in Infos /\ after # None
             /\ info[c] = None \/ Answer(c, m) = "reset" => after.nonce = m.nonce
             /\ info[c] # None /\ Answer(c, m) = "success" => after = info[c]
             /\ \/ Answer(c, m) = "success" /\ after.previous + after.current = m.counter
                \/ Answer(c, m) = "reset" /\ after.previous = 0 /\ after.current = 0
    BY <1>2, <1>3, <1>4, <1>5, <1>10, <2>1, <2>5, <2>7 DEF m, tells
  <2>8. QED
    BY <2>2, <2>6, <2>7
<1>11. QED
  BY <1>9, <1>10

\* a reply is for the batch that was sent, and the counter has room for it
LEMMA ReplyFits ==
  ASSUME CounterInv, NEW c \in Clients, ReceiveKeys(c)
  PROVE  /\ Replied(c) /\ After(c) /\ thread[c] = "serve"
         /\ counter[c] + 4 * Head(toClient[c]).n \in Counters
<1>1. Shape /\ Talks(c) /\ state[c] = "wait" /\ toClient[c] # << >>
  BY DEF CounterInv, ReceiveKeys
<1>2. After(c) /\ Replied(c)
  BY <1>1 DEF Talks, Before, After, Sent, Taken
<1>3. Head(toClient[c]).n \in Nat
  BY <1>2, KeyGenCTRAssumption DEF Replied
<1>4. QED
  BY <1>1, <1>2, <1>3, Fields DEF Replied, Counters

LEMMA ShapeNext ==
  ASSUME CounterInv, [Next]_vars
  PROVE  Shape'
<1> USE KeyGenCTRAssumption
<1>1. Shape /\ Unfolded' /\ clientCount' \in Nat
  BY UnfoldedNext, CountedNext DEF CounterInv
<1>2. TypeOK
  BY <1>1 DEF Shape
<1>3. ASSUME NEW d \in Clients, Start(d) PROVE Shape'
  <2>1. 0 \in Counters /\ second' \in Nonces
    BY <1>2, <1>3 DEF Counters, Start, Draws, TypeOK, Nonces
  <2>2. /\ nonce' \in [Clients -> Nonces] /\ counter' \in [Clients -> Counters]
        /\ clientEpoch' \in [Clients -> Epochs]
    BY <1>2, <1>3, <2>1 DEF Start, Draws, TypeOK, Stores
  <2>3. state' = [state EXCEPT ![d] = "login"] /\ toServer' = [c \in Clients |-> toServer'[c]]
    BY <1>1, <1>3 DEF Start, Login, Shape
  <2>4. early' \in SUBSET Clients
    BY <1>2, <1>3 DEF Start, TypeOK
  <2>5. QED
    BY <1>1, <1>2, <1>3, <2>1, <2>2, <2>3, <2>4 DEF Start, Shape, TypeOK, serverVars, enclaveVars
<1>4. ASSUME NEW d \in Clients, SentBack(d) PROVE Shape'
  <2>1. second' \in Nonces
    BY <1>2, <1>4 DEF SentBack, Draws, TypeOK, Nonces
  <2>2. nonce' \in [Clients -> Nonces]
    BY <1>2, <1>4, <2>1 DEF SentBack, Draws, TypeOK
  <2>3. /\ state' = [state EXCEPT ![d] = "login"] /\ toServer' = [c \in Clients |-> toServer'[c]]
        /\ toClient' = [c \in Clients |-> toClient'[c]]
    BY <1>1, <1>4 DEF SentBack, Login, Shape
  <2>4. strayed' \in SUBSET Clients
    BY <1>2, <1>4 DEF SentBack, TypeOK
  <2>5. QED
    BY <1>1, <1>2, <1>4, <2>1, <2>2, <2>3, <2>4 DEF SentBack, Shape, TypeOK, serverVars, enclaveVars
<1>5. ASSUME NEW d \in Clients, LoggedIn(d) PROVE Shape'
  <2>1. 0 \in Counters
    BY DEF Counters
  <2>2. /\ state' = [state EXCEPT ![d] = "ready"] /\ toClient' = [c \in Clients |-> toClient'[c]]
        /\ counter' \in [Clients -> Counters]
    BY <1>1, <1>2, <1>5, <2>1 DEF LoggedIn, Shape, TypeOK
  <2>3. QED
    BY <1>1, <1>2, <1>5, <2>2 DEF LoggedIn, Shape, TypeOK, serverVars, enclaveVars, history
<1>6. ASSUME NEW d \in Clients, NEW n \in Batches, SendHashes(d, n) PROVE Shape'
  <2>1. state' = [state EXCEPT ![d] = "wait"] /\ toServer' = [c \in Clients |-> toServer'[c]]
    BY <1>1, <1>6 DEF SendHashes, Shape
  <2>2. QED
    BY <1>1, <1>2, <1>6, <2>1 DEF SendHashes, Shape, TypeOK, serverVars, enclaveVars, history
<1>7. ASSUME NEW d \in Clients, ReceiveKeys(d) PROVE Shape'
  <2>1. counter' = [counter EXCEPT ![d] = counter[d] + 4 * Head(toClient[d]).n]
    BY <1>7 DEF ReceiveKeys
  <2>2. counter' \in [Clients -> Counters]
    BY <1>2, <1>7, <2>1, ReplyFits DEF TypeOK
  <2>3. /\ state' \in [Clients -> {"off", "login", "ready", "wait", "stuck"}]
        /\ result' \in [Clients -> {"none", "right", "wrong", "prepared"}]
    BY <1>2, <1>7 DEF ReceiveKeys, TypeOK
  <2>4. toClient' = [c \in Clients |-> toClient'[c]]
    BY <1>1, <1>7 DEF ReceiveKeys, Shape
  <2>5. QED
    BY <1>1, <1>2, <1>7, <2>2, <2>3, <2>4 DEF ReceiveKeys, Shape, TypeOK, serverVars, enclaveVars, history
<1>8. ASSUME NEW d \in Clients, Finish(d) \/ Kill(d) PROVE Shape'
  <2>1. 0 \in Counters /\ 0 \in Nonces /\ 0 \in Epochs
    BY DEF Counters, Nonces, Epochs
  <2>2. ProcessEnds(d)
    BY <1>8 DEF Finish, Kill
  <2>3. stored' \in [Clients -> Stores \union {None}] /\ strayed' \in SUBSET Clients
    BY <1>2, <1>8 DEF Finish, Kill, TypeOK, Stores
  <2>4. QED
    BY <1>1, <1>2, <2>1, <2>2, <2>3 DEF ProcessEnds, Shape, TypeOK, serverVars, enclaveVars
<1>9. ASSUME NEW d \in Clients, ThreadStarts(d) \/ ModifyBegins(d) PROVE Shape'
  <2>1. unfolded' \in SUBSET Clients
    BY <1>1 DEF Unfolded, Known
  <2>2. thread' \in [Clients -> {"none", "init", "modify", "serve", "read", "masked", "adding"}]
    BY <1>2, <1>9 DEF ThreadStarts, ModifyBegins, Moves, TypeOK
  <2>3. CASE ThreadStarts(d)
    BY <1>1, <1>2, <2>1, <2>2, <2>3 DEF ThreadStarts, Shape, TypeOK, clientVars, enclaveVars, history
  <2>4. CASE ModifyBegins(d)
    BY <1>1, <1>2, <2>1, <2>2, <2>4 DEF ModifyBegins, Shape, TypeOK, clientVars, history
  <2>5. QED
    BY <1>9, <2>3, <2>4
<1>10. ASSUME NEW d \in Clients, FoldAdds(d) PROVE Shape'
  <2>1. PICK e \in unfolded :
           /\ e \in Clients /\ half' = e /\ info' \in [Clients -> Infos \cup {None}]
           /\ torn' = IF thread[e] \in {"read", "adding"} THEN torn \union {e} ELSE torn
    BY <1>10, Adds
  <2>2. half' \in Clients \union {None} /\ torn' \in SUBSET Clients
    BY <1>2, <2>1 DEF TypeOK
  <2>3. QED
    BY <1>1, <1>2, <1>10, <2>1, <2>2 DEF FoldAdds, Shape, TypeOK, clientVars, serverVars
<1>11. ASSUME NEW d \in Clients, FoldClears(d) PROVE Shape'
  <2>1. info' \in [Clients -> Infos \cup {None}] /\ half' = None /\ unfolded' \in SUBSET Clients
    BY <1>2, <1>11, Clears DEF FoldClears, TypeOK
  <2>2. QED
    BY <1>1, <1>2, <1>11, <2>1 DEF FoldClears, Shape, TypeOK, clientVars, serverVars, history
<1>12. ASSUME NEW d \in Clients, ModifyStatus(d) PROVE Shape'
  <2>1. info' \in [Clients -> Infos \cup {None}]
    BY <1>12, Modifies
  <2>2. thread' \in [Clients -> {"none", "init", "modify", "serve", "read", "masked", "adding"}]
    BY <1>2, <1>12 DEF ModifyStatus, TypeOK
  <2>3. /\ toServer' = [c \in Clients |-> toServer'[c]]
        /\ toClient' = [c \in Clients |-> toClient'[c]]
    BY <1>1, <1>12 DEF ModifyStatus, Shape
  <2>4. torn' \in SUBSET Clients
    BY <1>2, <1>12 DEF ModifyStatus, TypeOK
  <2>5. QED
    BY <1>1, <1>2, <1>12, <2>1, <2>2, <2>3, <2>4 DEF ModifyStatus, Shape, TypeOK
<1>13. ASSUME NEW d \in Clients, BeginKeys(d) PROVE Shape'
  <2>1. /\ toServer' = [c \in Clients |-> toServer'[c]]
        /\ begun' = [c \in Clients |-> begun'[c]]
        /\ torn' \in SUBSET Clients
    BY <1>1, <1>2, <1>13 DEF BeginKeys, Shape, TypeOK
  <2>2. QED
    BY <1>1, <1>2, <1>13, <2>1 DEF BeginKeys, Shape, TypeOK
<1>14. ASSUME NEW d \in Clients, TakeRequest(d) PROVE Shape'
  <2>1. begun' = [c \in Clients |-> begun'[c]]
    BY <1>1, <1>14 DEF TakeRequest, Shape
  <2>2. QED
    BY <1>1, <1>2, <1>14, <2>1 DEF TakeRequest, Moves, Shape, TypeOK, clientVars, history
<1>15. ASSUME NEW d \in Clients, TakeReply(d) PROVE Shape'
  <2>1. begun' = [c \in Clients |-> begun'[c]] /\ torn' \in SUBSET Clients
    BY <1>1, <1>2, <1>15 DEF TakeReply, Shape, TypeOK
  <2>2. QED
    BY <1>1, <1>2, <1>15, <2>1 DEF TakeReply, Moves, Shape, TypeOK, clientVars
<1>16. ASSUME NEW d \in Clients, NEW sends, Replies(d, sends)
       PROVE  /\ thread' \in [Clients -> {"none", "init", "modify", "serve", "read", "masked", "adding"}]
              /\ buffer' = [c \in Clients |-> buffer'[c]]
              /\ toClient' = [c \in Clients |-> toClient'[c]]
              /\ unsent' \in BOOLEAN
  <2>1. thread' \in [Clients -> {"none", "init", "modify", "serve", "read", "masked", "adding"}]
    BY <1>2, <1>16 DEF Replies, TypeOK
  <2>2. buffer' = [c \in Clients |-> buffer'[c]]
    BY <1>1, <1>16 DEF Replies, Shape
  <2>3. toClient' = [c \in Clients |-> toClient'[c]]
    BY <1>1, <1>16 DEF Replies, Shape
  <2>4. unsent' \in BOOLEAN
    BY <1>2, <1>16 DEF Replies, TypeOK
  <2>5. QED
    BY <2>1, <2>2, <2>3, <2>4
<1>17. ASSUME NEW d \in Clients, RefuseKeys(d) PROVE Shape'
  <2>1. toServer' = [c \in Clients |-> toServer'[c]]
    BY <1>1, <1>17 DEF RefuseKeys, Shape
  <2>2. PICK sends : Replies(d, sends)
    BY <1>17 DEF RefuseKeys
  <2>3. QED
    BY <1>1, <1>2, <1>16, <1>17, <2>1, <2>2 DEF RefuseKeys, Shape, TypeOK, enclaveVars
<1>18. ASSUME NEW d \in Clients, EndKeys(d) PROVE Shape'
  <2>1. begun' = [c \in Clients |-> begun'[c]] /\ info' \in [Clients -> Infos \cup {None}]
    BY <1>1, <1>18, Counts DEF EndKeys, Shape
  <2>2. QED
    BY <1>1, <1>2, <1>16, <1>18, <2>1 DEF EndKeys, Shape, TypeOK
<1>19. ASSUME NEW d \in Clients, ThreadEnds(d) PROVE Shape'
  <2>1. /\ toClient' = [c \in Clients |-> toClient'[c]] /\ buffer' = [c \in Clients |-> buffer'[c]]
        /\ offlineGenerate' \in BOOLEAN
    BY <1>1, <1>2, <1>19 DEF ThreadEnds, Shape, TypeOK
  <2>2. QED
    BY <1>1, <1>2, <1>19, <2>1 DEF ThreadEnds, Shape, TypeOK, enclaveVars, history
<1>20. ASSUME GenerateMasks PROVE Shape'
  <2>1. /\ UNCHANGED <<second, clientVars, thread, buffer, clientCount, epoch, unfolded, half,
                       begun, starts, torn, strayed, early>>
        /\ masker' = "check" /\ offlineGenerate' = FALSE /\ unsent' = FALSE
    BY <1>20, Zenon DEF GenerateMasks
  <2>2. QED
    BY <1>1, <1>2, <1>20, <2>1, MasksTyped DEF Shape, TypeOK, clientVars
<1>21. ASSUME ClaimMasks \/ UpdateKey \/ Attest PROVE Shape'
  <2>1. epoch' \in Epochs
    BY <1>2, <1>21 DEF ClaimMasks, UpdateKey, Attest, TypeOK, Epochs, enclaveVars
  <2>2. QED
    BY <1>1, <1>2, <1>21, <2>1 DEF ClaimMasks, UpdateKey, Attest, Shape, TypeOK, clientVars,
       serverVars, enclaveVars, history
<1>22. ASSUME UNCHANGED vars PROVE Shape'
  BY <1>1, <1>2, <1>22 DEF vars, Shape, TypeOK, clientVars, serverVars, enclaveVars, history
<1>23. QED
  BY <1>3, <1>4, <1>5, <1>6, <1>7, <1>8, <1>9, <1>10, <1>11, <1>12, <1>13, <1>14, <1>15, <1>17,
     <1>18, <1>19, <1>20, <1>21, <1>22 DEF Next, ClientStep, ThreadStep

-----------------------------------------------------------------------------
(* A step of others *)

Unmoved(c) ==
    /\ state'[c] = state[c] /\ nonce'[c] = nonce[c] /\ counter'[c] = counter[c]
    /\ stored'[c] = stored[c] /\ clientEpoch'[c] = clientEpoch[c] /\ result'[c] = result[c]
    /\ toServer'[c] = toServer[c] /\ toClient'[c] = toClient[c]
    /\ thread'[c] = thread[c] /\ begun'[c] = begun[c]
    /\ c \in strayed' <=> c \in strayed

\* the entry of c counts as much, and a batch whose two reads, or whose last read and write, a
\* login comes between is torn
EntryKept(c) ==
    /\ info'[c] = None <=> info[c] = None
    /\ info[c] # None => info'[c].nonce = info[c].nonce /\ Total(c)' = Total(c)
    /\ epoch' \in Nat /\ epoch' >= epoch /\ (c \in torn => c \in torn')
    /\ info[c] # None /\ thread[c] \in {"read", "adding"} /\ half # c /\ c \notin torn' =>
          half' # c /\ info'[c].current = info[c].current

LEMMA UnmovedKeeps ==
  ASSUME CounterInv, NEW c \in Clients, Unmoved(c), EntryKept(c)
  PROVE  Talks(c)' /\ NonceKept(c)' /\ Wrongs(c)'
<1>1. Talks(c) /\ NonceKept(c) /\ Wrongs(c) /\ Shape
  BY DEF CounterInv
<1>2. clientEpoch[c] \in Nat /\ epoch \in Nat /\ epoch' \in Nat /\ epoch' >= epoch
  BY <1>1, Fields DEF EntryKept
<1>3. NonceKept(c)'
  BY <1>1 DEF NonceKept, Unmoved, EntryKept
<1>4. CASE thread[c] \in {"none", "init", "modify"}
  <2>1. Before(c)
    BY <1>1, <1>4 DEF Talks
  <2>2. Before(c)'
    BY <2>1 DEF Before, Only, Unmoved, EntryKept
  <2>3. thread'[c] \in {"none", "init", "modify"}
    BY <1>4 DEF Unmoved
  <2>4. Wrongs(c)'
    BY <1>1, <1>4 DEF Wrongs, Unmoved
  <2>5. QED
    BY <1>3, <2>2, <2>3, <2>4 DEF Talks
<1>5. CASE thread[c] \notin {"none", "init", "modify"}
  <2>1. After(c) /\ info[c] # None
    BY <1>1, <1>5 DEF Talks, After
  <2>2. state[c] # "off" => clientEpoch[c] <= epoch /\ clientEpoch'[c] <= epoch'
    BY <1>2, <2>1 DEF After, Unmoved
  <2>3. state[c] # "off" /\ InStep(c)' => InStep(c) /\ epoch' = epoch
    BY <1>2, <2>2 DEF InStep, Unmoved, EntryKept
  <2>4. Total(c)' = Total(c) /\ info'[c] # None /\ info'[c].nonce = info[c].nonce
    BY <2>1 DEF EntryKept
  <2>5. \A sends : Good(c, sends) => Good(c, sends)'
    BY <2>4 DEF Good, Stream, Unmoved
  <2>6. ASSUME state[c] = "login" PROVE Answered(c)'
    BY <2>1, <2>3, <2>4, <2>6 DEF After, Answered, Unmoved
  <2>7. ASSUME state[c] = "wait" PROVE Sent(c)' \/ Taken(c)' \/ Replied(c)'
    <3>1. Sent(c) => Sent(c)'
      BY <2>3, <2>4, <2>7 DEF Sent, Unmoved
    <3>2. ASSUME Taken(c) PROVE Taken(c)'
      <4>1. /\ thread'[c] \in {"read", "masked", "adding"} /\ toClient'[c] = << >>
            /\ counter'[c] + 4 * begun'[c].n <= MaxCounter
        BY <3>2 DEF Taken, Unmoved
      <4>2. ASSUME InStep(c)'
            PROVE  /\ counter'[c] = Total(c)'
                   /\ thread'[c] # "masked" => half' # c /\ begun'[c].current = info'[c].current
                   /\ thread'[c] # "read" => Good(c, begun[c].reply)'
        <5>1. InStep(c) /\ c \notin torn'
          BY <2>3, <2>7, <4>2 DEF InStep
        <5>2. counter'[c] = Total(c)'
          BY <2>4, <3>2, <5>1 DEF Taken, Unmoved
        <5>3. thread'[c] # "masked" => half' # c /\ begun'[c].current = info'[c].current
          BY <2>1, <3>2, <5>1 DEF Taken, Unmoved, EntryKept
        <5>4. thread'[c] # "read" => Good(c, begun[c].reply)'
          <6>1. thread[c] # "read" => Good(c, begun[c].reply)
            BY <3>2, <5>1 DEF Taken
          <6>2. QED
            BY <2>4, <6>1 DEF Good, Stream, Unmoved
        <5>5. QED
          BY <5>2, <5>3, <5>4 DEF Good, Unmoved
      <4>3. QED
        BY <4>1, <4>2 DEF Taken, Good
    <3>3. Replied(c) => Replied(c)'
      BY <2>3, <2>4, <2>7 DEF Replied, Good, Stream, Only, Unmoved
    <3>4. QED
      BY <2>1, <2>7, <3>1, <3>2, <3>3 DEF After
  <2>8. After(c)'
    BY <2>1, <2>2, <2>3, <2>4, <2>6, <2>7 DEF After, Only, Unmoved
  <2>9. Wrongs(c)'
    BY <1>1, <1>2, <1>5, <2>1, <2>2, <2>4 DEF Wrongs, Unmoved, EntryKept
  <2>10. QED
    BY <1>3, <1>5, <2>8, <2>9 DEF Talks, Unmoved
<1>6. QED
  BY <1>4, <1>5

LEMMA SameEntry ==
  ASSUME Shape, NEW c \in Clients, info'[c] = info[c], half' = half, epoch' = epoch,
         c \in torn => c \in torn'
  PROVE  EntryKept(c)
<1>1. epoch' \in Nat /\ epoch' >= epoch
  BY Fields
<1>2. Total(c)' = Total(c)
  BY DEF Total
<1>3. QED
  BY <1>1, <1>2 DEF EntryKept

LEMMA OthersUnmoved ==
  ASSUME CounterInv, NEW c \in Clients, NEW d \in Clients, c # d,
         \/ Start(d) \/ ClientStep(d) \/ Kill(d)
         \/ ThreadStarts(d) \/ ModifyBegins(d) \/ ModifyStatus(d) \/ BeginKeys(d) \/ RefuseKeys(d)
         \/ TakeRequest(d) \/ TakeReply(d) \/ EndKeys(d) \/ ThreadEnds(d)
  PROVE  Unmoved(c) /\ EntryKept(c)
<1>1. Shape
  BY DEF CounterInv
<1> DEFINE Still == Unmoved(c) /\ info'[c] = info[c] /\ half' = half /\ epoch' = epoch
                    /\ (c \in torn => c \in torn')
<1>2. ASSUME Start(d) PROVE Still
  BY <1>1, <1>2 DEF Start, Login, Draws, Unmoved, Shape, TypeOK, serverVars, enclaveVars
<1>3. ASSUME SentBack(d) PROVE Still
  BY <1>1, <1>3 DEF SentBack, Login, Draws, Unmoved, Shape, TypeOK, serverVars, enclaveVars
<1>4. ASSUME LoggedIn(d) PROVE Still
  BY <1>1, <1>4 DEF LoggedIn, Unmoved, Shape, TypeOK, serverVars, enclaveVars, history
<1>5. ASSUME NEW n \in Batches, SendHashes(d, n) PROVE Still
  BY <1>1, <1>5 DEF SendHashes, Unmoved, Shape, TypeOK, serverVars, enclaveVars, history
<1>6. ASSUME ReceiveKeys(d) PROVE Still
  BY <1>1, <1>6 DEF ReceiveKeys, Unmoved, Shape, TypeOK, serverVars, enclaveVars, history
<1>7. ASSUME Finish(d) \/ Kill(d) PROVE Still
  <2>1. ProcessEnds(d) /\ stored'[c] = stored[c] /\ (c \in strayed' <=> c \in strayed)
    BY <1>1, <1>7 DEF Finish, Kill, Shape, TypeOK
  <2>2. QED
    BY <1>1, <2>1 DEF ProcessEnds, Unmoved, Shape, TypeOK, serverVars, enclaveVars
<1>8. ASSUME ThreadStarts(d) PROVE Still
  BY <1>1, <1>8 DEF ThreadStarts, Moves, Unmoved, Shape, TypeOK, clientVars, enclaveVars, history
<1>9. ASSUME ModifyBegins(d) PROVE Still
  BY <1>1, <1>9 DEF ModifyBegins, Moves, Unmoved, Shape, TypeOK, clientVars, history
<1>10. ASSUME ModifyStatus(d) PROVE Still
  BY <1>1, <1>10 DEF ModifyStatus, Unmoved, Shape, TypeOK
<1>11. ASSUME BeginKeys(d) PROVE Still
  BY <1>1, <1>11 DEF BeginKeys, Unmoved, Shape, TypeOK
<1>12. ASSUME NEW sends, Replies(d, sends) PROVE thread'[c] = thread[c] /\ toClient'[c] = toClient[c]
  BY <1>1, <1>12 DEF Replies, Shape, TypeOK
<1>13. ASSUME RefuseKeys(d) PROVE Still
  <2>1. thread'[c] = thread[c] /\ toClient'[c] = toClient[c]
    BY <1>12, <1>13 DEF RefuseKeys
  <2>2. QED
    BY <1>1, <1>13, <2>1 DEF RefuseKeys, Unmoved, Shape, TypeOK, enclaveVars
<1>14. ASSUME EndKeys(d) PROVE Still
  <2>1. thread'[c] = thread[c] /\ toClient'[c] = toClient[c]
    BY <1>12, <1>14 DEF EndKeys
  <2>2. info'[c] = info[c]
    BY <1>14, Counts
  <2>3. QED
    BY <1>1, <1>14, <2>1, <2>2 DEF EndKeys, Unmoved, Shape, TypeOK
<1>15. ASSUME TakeRequest(d) PROVE Still
  BY <1>1, <1>15 DEF TakeRequest, Moves, Unmoved, Shape, TypeOK, clientVars, history
<1>16. ASSUME TakeReply(d) PROVE Still
  BY <1>1, <1>16 DEF TakeReply, Moves, Unmoved, Shape, TypeOK, clientVars
<1>17. ASSUME ThreadEnds(d) PROVE Still
  BY <1>1, <1>17 DEF ThreadEnds, Unmoved, Shape, TypeOK, enclaveVars, history
<1>18. Still
  BY <1>2, <1>3, <1>4, <1>5, <1>6, <1>7, <1>8, <1>9, <1>10, <1>11, <1>13, <1>14, <1>15, <1>16,
     <1>17 DEF ClientStep
<1>19. QED
  BY <1>1, <1>18, SameEntry

LEMMA FoldsKeep ==
  ASSUME CounterInv, NEW c \in Clients, NEW d \in Clients, FoldAdds(d) \/ FoldClears(d)
  PROVE  Unmoved(c) /\ EntryKept(c)
<1>1. Unmoved(c) /\ epoch' = epoch
  BY DEF FoldAdds, FoldClears, Unmoved, clientVars, serverVars, history
<1>2. epoch' \in Nat /\ epoch' >= epoch
  BY <1>1, Fields DEF CounterInv
<1>3. info[c] # None => Total(c) \in Nat /\ info[c].previous \in Nat
  BY Fields DEF CounterInv
<1>4. CASE FoldAdds(d)
  <2>1. PICK e \in unfolded :
           /\ e \in Clients /\ info[e] # None /\ half = None /\ half' = e /\ info'[e] # None
           /\ info'[e].previous = Total(e) /\ info'[e].current = info[e].current
           /\ info'[e].nonce = info[e].nonce
           /\ \A b \in Clients \ {e} : info'[b] = info[b]
           /\ torn' = IF thread[e] \in {"read", "adding"} THEN torn \union {e} ELSE torn
    BY <1>4, Adds
  <2>2. None \notin Clients
    BY KeyGenCTRAssumption
  <2>3. CASE c = e
    <3>1. Total(c)' = Total(c)
      BY <1>3, <2>1, <2>3 DEF Total
    <3>2. QED
      BY <1>1, <1>2, <2>1, <2>3, <3>1 DEF EntryKept
  <2>4. CASE c # e
    <3>1. info'[c] = info[c] /\ Total(c)' = Total(c)
      BY <2>1, <2>2, <2>4 DEF Total
    <3>2. QED
      BY <1>1, <1>2, <2>1, <2>4, <3>1 DEF EntryKept
  <2>5. QED
    BY <2>3, <2>4
<1>5. CASE FoldClears(d)
  <2>1. /\ half \in Clients /\ info[half] # None /\ half' = None /\ info'[half] # None
        /\ info'[half].previous = info[half].previous /\ info'[half].current = 0
        /\ info'[half].nonce = info[half].nonce
        /\ \A b \in Clients \ {half} : info'[b] = info[b]
    BY <1>5, Clears
  <2>2. None \notin Clients /\ torn' = torn
    BY <1>5, KeyGenCTRAssumption DEF FoldClears, history
  <2>3. CASE c = half
    <3>1. Total(c)' = Total(c)
      BY <1>3, <2>1, <2>2, <2>3 DEF Total
    <3>2. QED
      BY <1>1, <1>2, <2>1, <2>2, <2>3, <3>1 DEF EntryKept
  <2>4. CASE c # half
    <3>1. info'[c] = info[c] /\ Total(c)' = Total(c)
      BY <2>1, <2>2, <2>4 DEF Total
    <3>2. QED
      BY <1>1, <1>2, <2>1, <2>2, <2>4, <3>1 DEF EntryKept
  <2>5. QED
    BY <2>3, <2>4
<1>6. QED
  BY <1>4, <1>5

LEMMA ServerKeeps ==
  ASSUME CounterInv, NEW c \in Clients, ClaimMasks \/ GenerateMasks \/ UpdateKey \/ UNCHANGED vars
  PROVE  Unmoved(c) /\ EntryKept(c)
<1>1. Shape
  BY DEF CounterInv
<1>2. CASE ClaimMasks \/ UNCHANGED vars
  BY <1>1, <1>2, SameEntry DEF ClaimMasks, vars, Unmoved, clientVars, serverVars, enclaveVars, history
<1>3. CASE UpdateKey
  <2>1. Unmoved(c) /\ UNCHANGED <<info, half, torn>> /\ epoch' = epoch + 1
    BY <1>3 DEF UpdateKey, Unmoved, clientVars, serverVars, history
  <2>2. epoch' \in Nat /\ epoch' >= epoch /\ Total(c)' = Total(c)
    BY <1>1, <2>1, Fields DEF Total
  <2>3. QED
    BY <2>1, <2>2 DEF EntryKept
<1>4. CASE GenerateMasks
  <2>1. UNCHANGED <<clientVars, thread, epoch, half, begun, torn, strayed>>
    BY <1>4, Zenon DEF GenerateMasks
  <2>2. /\ info'[c] = None <=> info[c] = None
        /\ info[c] # None => /\ info'[c].nonce = info[c].nonce
                             /\ info'[c].previous = info[c].previous
                             /\ info'[c].current = info[c].current
    BY <1>1, <1>4, Generates
  <2>3. Unmoved(c)
    BY <2>1 DEF Unmoved, clientVars
  <2>4. epoch' \in Nat /\ epoch' >= epoch /\ (info[c] # None => Total(c)' = Total(c))
    BY <1>1, <2>1, <2>2, Fields DEF Total
  <2>5. QED
    BY <2>1, <2>2, <2>3, <2>4 DEF EntryKept
<1>5. QED
  BY <1>2, <1>3, <1>4

\* a new enclave knows nobody, and nobody has a thread
LEMMA AttestKeeps ==
  ASSUME CounterInv, NEW c \in Clients, Attest
  PROVE  Talks(c)' /\ NonceKept(c)' /\ Wrongs(c)'
<1>1. thread[c] = "none" /\ Shape /\ Before(c) /\ Wrongs(c)
  BY NoThreads DEF CounterInv, Talks
<1>2. UNCHANGED <<clientVars, thread, strayed>> /\ info'[c] = None
  BY DEF Attest, serverVars, history
<1>3. Before(c)'
  BY <1>1, <1>2 DEF Before, Only, clientVars
<1>4. QED
  BY <1>1, <1>2, <1>3 DEF Talks, NonceKept, Wrongs, clientVars

-----------------------------------------------------------------------------
(* A step of the client *)

LEMMA OwnStart ==
  ASSUME CounterInv, NEW c \in Clients, Start(c)
  PROVE  Talks(c)' /\ NonceKept(c)' /\ Wrongs(c)'
<1>1. /\ thread[c] = "none" /\ state[c] = "off" /\ toServer[c] = << >> /\ Shape
      /\ Before(c) /\ NonceKept(c) /\ Wrongs(c)
  BY DEF CounterInv, Start, Talks
<1>2. toClient[c] = << >> /\ result[c] # "wrong"
  BY <1>1 DEF Before, Wrongs
<1>3. UNCHANGED <<stored, toClient, result, thread, info, strayed>>
  BY DEF Start, serverVars, enclaveVars
<1>4. Shape'
  BY ShapeNext, Zenon DEF Next
<1>5. nonce'[c] \in Nonces /\ counter'[c] \in Counters /\ clientEpoch'[c] \in Epochs
  BY <1>4 DEF Shape, TypeOK
<1> DEFINE m == [nonce |-> nonce'[c], counter |-> counter'[c], epoch |-> clientEpoch'[c]]
<1>6. state'[c] = "login" /\ toServer'[c] = <<m>>
  <2>1. state'[c] = "login" /\ toServer'[c] = Append(toServer[c], m)
    BY <1>1 DEF Start, Login, Shape, TypeOK
  <2>2. QED
    BY <1>1, <2>1, Queue
<1>7. m.nonce = nonce'[c] /\ m.counter = counter'[c] /\ m.epoch = clientEpoch'[c]
  OBVIOUS
<1>8. Before(c)'
  <2>1. Only(toServer'[c]) /\ Head(toServer'[c]) = m
    BY <1>6, Queue
  <2>2. QED
    BY <1>1, <1>2, <1>3, <1>5, <1>6, <1>7, <2>1 DEF Before, Only
<1>9. NonceKept(c)'
  <2>1. CASE stored[c] = None
    BY <1>1, <1>3, <2>1 DEF NonceKept
  <2>2. CASE stored[c] # None
    <3>1. nonce'[c] = stored[c].nonce
      BY <1>1, <2>2 DEF Start, Shape, TypeOK
    <3>2. QED
      BY <1>1, <1>3, <1>6, <2>2, <3>1 DEF NonceKept
  <2>3. QED
    BY <2>1, <2>2
<1>10. QED
  BY <1>1, <1>2, <1>3, <1>8, <1>9 DEF Talks, Wrongs

LEMMA OwnSentBack ==
  ASSUME CounterInv, NEW c \in Clients, SentBack(c)
  PROVE  Talks(c)' /\ NonceKept(c)' /\ Wrongs(c)'
<1>1. /\ state[c] = "login" /\ toClient[c] # << >> /\ Head(toClient[c]) \in {"used", "resend"}
      /\ Shape /\ Talks(c) /\ NonceKept(c) /\ Wrongs(c)
  BY DEF CounterInv, SentBack
<1>2. ~Answered(c)
  BY <1>1, Queue DEF Answered
<1>3. thread[c] \in {"none", "init", "modify"} /\ Before(c)
  BY <1>1, <1>2 DEF Talks, After
<1>4. /\ toServer[c] = << >> /\ Only(toClient[c])
      /\ Head(toClient[c]) = "used" => info[c] = None
  <2>1. CASE toClient[c] = << >>
    BY <1>1, <2>1
  <2>2. CASE toServer[c] = << >> /\ toClient[c] = <<"used">> /\ info[c] = None
    BY <2>2, Queue
  <2>3. CASE toServer[c] = << >> /\ toClient[c] = <<"resend">>
    <3>1. Head(toClient[c]) = "resend"
      BY <2>3
    <3>2. QED
      BY <2>3, <3>1, Queue
  <2>4. QED
    BY <1>1, <1>3, <2>1, <2>2, <2>3 DEF Before
<1>5. UNCHANGED <<stored, counter, clientEpoch, result, thread, info>>
  BY DEF SentBack, serverVars, enclaveVars
<1>6. Shape'
  BY ShapeNext, Zenon DEF Next, ClientStep
<1>7. nonce'[c] \in Nonces /\ counter'[c] \in Counters /\ clientEpoch'[c] \in Epochs
  BY <1>6 DEF Shape, TypeOK
<1> DEFINE m == [nonce |-> nonce'[c], counter |-> counter'[c], epoch |-> clientEpoch'[c]]
<1>8. state'[c] = "login" /\ toServer'[c] = <<m>> /\ toClient'[c] = << >>
  <2>1. state'[c] = "login" /\ toServer'[c] = Append(toServer[c], m) /\ toClient'[c] = Tail(toClient[c])
    BY <1>1 DEF SentBack, Login, Shape, TypeOK
  <2>2. QED
    BY <1>4, <2>1, Queue, OnlyTail
<1>9. m.nonce = nonce'[c] /\ m.counter = counter'[c] /\ m.epoch = clientEpoch'[c]
  OBVIOUS
<1>10. Before(c)'
  <2>1. Only(toServer'[c]) /\ Head(toServer'[c]) = m
    BY <1>8, Queue
  <2>2. QED
    BY <1>3, <1>5, <1>7, <1>8, <1>9, <2>1 DEF Before, Only
<1>11. NonceKept(c)'
  BY <1>1, <1>4, <1>5, <1>8 DEF NonceKept, SentBack
<1>12. QED
  BY <1>1, <1>3, <1>5, <1>10, <1>11 DEF Talks, Wrongs

LEMMA OwnLogin ==
  ASSUME CounterInv, NEW c \in Clients, LoggedIn(c)
  PROVE  Talks(c)' /\ NonceKept(c)' /\ Wrongs(c)'
<1>1. /\ state[c] = "login" /\ toClient[c] # << >> /\ Head(toClient[c]) \in {"success", "reset"}
      /\ Shape /\ Talks(c) /\ NonceKept(c) /\ Wrongs(c)
  BY DEF CounterInv, LoggedIn
<1>2. ~Before(c)
  <2>1. SUFFICES ASSUME Before(c) PROVE FALSE
    OBVIOUS
  <2>2. toClient[c] = <<"used">> \/ toClient[c] = <<"resend">>
    BY <1>1, <2>1 DEF Before
  <2>3. QED
    BY <1>1, <2>2, Queue
<1>3. After(c) /\ Answered(c) /\ thread[c] = "serve" /\ toServer[c] = << >>
  BY <1>1, <1>2 DEF Talks, After, Answered
<1>4. /\ state'[c] = "ready" /\ toClient'[c] = Tail(toClient[c])
      /\ counter'[c] = IF Head(toClient[c]) = "reset" THEN 0 ELSE counter[c]
  BY <1>1 DEF LoggedIn, Shape, TypeOK
<1>5. UNCHANGED <<nonce, stored, clientEpoch, toServer, result, thread, epoch, info, half, begun,
                  torn, strayed>>
  BY DEF LoggedIn, serverVars, enclaveVars, history
<1>6. toClient'[c] = << >> /\ (InStep(c)' => counter'[c] = Total(c)')
  <2>1. InStep(c)' = InStep(c) /\ Total(c)' = Total(c)
    BY <1>5 DEF InStep, Total
  <2>2. CASE toClient[c] = <<"success">> /\ (InStep(c) => counter[c] = Total(c))
    <3>1. Head(toClient[c]) = "success" /\ Tail(toClient[c]) = << >>
      BY <2>2, Queue
    <3>2. QED
      BY <1>4, <2>1, <2>2, <3>1
  <2>3. CASE toClient[c] = <<"reset">> /\ (InStep(c) => Total(c) = 0)
    <3>1. Head(toClient[c]) = "reset" /\ Tail(toClient[c]) = << >>
      BY <2>3, Queue
    <3>2. QED
      BY <1>4, <2>1, <2>3, <3>1
  <2>4. QED
    BY <1>3, <2>2, <2>3 DEF Answered
<1>7. After(c)'
  BY <1>1, <1>3, <1>4, <1>5, <1>6 DEF After
<1>8. NonceKept(c)' /\ Wrongs(c)'
  BY <1>1, <1>4, <1>5 DEF NonceKept, Wrongs
<1>9. QED
  BY <1>3, <1>5, <1>7, <1>8 DEF Talks

LEMMA OwnHashes ==
  ASSUME CounterInv, NEW c \in Clients, NEW n \in Batches, SendHashes(c, n)
  PROVE  Talks(c)' /\ NonceKept(c)' /\ Wrongs(c)'
<1>1. /\ state[c] = "ready" /\ counter[c] + 4 * n <= MaxCounter
      /\ Shape /\ Talks(c) /\ NonceKept(c) /\ Wrongs(c)
  BY DEF CounterInv, SendHashes
<1>2. /\ After(c) /\ thread[c] = "serve" /\ toServer[c] = << >> /\ toClient[c] = << >>
      /\ InStep(c) => counter[c] = Total(c)
  BY <1>1 DEF Talks, Before, After
<1> DEFINE m == [n |-> n, epoch |-> clientEpoch[c]]
<1>3. state'[c] = "wait" /\ toServer'[c] = <<m>>
  <2>1. state'[c] = "wait" /\ toServer'[c] = Append(toServer[c], m)
    BY <1>1 DEF SendHashes, Shape, TypeOK
  <2>2. QED
    BY <1>2, <2>1, Queue
<1>4. Only(toServer'[c]) /\ Head(toServer'[c]) = m /\ m.n = n /\ m.epoch = clientEpoch[c]
  BY <1>3, Queue
<1>5. UNCHANGED <<nonce, counter, stored, clientEpoch, toClient, result, thread, epoch, info, half,
                  begun, torn, strayed>>
  BY DEF SendHashes, serverVars, enclaveVars, history
<1>6. InStep(c)' = InStep(c) /\ Total(c)' = Total(c)
  BY <1>5 DEF InStep, Total
<1>7. toServer'[c] # << >>
  BY <1>3
<1> HIDE DEF m
<1>8. Sent(c)'
  BY <1>1, <1>2, <1>4, <1>5, <1>6, <1>7 DEF Sent
<1>9. After(c)'
  <2>1. Only(toServer[c])' /\ Head(toServer'[c]).n \in Batches
    BY <1>4 DEF Only
  <2>2. state[c] # "off" /\ clientEpoch[c] <= epoch /\ info[c] # None
    BY <1>1, <1>2 DEF After
  <2>3. QED
    BY <1>2, <1>3, <1>5, <1>8, <2>1, <2>2 DEF After
<1>10. NonceKept(c)' /\ Wrongs(c)'
  BY <1>1, <1>3, <1>5 DEF NonceKept, Wrongs
<1>11. QED
  BY <1>2, <1>5, <1>9, <1>10 DEF Talks

LEMMA OwnKeys ==
  ASSUME CounterInv, NEW c \in Clients, ReceiveKeys(c)
  PROVE  Talks(c)' /\ NonceKept(c)' /\ Wrongs(c)'
<1>1. /\ state[c] = "wait" /\ Shape /\ NonceKept(c) /\ Wrongs(c)
      /\ After(c) /\ Replied(c) /\ thread[c] = "serve" /\ toServer[c] = << >>
  BY ReplyFits DEF CounterInv, ReceiveKeys, Replied
<1> DEFINE got == Head(toClient[c])
           ok  == got.epoch = clientEpoch[c]
           own == Stream(nonce[c], counter[c], 4 * got.n, clientEpoch[c])
<1>2. /\ state'[c] = IF ok THEN "ready" ELSE "stuck"
      /\ counter'[c] = counter[c] + 4 * got.n
      /\ toClient'[c] = Tail(toClient[c])
      /\ result'[c] = IF ~ok THEN result[c] ELSE IF got.blocks = own THEN "right"
                      ELSE IF got.prepared THEN "prepared" ELSE "wrong"
  BY <1>1 DEF ReceiveKeys, Shape, TypeOK
<1>3. UNCHANGED <<nonce, stored, clientEpoch, toServer, thread, epoch, info, half, begun, torn,
                  strayed>>
  BY DEF ReceiveKeys, serverVars, enclaveVars, history
<1>4. toClient'[c] = << >>
  BY <1>1, <1>2, OnlyTail DEF Replied
<1>5. InStep(c)' = InStep(c) /\ Total(c)' = Total(c)
  BY <1>3 DEF InStep, Total
<1>6. InStep(c) => counter'[c] = Total(c) /\ (got.prepared \/ got.blocks =
         Stream(info[c].nonce, counter[c], 4 * got.n, clientEpoch[c]))
  BY <1>1, <1>2 DEF Replied, Good
<1>7. info[c] # None /\ clientEpoch[c] <= epoch
  BY <1>1 DEF After
<1> HIDE DEF got, ok, own
<1>8. After(c)'
  BY <1>1, <1>2, <1>3, <1>4, <1>5, <1>6 DEF After
<1>9. NonceKept(c)'
  BY <1>1, <1>2, <1>3 DEF NonceKept
<1>10. Wrongs(c)'
  <2>1. CASE result'[c] = result[c]
    BY <1>1, <1>2, <1>3, <2>1 DEF Wrongs
  <2>2. CASE result'[c] # result[c] /\ result'[c] = "wrong"
    <3>1. got.blocks # own /\ ~got.prepared /\ ok
      BY <1>2, <2>2
    <3>2. InStep(c) => nonce[c] # info[c].nonce
      BY <1>6, <3>1 DEF own
    <3>3. InStep(c) => c \in strayed
      BY <1>1, <1>7, <3>2 DEF NonceKept
    <3>4. QED
      BY <1>1, <1>2, <1>3, <3>1, <3>2, <3>3 DEF Wrongs, InStep
  <2>3. QED
    BY <2>1, <2>2 DEF Wrongs
<1>11. QED
  BY <1>1, <1>3, <1>8, <1>9, <1>10 DEF Talks

LEMMA OwnEnd ==
  ASSUME CounterInv, NEW c \in Clients, Finish(c) \/ Kill(c)
  PROVE  Talks(c)' /\ NonceKept(c)' /\ Wrongs(c)'
<1>1. Shape /\ Talks(c) /\ NonceKept(c)
  BY DEF CounterInv
<1>2. /\ state'[c] = "off" /\ result'[c] = "none"
      /\ UNCHANGED <<toServer, toClient, thread, epoch, info, half, begun, torn>>
  BY <1>1 DEF Finish, Kill, ProcessEnds, Shape, TypeOK, serverVars, enclaveVars
<1>3. CASE Finish(c)
  <2>1. state[c] = "ready" /\ After(c) /\ thread[c] = "serve" /\ strayed' = strayed
    BY <1>1, <1>3 DEF Finish, Talks, Before, After
  <2>2. After(c)'
    BY <1>2, <2>1 DEF After
  <2>3. stored'[c] = [nonce |-> nonce[c], counter |-> counter[c]]
    BY <1>1, <1>3 DEF Finish, Shape, TypeOK
  <2>4. stored'[c] \in Stores
    BY <1>1, <2>3 DEF Stores, Shape, TypeOK
  <2>5. stored'[c] # None /\ stored'[c].nonce = nonce[c]
    BY <2>3, <2>4, KeyGenCTRAssumption
  <2>6. NonceKept(c)'
    BY <1>1, <1>2, <2>1, <2>5 DEF NonceKept
  <2>7. QED
    BY <1>2, <2>1, <2>2, <2>6 DEF Talks, Wrongs
<1>4. CASE Kill(c)
  <2>1. c \in strayed'
    BY <1>4 DEF Kill
  <2>2. Before(c) => Before(c)'
    BY <1>2, <2>1 DEF Before, Only
  <2>3. After(c) => After(c)'
    BY <1>2 DEF After, Only
  <2>4. QED
    BY <1>1, <1>2, <2>1, <2>2, <2>3 DEF Talks, NonceKept, Wrongs
<1>5. QED
  BY <1>3, <1>4

-----------------------------------------------------------------------------
(* A step of the client's thread *)

LEMMA ThreadComes ==
  ASSUME CounterInv, NEW c \in Clients, ThreadStarts(c) \/ ModifyBegins(c)
  PROVE  Talks(c)' /\ NonceKept(c)' /\ Wrongs(c)'
<1>1. Shape /\ Talks(c) /\ NonceKept(c) /\ Wrongs(c) /\ thread[c] \in {"none", "init"}
  BY DEF CounterInv, ThreadStarts, ModifyBegins, Moves
<1>2. /\ thread'[c] \in {"init", "modify"} /\ (thread'[c] = "modify" => toServer[c] # << >>)
      /\ UNCHANGED <<clientVars, epoch, info, torn, strayed>>
  BY <1>1 DEF ThreadStarts, ModifyBegins, Moves, Shape, TypeOK, enclaveVars, history
<1>3. Before(c)'
  BY <1>1, <1>2 DEF Talks, Before, Only, clientVars
<1>4. QED
  BY <1>1, <1>2, <1>3 DEF Talks, NonceKept, Wrongs, clientVars

LEMMA ThreadModifies ==
  ASSUME CounterInv, NEW c \in Clients, ModifyStatus(c)
  PROVE  Talks(c)' /\ NonceKept(c)' /\ Wrongs(c)'
<1> DEFINE m     == Head(toServer[c])
           tells == IF m.epoch = epoch THEN Answer(c, m) ELSE "resend"
<1>1. /\ Shape /\ Before(c) /\ NonceKept(c) /\ result[c] # "wrong"
  BY DEF CounterInv, ModifyStatus, Talks, Wrongs
<1>2. UNCHANGED <<state, nonce, counter, stored, clientEpoch, result, epoch, begun, strayed>>
  BY DEF ModifyStatus
<1>3. /\ state[c] = "login" => /\ toClient[c] = << >> /\ m.nonce = nonce[c]
                               /\ m.counter = counter[c] /\ m.epoch = clientEpoch[c]
      /\ state[c] \in {"off", "login"} /\ (state[c] = "off" => c \in strayed)
      /\ half' = None /\ toServer'[c] = << >> /\ toClient'[c] = Append(toClient[c], tells)
      /\ \/ tells = "resend" /\ thread'[c] = "init" /\ info'[c] = info[c]
         \/ tells = "used" /\ thread'[c] = "init" /\ info[c] = None /\ info'[c] = None
         \/ /\ tells \in {"success", "reset"} /\ m.epoch = epoch
            /\ thread'[c] = "serve" /\ info'[c] # None
            /\ info[c] = None \/ tells = "reset" => info'[c].nonce = m.nonce
            /\ info[c] # None /\ tells = "success" => info'[c] = info[c]
            /\ tells = "success" => info'[c].previous + info'[c].current = m.counter
            /\ tells = "reset" => info'[c].previous = 0 /\ info'[c].current = 0
  BY Modifies
<1> HIDE DEF m, tells
<1>4. state[c] = "login" => toClient'[c] = <<tells>>
  BY <1>3, Queue
<1>5. Wrongs(c)'
  BY <1>1, <1>2 DEF Wrongs
<1>6. NonceKept(c)'
  BY <1>1, <1>2, <1>3 DEF NonceKept
<1>7. CASE tells = "resend" /\ thread'[c] = "init" /\ info'[c] = info[c]
  <2>1. Before(c)'
    BY <1>1, <1>2, <1>3, <1>4, <1>7 DEF Before
  <2>2. QED
    BY <1>5, <1>6, <1>7, <2>1 DEF Talks
<1>8. CASE tells = "used" /\ thread'[c] = "init" /\ info[c] = None /\ info'[c] = None
  <2>1. Before(c)'
    BY <1>1, <1>2, <1>3, <1>4, <1>8 DEF Before
  <2>2. QED
    BY <1>5, <1>6, <1>8, <2>1 DEF Talks
<1>9. CASE /\ tells \in {"success", "reset"} /\ m.epoch = epoch
           /\ thread'[c] = "serve" /\ info'[c] # None
           /\ tells = "success" => info'[c].previous + info'[c].current = m.counter
           /\ tells = "reset" => info'[c].previous = 0 /\ info'[c].current = 0
  <2>1. half' # c
    BY <1>3, KeyGenCTRAssumption
  <2>2. Total(c)' = info'[c].previous + info'[c].current
    BY <2>1 DEF Total
  <2>3. ASSUME state[c] = "login" PROVE Answered(c)'
    BY <1>2, <1>3, <1>4, <1>9, <2>2, <2>3 DEF Answered
  <2>4. state[c] # "off" => clientEpoch[c] <= epoch
    BY <1>1, <1>3, <1>9, Fields
  <2>5. After(c)'
    BY <1>2, <1>3, <1>9, <2>3, <2>4 DEF After
  <2>6. QED
    BY <1>5, <1>6, <1>9, <2>5 DEF Talks
<1>10. QED
  BY <1>3, <1>7, <1>8, <1>9

\* a message that waits is a batch
LEMMA Asked ==
  ASSUME CounterInv, NEW c \in Clients, Asks(c)
  PROVE  /\ After(c) /\ Only(toServer[c]) /\ Head(toServer[c]).n \in Batches
         /\ state[c] \in {"off", "wait"} /\ (state[c] = "wait" => Sent(c))
<1>1. After(c) /\ toServer[c] # << >> /\ thread[c] = "serve" /\ Shape
  BY DEF CounterInv, Asks, Talks
<1>2. state[c] \in {"off", "login", "ready", "wait", "stuck"}
  BY <1>1 DEF Shape, TypeOK
<1>3. QED
  BY <1>1, <1>2 DEF After, Answered, Taken, Replied

LEMMA ThreadBegins ==
  ASSUME CounterInv, NEW c \in Clients, BeginKeys(c)
  PROVE  Talks(c)' /\ NonceKept(c)' /\ Wrongs(c)'
<1>1. /\ Shape /\ NonceKept(c) /\ Wrongs(c) /\ After(c) /\ Only(toServer[c])
      /\ Head(toServer[c]).n \in Batches /\ state[c] \in {"off", "wait"}
      /\ state[c] = "wait" => Sent(c)
  BY Asked DEF CounterInv, BeginKeys
<1> DEFINE n == Head(toServer[c]).n
<1>2. /\ thread'[c] = "read" /\ begun'[c] = [n |-> n, current |-> info[c].current, at |-> 0,
                                             reply |-> NoReply]
      /\ toServer'[c] = << >> /\ torn' = IF half = c THEN torn \union {c} ELSE torn
  <2>1. /\ thread'[c] = "read" /\ toServer'[c] = Tail(toServer[c])
        /\ torn' = IF half = c THEN torn \union {c} ELSE torn
    BY <1>1 DEF BeginKeys, Shape, TypeOK
  <2>2. begun'[c] = [n |-> n, current |-> info[c].current, at |-> 0, reply |-> NoReply]
    BY <1>1 DEF BeginKeys, Shape
  <2>3. QED
    BY <1>1, <2>1, <2>2, OnlyTail
<1>3. begun'[c].n = n /\ begun'[c].current = info[c].current
  BY <1>2
<1>4. UNCHANGED <<state, nonce, counter, stored, clientEpoch, toClient, result, epoch, info, half,
                  strayed>>
  BY DEF BeginKeys
<1> HIDE DEF n
<1>5. info[c] # None /\ info[c].current \in Nat /\ n \in Batches
  BY <1>1, Fields DEF After, n
<1>6. ASSUME state[c] = "wait" PROVE Taken(c)'
  <2>1. InStep(c)' => InStep(c) /\ half # c
    BY <1>2, <1>4 DEF InStep
  <2>2. Total(c)' = Total(c)
    BY <1>4 DEF Total
  <2>3. QED
    BY <1>1, <1>2, <1>3, <1>4, <1>6, <2>1, <2>2 DEF Taken, Sent, n
<1>7. After(c)'
  BY <1>1, <1>2, <1>3, <1>4, <1>5, <1>6 DEF After
<1>8. NonceKept(c)' /\ Wrongs(c)'
  BY <1>1, <1>2, <1>4 DEF NonceKept, Wrongs
<1>9. QED
  BY <1>2, <1>7, <1>8 DEF Talks

\* a batch in the enclave
LEMMA Computes ==
  ASSUME CounterInv, NEW c \in Clients, thread[c] \in {"read", "masked", "adding"}
  PROVE  /\ After(c) /\ begun[c].n \in Batches /\ begun[c].n \in Nat
         /\ begun[c].current \in Nat /\ info[c] # None
         /\ toServer[c] = << >> /\ state[c] \in {"off", "wait"}
         /\ state[c] = "wait" => Taken(c)
<1>1. After(c) /\ Shape
  BY DEF CounterInv, Talks
<1>2. state[c] \in {"off", "login", "ready", "wait", "stuck"}
  BY <1>1 DEF Shape, TypeOK
<1>3. QED
  BY <1>1, <1>2, KeyGenCTRAssumption DEF After, Answered, Sent, Replied

LEMMA ThreadMasks ==
  ASSUME CounterInv, NEW c \in Clients, TakeRequest(c)
  PROVE  Talks(c)' /\ NonceKept(c)' /\ Wrongs(c)'
<1>1. thread[c] = "read" /\ Shape /\ NonceKept(c) /\ Wrongs(c)
  BY DEF CounterInv, TakeRequest, Moves
<1>2. /\ After(c) /\ begun[c].n \in Batches /\ begun[c].current \in Nat /\ info[c] # None
      /\ toServer[c] = << >> /\ state[c] \in {"off", "wait"} /\ (state[c] = "wait" => Taken(c))
  BY <1>1, Computes
<1> DEFINE n    == begun[c].n
           at   == (info[c].slot - 1) * Region + begun[c].current
           made == [n |-> n, blocks |-> IF RequestPrepared(c) THEN Prepared(at, 2 * n) ELSE Fresh(c),
                    prepared |-> RequestPrepared(c), epoch |-> None]
<1>3. /\ thread'[c] = "masked"
      /\ begun'[c] = [n |-> n, current |-> begun[c].current, at |-> at, reply |-> made]
  BY <1>1 DEF TakeRequest, Moves, Shape, TypeOK
<1>4. /\ begun'[c].n = n /\ begun'[c].current = begun[c].current /\ begun'[c].reply = made
      /\ made.n = n /\ made.prepared = RequestPrepared(c)
      /\ ~RequestPrepared(c) => made.blocks = Fresh(c)
  BY <1>3
<1>5. UNCHANGED <<clientVars, epoch, info, half, torn, strayed>>
  BY DEF TakeRequest, history
<1>6. InStep(c)' = InStep(c) /\ Total(c)' = Total(c)
  BY <1>5 DEF InStep, Total, clientVars
<1> HIDE DEF n, at, made
<1>7. ASSUME state[c] = "wait" PROVE Taken(c)'
  <2>1. Taken(c)
    BY <1>2, <1>7
  <2>2. ASSUME InStep(c) PROVE made.prepared \/ made.blocks =
              Stream(info[c].nonce, counter[c], 4 * made.n, clientEpoch[c])
    <3>1. counter[c] = Total(c) /\ half # c /\ begun[c].current = info[c].current
      BY <1>1, <2>1, <2>2 DEF Taken
    <3>2. info[c].previous + begun[c].current = counter[c] /\ epoch = clientEpoch[c]
      BY <2>2, <3>1 DEF Total, InStep
    <3>3. QED
      BY <1>4, <3>2 DEF Fresh, n
  <2>3. Good(c, begun[c].reply)' <=> made.prepared \/ made.blocks =
              Stream(info[c].nonce, counter[c], 4 * made.n, clientEpoch[c])
    BY <1>4, <1>5 DEF Good, Stream, clientVars
  <2>4. QED
    BY <1>3, <1>4, <1>5, <1>6, <2>1, <2>2, <2>3 DEF Taken, n, clientVars
<1>8. After(c)'
  BY <1>1, <1>2, <1>3, <1>4, <1>5, <1>7 DEF After, n, clientVars
<1>9. NonceKept(c)' /\ Wrongs(c)'
  BY <1>1, <1>3, <1>5 DEF NonceKept, Wrongs, clientVars
<1>10. QED
  BY <1>3, <1>8, <1>9 DEF Talks

LEMMA ThreadReplies ==
  ASSUME CounterInv, NEW c \in Clients, TakeReply(c)
  PROVE  Talks(c)' /\ NonceKept(c)' /\ Wrongs(c)'
<1>1. thread[c] = "masked" /\ Shape /\ NonceKept(c) /\ Wrongs(c)
  BY DEF CounterInv, TakeReply, Moves
<1>2. /\ After(c) /\ begun[c].n \in Batches /\ info[c] # None /\ info[c].current \in Nat
      /\ toServer[c] = << >> /\ state[c] \in {"off", "wait"} /\ (state[c] = "wait" => Taken(c))
  BY <1>1, Computes, Fields
<1> DEFINE n    == begun[c].n
           made == begun[c].reply
           blocks == IF ReplyPrepared(c)
                     THEN SubSeq(made.blocks, 1, 2 * n) \o Prepared(begun[c].at + 2 * n, 2 * n)
                     ELSE made.blocks
           sends == [n |-> n, blocks |-> blocks, epoch |-> epoch,
                     prepared |-> made.prepared \/ ReplyPrepared(c)]
<1>3. /\ thread'[c] = "adding"
      /\ begun'[c] = [n |-> n, current |-> info[c].current, at |-> begun[c].at, reply |-> sends]
      /\ torn' = IF half = c THEN torn \union {c} ELSE torn
  BY <1>1 DEF TakeReply, Moves, Shape, TypeOK
<1>4. /\ begun'[c].n = n /\ begun'[c].current = info[c].current /\ begun'[c].reply = sends
      /\ sends.n = n /\ sends.prepared = (made.prepared \/ ReplyPrepared(c))
      /\ ~ReplyPrepared(c) => sends.blocks = made.blocks
  <2>1. begun'[c].n = n /\ begun'[c].current = info[c].current /\ begun'[c].reply = sends
    BY <1>3
  <2>2. sends.n = n /\ (~ReplyPrepared(c) => sends.blocks = made.blocks)
    OBVIOUS
  <2>3. sends.prepared = (made.prepared \/ ReplyPrepared(c))
    BY Zenon
  <2>4. QED
    BY <2>1, <2>2, <2>3
<1>5. UNCHANGED <<clientVars, epoch, info, half, strayed>>
  BY DEF TakeReply
<1>6. (InStep(c)' => InStep(c) /\ half # c) /\ Total(c)' = Total(c)
  BY <1>3, <1>5 DEF InStep, Total, clientVars
<1> HIDE DEF n, made, blocks, sends
<1>7. ASSUME state[c] = "wait" PROVE Taken(c)'
  <2>1. Taken(c) /\ made.n = n
    BY <1>1, <1>2, <1>7 DEF After, made, n
  <2>2. Good(c, begun[c].reply)' <=> sends.prepared \/ sends.blocks =
              Stream(info[c].nonce, counter[c], 4 * sends.n, clientEpoch[c])
    BY <1>4, <1>5 DEF Good, Stream, clientVars
  <2>3. InStep(c) => Good(c, made)
    BY <1>1, <2>1 DEF Taken, made
  <2>4. InStep(c) => Good(c, begun[c].reply)'
    BY <1>4, <2>1, <2>2, <2>3 DEF Good
  <2>5. QED
    BY <1>3, <1>4, <1>5, <1>6, <2>1, <2>4 DEF Taken, n, clientVars
<1>8. After(c)'
  BY <1>1, <1>2, <1>3, <1>4, <1>5, <1>7 DEF After, n, clientVars
<1>9. NonceKept(c)' /\ Wrongs(c)'
  BY <1>1, <1>3, <1>5 DEF NonceKept, Wrongs, clientVars
<1>10. QED
  BY <1>3, <1>8, <1>9 DEF Talks

\* a reply is sent, or cannot be
LEMMA Sends ==
  ASSUME CounterInv, NEW c \in Clients, NEW sends, Replies(c, sends),
         After(c), state[c] \in {"off", "wait"}, thread[c] \notin {"none", "init", "modify"},
         toServer'[c] = << >>, info'[c] # None, info'[c].nonce = info[c].nonce,
         UNCHANGED <<state, nonce, counter, stored, clientEpoch, result, epoch, torn, strayed>>,
         sends.n \in Batches,
         state[c] = "wait" =>
            /\ toClient[c] = << >> /\ counter[c] + 4 * sends.n <= MaxCounter
            /\ InStep(c) => counter[c] + 4 * sends.n = Total(c)' /\ Good(c, sends)
  PROVE  Talks(c)' /\ NonceKept(c)' /\ Wrongs(c)'
<1>1. Shape /\ NonceKept(c) /\ Wrongs(c) /\ info[c] # None
  BY DEF CounterInv, After
<1>2. NonceKept(c)'
  BY <1>1 DEF NonceKept
<1>3. CASE thread'[c] = "serve" /\ toClient'[c] = Append(toClient[c], sends)
  <2>1. ASSUME state[c] = "wait" PROVE Replied(c)'
    <3>1. toClient'[c] = <<sends>>
      BY <1>3, <2>1, Queue
    <3>2. toClient'[c] # << >> /\ Only(toClient'[c]) /\ Head(toClient'[c]) = sends
      BY <3>1, Queue
    <3>3. Good(c, sends) => Good(c, Head(toClient[c]))'
      BY <3>2 DEF Good, Stream
    <3>4. InStep(c)' = InStep(c)
      BY DEF InStep
    <3>5. Only(toClient[c])'
      BY <3>2 DEF Only
    <3>6. /\ Head(toClient'[c]).n \in Batches
          /\ counter'[c] + 4 * Head(toClient'[c]).n <= MaxCounter
          /\ InStep(c)' => counter'[c] + 4 * Head(toClient'[c]).n = Total(c)'
      BY <2>1, <3>2, <3>4
    <3>7. InStep(c)' => Good(c, Head(toClient[c]))'
      BY <2>1, <3>3, <3>4
    <3>8. QED
      BY <1>3, <3>2, <3>5, <3>6, <3>7 DEF Replied
  <2>2. After(c)'
    BY <1>3, <2>1 DEF After
  <2>3. QED
    BY <1>1, <1>2, <1>3, <2>2 DEF Talks, Wrongs
<1>4. CASE state[c] = "off" /\ thread'[c] = "none" /\ toClient'[c] = << >>
  <2>1. Before(c)'
    BY <1>4 DEF Before
  <2>2. QED
    BY <1>1, <1>2, <1>4, <2>1 DEF Talks, Wrongs
<1>5. QED
  BY <1>1, <1>3, <1>4 DEF Replies, Shape, TypeOK

LEMMA ThreadRefuses ==
  ASSUME CounterInv, NEW c \in Clients, RefuseKeys(c)
  PROVE  Talks(c)' /\ NonceKept(c)' /\ Wrongs(c)'
<1>1. /\ Shape /\ After(c) /\ Only(toServer[c]) /\ Head(toServer[c]).n \in Batches
      /\ state[c] \in {"off", "wait"} /\ (state[c] = "wait" => Sent(c)) /\ thread[c] = "serve"
  BY Asked DEF CounterInv, RefuseKeys, Asks
<1>2. PICK sends \in Held(c, Head(toServer[c]).n) : Replies(c, sends)
  BY DEF RefuseKeys
<1>3. sends.n = Head(toServer[c]).n
  BY <1>2 DEF Held, NoReply
<1>4. toServer'[c] = << >>
  BY <1>1, OnlyTail DEF RefuseKeys, Shape
<1>5. /\ UNCHANGED <<state, nonce, counter, stored, clientEpoch, result, epoch, torn, strayed>>
      /\ info' = info
  BY DEF RefuseKeys, enclaveVars
<1>6. info'[c] # None
  BY <1>1, <1>5 DEF After
<1>7. state[c] = "wait" => ~InStep(c)
  BY <1>1 DEF Sent, InStep, RefuseKeys
<1>8. state[c] = "wait" => toClient[c] = << >> /\ counter[c] + 4 * sends.n <= MaxCounter
  BY <1>1, <1>3 DEF Sent
<1>9. state[c] = "wait" =>
         /\ toClient[c] = << >> /\ counter[c] + 4 * sends.n <= MaxCounter
         /\ InStep(c) => counter[c] + 4 * sends.n = Total(c)' /\ Good(c, sends)
  BY <1>7, <1>8
<1>10. info'[c].nonce = info[c].nonce /\ sends.n \in Batches
  BY <1>1, <1>3, <1>5
<1>11. QED
  BY <1>1, <1>2, <1>4, <1>5, <1>6, <1>9, <1>10, Sends

LEMMA ThreadCounts ==
  ASSUME CounterInv, NEW c \in Clients, EndKeys(c)
  PROVE  Talks(c)' /\ NonceKept(c)' /\ Wrongs(c)'
<1>1. Shape /\ thread[c] = "adding" /\ Replies(c, begun[c].reply)
  BY DEF CounterInv, EndKeys
<1>2. /\ After(c) /\ begun[c].n \in Batches /\ begun[c].current \in Nat /\ info[c] # None
      /\ toServer[c] = << >> /\ state[c] \in {"off", "wait"} /\ (state[c] = "wait" => Taken(c))
  BY <1>1, Computes
<1>3. begun[c].reply.n = begun[c].n
  BY <1>1, <1>2 DEF After
<1>4. /\ UNCHANGED <<state, nonce, counter, stored, clientEpoch, toServer, result, epoch, half, torn,
                     strayed>>
  BY DEF EndKeys
<1>5. /\ info'[c] # None /\ info'[c].previous = info[c].previous /\ info'[c].nonce = info[c].nonce
      /\ info'[c].current = begun[c].current + 4 * begun[c].n
      /\ info[c].previous \in Nat /\ begun[c].n \in Nat
  BY <1>1, <1>2, Counts, Fields
<1>6. ASSUME state[c] = "wait", InStep(c)
      PROVE  counter[c] + 4 * begun[c].n = Total(c)' /\ Good(c, begun[c].reply)
  <2>1. /\ counter[c] = Total(c) /\ half # c /\ begun[c].current = info[c].current
        /\ Good(c, begun[c].reply)
    BY <1>1, <1>2, <1>6 DEF Taken
  <2>2. QED
    BY <1>2, <1>4, <1>5, <2>1 DEF Total
<1>7. state[c] = "wait" => toClient[c] = << >> /\ counter[c] + 4 * begun[c].n <= MaxCounter
  BY <1>2 DEF Taken
<1>8. state[c] = "wait" =>
         /\ toClient[c] = << >> /\ counter[c] + 4 * begun[c].reply.n <= MaxCounter
         /\ InStep(c) => /\ counter[c] + 4 * begun[c].reply.n = Total(c)'
                         /\ Good(c, begun[c].reply)
  BY <1>3, <1>6, <1>7
<1>9. begun[c].reply.n \in Batches /\ toServer'[c] = << >>
  BY <1>2, <1>3, <1>4
<1>10. QED
  BY <1>1, <1>2, <1>4, <1>5, <1>8, <1>9, Sends

LEMMA ThreadStops ==
  ASSUME CounterInv, NEW c \in Clients, ThreadEnds(c)
  PROVE  Talks(c)' /\ NonceKept(c)' /\ Wrongs(c)'
<1>1. Shape /\ Talks(c) /\ NonceKept(c) /\ Wrongs(c)
  BY DEF CounterInv
<1>2. /\ state[c] = "off" /\ toServer[c] = << >> /\ toClient'[c] = << >> /\ thread'[c] = "none"
      /\ UNCHANGED <<state, nonce, counter, stored, clientEpoch, toServer, result, info, strayed>>
  BY <1>1 DEF ThreadEnds, Shape, TypeOK, enclaveVars, history
<1>3. Before(c)'
  BY <1>2 DEF Before
<1>4. QED
  BY <1>1, <1>2, <1>3 DEF Talks, NonceKept, Wrongs

-----------------------------------------------------------------------------
(* The theorems of the CTR mode *)

LEMMA TalksNext ==
  ASSUME CounterInv, [Next]_vars, NEW c \in Clients
  PROVE  Talks(c)' /\ NonceKept(c)' /\ Wrongs(c)'
<1>1. ASSUME NEW d \in Clients, Start(d) \/ ClientStep(d) \/ Kill(d) \/ ThreadStep(d)
      PROVE  Talks(c)' /\ NonceKept(c)' /\ Wrongs(c)'
  <2>1. CASE FoldAdds(d) \/ FoldClears(d)
    BY <2>1, FoldsKeep, UnmovedKeeps
  <2>2. CASE c # d
    BY <1>1, <2>1, <2>2, OthersUnmoved, UnmovedKeeps DEF ThreadStep
  <2>3. CASE c = d
    BY <1>1, <2>1, <2>3, OwnStart, OwnSentBack, OwnLogin, OwnHashes, OwnKeys, OwnEnd, ThreadComes,
       ThreadModifies, ThreadBegins, ThreadMasks, ThreadReplies, ThreadRefuses, ThreadCounts,
       ThreadStops DEF ClientStep, ThreadStep
  <2>4. QED
    BY <2>2, <2>3
<1>2. CASE ClaimMasks \/ GenerateMasks \/ UpdateKey \/ UNCHANGED vars
  BY <1>2, ServerKeeps, UnmovedKeeps
<1>3. CASE Attest
  BY <1>3, AttestKeeps
<1>4. QED
  BY <1>1, <1>2, <1>3 DEF Next

LEMMA CounterNext == CounterInv /\ [Next]_vars => CounterInv'
<1> SUFFICES ASSUME CounterInv, [Next]_vars PROVE CounterInv'
  OBVIOUS
<1>1. Shape' /\ Counted' /\ Unfolded'
  BY ShapeNext, CountedNext, UnfoldedNext DEF CounterInv
<1>2. ASSUME NEW c \in Clients PROVE (Folding(c) /\ Talks(c) /\ NonceKept(c) /\ Wrongs(c))'
  BY UnfoldedNext, TalksNext
<1>3. QED
  BY <1>1, <1>2 DEF CounterInv

LEMMA CounterHolds == Spec => []CounterInv
BY CounterInit, CounterNext, PTL DEF Spec

LEMMA InvMatch == CounterInv => CountersMatch
<1> SUFFICES ASSUME CounterInv, NEW c \in Clients,
                    state[c] = "ready", clientEpoch[c] = epoch, c \notin torn
             PROVE  info[c] # None /\ counter[c] = Total(c)
  BY DEF CountersMatch
<1>1. After(c)
  BY DEF CounterInv, Talks, Before
<1>2. QED
  BY <1>1 DEF After, InStep

(* The types of the CTR mode's variables: with it, that the client's counter does not go beyond its
   bound, that the login that is in the enclave goes through entries there are, and that the key
   server counts no less than its threads. *)
THEOREM CTRTypes == Spec => []TypeOK
<1>1. CounterInv => TypeOK
  BY DEF CounterInv, Shape
<1>2. QED
  BY CounterHolds, <1>1, PTL

(* For any clients, batches, regions and slots, and whatever clients are killed: between two
   batches, a client and the enclave have counted the same blocks, unless a login has cut through a
   batch of the client or its session key is out of date. *)
THEOREM CountersAgree == Spec => []CountersMatch
BY CounterHolds, InvMatch, PTL

(* For any clients, batches, regions and slots, and whatever clients are killed: fresh keys that
   pass the client's hmac check are right, but for the three ways in which the code gets them
   wrong. *)
THEOREM FreshKeysRight == Spec => []KeysRight
<1>1. CounterInv => KeysRight
  BY DEF CounterInv, Wrongs, KeysRight
<1>2. QED
  BY CounterHolds, <1>1, PTL

-----------------------------------------------------------------------------
(* The CFB mode *)

\* the clients that a thread is counted for
Serving == {c \in Client : worker[c] \in {"recv", "ecall", "send"}}

LEMMA SomeFinite ==
  ASSUME NEW S \in SUBSET Client
  PROVE  /\ IsFiniteSet(S) /\ Cardinality(S) \in Nat /\ Cardinality(Client) \in Nat
         /\ Cardinality(S) <= Cardinality(Client)
BY CFBAssumption, FS_Subset, FS_CardinalityType

LEMMA OneMore ==
  ASSUME NEW S \in SUBSET Client, NEW c \in Client \ S
  PROVE  Cardinality(S \cup {c}) = Cardinality(S) + 1
BY SomeFinite, FS_AddElement

LEMMA OneLess ==
  ASSUME NEW S \in SUBSET Client, NEW c \in S
  PROVE  Cardinality(S \ {c}) = Cardinality(S) - 1
BY SomeFinite, FS_RemoveElement

-----------------------------------------------------------------------------
(* Types, and the count *)

Types ==
    /\ client \in [Client -> {"start", "connect", "send", "wait", "end", "failed", "dead"}]
    /\ worker \in [Client -> {"none", "enter", "recv", "ecall", "send", "return"}]
    /\ skey \in [Client -> 0 .. Renewals]
    /\ sent \in [Client -> Nat] /\ \A c \in Client : sent[c] <= Len(HashBatches[c])
    /\ current \in 0 .. Renewals /\ (renewing => current < Renewals)
    /\ killed \in 0 .. Kills /\ count \in Nat

\* a connection's thread starts in the state "enter" once, when its client connects
Threads == \A c \in Client : client[c] \in {"start", "connect"} => worker[c] = "none"

CountInv == Types /\ Threads /\ count = Cardinality(Serving)

LEMMA CountInit == CFBInit => CountInv
<1> SUFFICES ASSUME CFBInit PROVE CountInv
  OBVIOUS
<1> USE CFBAssumption
<1>1. 0 \in 0 .. Renewals /\ 0 \in 0 .. Kills
  OBVIOUS
<1>2. \A c \in Client : 0 <= Len(HashBatches[c])
  OBVIOUS
<1>3. Types /\ Threads
  BY <1>1, <1>2 DEF CFBInit, Types, Threads
<1>4. Serving = {}
  BY DEF CFBInit, Serving
<1>5. QED
  BY <1>3, <1>4, FS_EmptySet DEF CFBInit, CountInv

LEMMA ClientTypes ==
  ASSUME CountInv, NEW c \in Client, ClientMoves(c) \/ KillClient(c)
  PROVE  CountInv'
<1> USE DEF CountInv, Types, ClientGoes, wireVars
<1>1. CASE GetSessionKey(c)
  BY <1>1 DEF GetSessionKey, threadVars, Threads, Serving
<1>2. CASE Connect(c)
  <2>1. Serving' = Serving
    BY <1>2 DEF Connect, Threads, Serving
  <2>2. QED BY <1>2, <2>1 DEF Connect, Threads
<1>3. CASE SendBatch(c)
  <2>1. sent[c] + 1 \in Nat /\ sent[c] + 1 <= Len(HashBatches[c])
    BY <1>3, CFBAssumption DEF SendBatch
  <2>2. sent' \in [Client -> Nat] /\ \A d \in Client : sent'[d] <= Len(HashBatches[d])
    BY <1>3, <2>1 DEF SendBatch
  <2>3. QED BY <1>3, <2>2 DEF SendBatch, threadVars, Threads, Serving
<1>4. CASE AcceptReply(c)
  BY <1>4 DEF AcceptReply, threadVars, Threads, Serving
<1>5. CASE RefuseReply(c)
  BY <1>5 DEF RefuseReply, threadVars, Threads, Serving
<1>6. CASE Leave(c)
  BY <1>6 DEF Leave, threadVars, Threads, Serving
<1>7. CASE KillClient(c)
  <2>1. killed' \in 0 .. Kills
    BY <1>7, CFBAssumption DEF KillClient
  <2>2. QED BY <1>7, <2>1 DEF KillClient, threadVars, Threads, Serving
<1>8. QED
  BY <1>1, <1>2, <1>3, <1>4, <1>5, <1>6, <1>7 DEF ClientMoves

LEMMA ThreadTypes ==
  ASSUME CountInv, NEW c \in Client, ThreadMoves(c)
  PROVE  CountInv'
<1> USE DEF CountInv, Types, ThreadGoes, keyVars, wireVars, Threads
<1>1. CASE ThreadEnters(c)
  <2>1. Serving' = Serving \cup {c} /\ c \notin Serving /\ Serving \in SUBSET Client
    BY <1>1 DEF ThreadEnters, Serving
  <2>2. count' = Cardinality(Serving') /\ count' \in Nat
    BY <1>1, <2>1, OneMore DEF ThreadEnters
  <2>3. QED BY <1>1, <2>2 DEF ThreadEnters
<1>2. CASE ReceiveHashes(c)
  BY <1>2 DEF ReceiveHashes, Serving
<1>3. CASE Generate(c)
  BY <1>3 DEF Generate, Serving
<1>4. CASE SendKeys(c)
  BY <1>4 DEF SendKeys, Serving
<1>5. CASE ThreadReturns(c)
  <2>1. Serving' = Serving \ {c} /\ c \in Serving /\ Serving \in SUBSET Client
    BY <1>5 DEF ThreadReturns, Serving
  <2>2. count' = Cardinality(Serving')
    BY <1>5, <2>1, OneLess DEF ThreadReturns
  <2>3. count' \in Nat
    BY <2>1, <2>2, SomeFinite
  <2>4. QED BY <1>5, <2>1, <2>2, <2>3 DEF ThreadReturns
<1>6. QED
  BY <1>1, <1>2, <1>3, <1>4, <1>5 DEF ThreadMoves

LEMMA RenewTypes == CountInv /\ (SeeNobody \/ Renew) => CountInv'
<1> SUFFICES ASSUME CountInv, SeeNobody \/ Renew PROVE CountInv'
  OBVIOUS
<1> USE DEF CountInv, Types, Threads, Serving, keyVars, wireVars, threadVars
<1>1. CASE SeeNobody
  BY <1>1 DEF SeeNobody
<1>2. CASE Renew
  BY <1>2, CFBAssumption DEF Renew
<1>3. QED
  BY <1>1, <1>2

LEMMA CountStep == CountInv /\ [CFBNext]_cfbVars => CountInv'
<1> SUFFICES ASSUME CountInv, [CFBNext]_cfbVars PROVE CountInv'
  OBVIOUS
<1>1. CASE UNCHANGED cfbVars
  BY <1>1 DEF cfbVars, keyVars, wireVars, threadVars, CountInv, Types, Threads, Serving
<1>2. QED
  BY <1>1, ClientTypes, ThreadTypes, RenewTypes DEF CFBNext

LEMMA Counting == CFBSpec => []CountInv
BY CountInit, CountStep, PTL DEF CFBSpec

\* Every variable keeps its type; no more threads are counted than there are clients.
THEOREM CFBTypes == CFBSpec => []CFBTypeOK
<1>1. CountInv => CFBTypeOK
  <2> SUFFICES ASSUME CountInv PROVE CFBTypeOK
    OBVIOUS
  <2>1. count \in 0 .. Cardinality(Client)
    BY SomeFinite DEF CountInv, Serving
  <2>2. ASSUME NEW c \in Client PROVE skey[c] \in 0 .. Renewals /\ sent[c] \in 0 .. Len(HashBatches[c])
    BY <2>2, CFBAssumption DEF CountInv, Types
  <2>3. QED BY <2>1, <2>2 DEF CountInv, Types, CFBTypeOK
<1>2. QED
  BY <1>1, Counting, PTL

\* The count of client threads is right whatever clients are killed and wherever their threads
\* return: the key server sees that nobody is there when nobody is.
THEOREM CountRight == CFBSpec => []ThreadsCounted
<1>1. CountInv => ThreadsCounted
  BY DEF CountInv, Serving, ThreadsCounted
<1>2. QED
  BY <1>1, Counting, PTL

-----------------------------------------------------------------------------
(* Answers, while the client's session key is the enclave's: what is on its way is this      *)
(* client's batch; and it is in one place.                                                    *)

Own(c) == Message(skey[c], HashBatches[c][sent[c]])

\* m is the client's, unless its session key is an old one
Right(c, m) == skey[c] = current => m = Own(c)

OnItsWay(c) ==
    /\ request[c] # Nothing => Right(c, request[c])
    /\ worker[c] = "ecall" => Right(c, asked[c]) /\ request[c] = Nothing
    /\ worker[c] = "send" => Right(c, answer[c]) /\ request[c] = Nothing
    /\ reply[c] # Nothing =>
           Right(c, reply[c]) /\ request[c] = Nothing /\ worker[c] \notin {"ecall", "send"}
    /\ client[c] \in {"start", "connect", "send"} =>
           request[c] = Nothing /\ reply[c] = Nothing /\ worker[c] \notin {"ecall", "send"}

OwnInv ==
    /\ CountInv /\ (\A c \in Client : skey[c] <= current)
    /\ request = [c \in Client |-> request[c]] /\ reply = [c \in Client |-> reply[c]]
    /\ asked = [c \in Client |-> asked[c]] /\ answer = [c \in Client |-> answer[c]]
    /\ \A c \in Client : OnItsWay(c)

LEMMA OwnInit == CFBInit => OwnInv
<1> SUFFICES ASSUME CFBInit PROVE OwnInv
  OBVIOUS
<1>1. CountInv
  BY CountInit
<1>2. \A c \in Client : OnItsWay(c)
  BY DEF CFBInit, OnItsWay
<1>3. QED
  BY <1>1, <1>2 DEF CFBInit, OwnInv

\* what is done for one client leaves what is on its way for the others
LEMMA OtherOnItsWay ==
  ASSUME NEW c \in Client, OnItsWay(c),
         /\ request'[c] = request[c] /\ reply'[c] = reply[c] /\ asked'[c] = asked[c]
         /\ answer'[c] = answer[c] /\ worker'[c] = worker[c] /\ sent'[c] = sent[c]
         /\ skey'[c] = skey[c] /\ current' = current
         /\ client'[c] = client[c] \/ client'[c] \notin {"start", "connect", "send"}
  PROVE  OnItsWay(c)'
BY DEF OnItsWay, Own, Right

LEMMA ClientOwn ==
  ASSUME OwnInv, NEW c \in Client, ClientMoves(c) \/ KillClient(c)
  PROVE  OwnInv'
<1> USE DEF OwnInv, ClientGoes, wireVars, threadVars
<1>1. CountInv'
  BY ClientTypes
<1>2. ASSUME NEW d \in Client, d # c PROVE OnItsWay(d)'
  <2>1. /\ request'[d] = request[d] /\ reply'[d] = reply[d] /\ asked'[d] = asked[d]
        /\ answer'[d] = answer[d] /\ worker'[d] = worker[d] /\ sent'[d] = sent[d]
        /\ client'[d] = client[d] /\ skey'[d] = skey[d] /\ current' = current
    BY <1>2 DEF ClientMoves, GetSessionKey, Connect, SendBatch, AcceptReply, RefuseReply, Leave,
                KillClient, CountInv, Types
  <2>2. QED BY <2>1, OtherOnItsWay
<1>3. CASE GetSessionKey(c)
  <2>1. OnItsWay(c)'
    BY <1>3 DEF GetSessionKey, OnItsWay, CountInv, Types
  <2>2. \A d \in Client : skey'[d] <= current'
    BY <1>3 DEF GetSessionKey, CountInv, Types
  <2>3. QED BY <1>1, <1>2, <1>3, <2>1, <2>2 DEF GetSessionKey
<1>4. CASE Connect(c)
  <2>1. OnItsWay(c)'
    BY <1>4 DEF Connect, OnItsWay, Own, Right, CountInv, Types
  <2>2. QED BY <1>1, <1>2, <1>4, <2>1 DEF Connect
<1>5. CASE SendBatch(c)
  <2>1. request'[c] = Own(c)'
    BY <1>5 DEF SendBatch, Own, CountInv, Types
  <2>2. reply'[c] = Nothing /\ worker'[c] \notin {"ecall", "send"} /\ client'[c] = "wait"
    BY <1>5 DEF SendBatch, OnItsWay, CountInv, Types
  <2>3. OnItsWay(c)'
    BY <2>1, <2>2 DEF OnItsWay, Right
  <2>4. QED BY <1>1, <1>2, <1>5, <2>3 DEF SendBatch
<1>6. CASE AcceptReply(c)
  <2>1. /\ request'[c] = Nothing /\ reply'[c] = Nothing
        /\ worker'[c] \notin {"ecall", "send"}
    BY <1>6 DEF AcceptReply, OnItsWay
  <2>2. OnItsWay(c)'
    BY <2>1 DEF OnItsWay
  <2>3. QED BY <1>1, <1>2, <1>6, <2>2 DEF AcceptReply
<1>7. CASE RefuseReply(c)
  <2>1. /\ request'[c] = Nothing /\ reply'[c] = Nothing
        /\ worker'[c] \notin {"ecall", "send"}
    BY <1>7 DEF RefuseReply, OnItsWay
  <2>2. OnItsWay(c)'
    BY <2>1 DEF OnItsWay
  <2>3. QED BY <1>1, <1>2, <1>7, <2>2 DEF RefuseReply
<1>8. CASE Leave(c)
  <2>1. OnItsWay(c)'
    BY <1>8 DEF Leave, OnItsWay, Own, Right, CountInv, Types
  <2>2. QED BY <1>1, <1>2, <1>8, <2>1 DEF Leave
<1>9. CASE KillClient(c)
  <2>1. client'[c] = "dead"
    BY <1>9 DEF KillClient, CountInv, Types
  <2>2. OnItsWay(c)'
    BY <1>9, <2>1, OtherOnItsWay DEF KillClient
  <2>3. QED BY <1>1, <1>2, <1>9, <2>2 DEF KillClient
<1>10. QED
  BY <1>3, <1>4, <1>5, <1>6, <1>7, <1>8, <1>9 DEF ClientMoves

LEMMA ThreadOwn ==
  ASSUME OwnInv, NEW c \in Client, ThreadMoves(c)
  PROVE  OwnInv'
<1> USE DEF OwnInv, ThreadGoes, keyVars, wireVars
<1>1. CountInv'
  BY ThreadTypes
<1>2. ASSUME NEW d \in Client, d # c PROVE OnItsWay(d)'
  <2>1. /\ request'[d] = request[d] /\ reply'[d] = reply[d] /\ asked'[d] = asked[d]
        /\ answer'[d] = answer[d] /\ worker'[d] = worker[d] /\ sent'[d] = sent[d]
        /\ client'[d] = client[d] /\ skey'[d] = skey[d] /\ current' = current
    BY <1>2 DEF ThreadMoves, ThreadEnters, ReceiveHashes, Generate, SendKeys, ThreadReturns,
                CountInv, Types
  <2>2. QED BY <2>1, OtherOnItsWay
<1>3. CASE ThreadEnters(c)
  <2>1. OnItsWay(c)'
    BY <1>3 DEF ThreadEnters, OnItsWay, Own, Right, CountInv, Types
  <2>2. QED BY <1>1, <1>2, <1>3, <2>1 DEF ThreadEnters
<1>4. CASE ReceiveHashes(c)
  <2>1. /\ Right(c, asked'[c]) /\ request'[c] = Nothing /\ reply'[c] = Nothing
        /\ worker'[c] = "ecall" /\ client'[c] \notin {"start", "connect", "send"}
    BY <1>4 DEF ReceiveHashes, OnItsWay, CountInv, Types
  <2>2. OnItsWay(c)'
    BY <1>4, <2>1 DEF ReceiveHashes, OnItsWay, Own, Right
  <2>3. QED BY <1>1, <1>2, <1>4, <2>2 DEF ReceiveHashes
<1>5. CASE Generate(c)
  <2>1. skey[c] = current => Keygen(asked[c]) = {Own(c)}
    BY <1>5 DEF Generate, OnItsWay, Right, Own, Message, Keygen
  <2>2. /\ Right(c, answer'[c]) /\ request'[c] = Nothing /\ reply'[c] = Nothing
        /\ worker'[c] = "send" /\ client'[c] \notin {"start", "connect", "send"}
    BY <1>5, <2>1 DEF Generate, OnItsWay, Right, CountInv, Types
  <2>3. OnItsWay(c)'
    BY <1>5, <2>2 DEF Generate, OnItsWay, Own, Right
  <2>4. answer' = [d \in Client |-> answer'[d]]
    BY <1>5 DEF Generate
  <2>5. QED BY <1>1, <1>2, <1>5, <2>3, <2>4 DEF Generate
<1>6. CASE SendKeys(c)
  <2>1. /\ Right(c, reply'[c]) /\ request'[c] = Nothing
        /\ worker'[c] = "recv" /\ client'[c] \notin {"start", "connect", "send"}
    BY <1>6 DEF SendKeys, OnItsWay, CountInv, Types
  <2>2. OnItsWay(c)'
    BY <1>6, <2>1 DEF SendKeys, OnItsWay, Own, Right
  <2>3. QED BY <1>1, <1>2, <1>6, <2>2 DEF SendKeys
<1>7. CASE ThreadReturns(c)
  <2>1. OnItsWay(c)'
    BY <1>7 DEF ThreadReturns, OnItsWay, Own, Right, CountInv, Types
  <2>2. QED BY <1>1, <1>2, <1>7, <2>1 DEF ThreadReturns
<1>8. QED
  BY <1>3, <1>4, <1>5, <1>6, <1>7 DEF ThreadMoves

LEMMA RenewOwn == OwnInv /\ (SeeNobody \/ Renew) => OwnInv'
<1> SUFFICES ASSUME OwnInv, SeeNobody \/ Renew PROVE OwnInv'
  OBVIOUS
<1> USE DEF OwnInv, keyVars, wireVars, threadVars
<1>1. CountInv'
  BY RenewTypes
<1>2. CASE SeeNobody
  BY <1>1, <1>2 DEF SeeNobody, OnItsWay, Own, Right
<1>3. CASE Renew
  <2>1. \A c \in Client : skey'[c] <= current' /\ skey'[c] # current'
    BY <1>3 DEF Renew, CountInv, Types
  <2>2. \A c \in Client : OnItsWay(c)'
    BY <1>3, <2>1 DEF Renew, OnItsWay, Right
  <2>3. QED BY <1>1, <1>3, <2>1, <2>2 DEF Renew
<1>4. QED
  BY <1>2, <1>3

LEMMA OwnStep == OwnInv /\ [CFBNext]_cfbVars => OwnInv'
<1> SUFFICES ASSUME OwnInv, [CFBNext]_cfbVars PROVE OwnInv'
  OBVIOUS
<1>1. CASE UNCHANGED cfbVars
  BY <1>1 DEF cfbVars, keyVars, wireVars, threadVars, OwnInv, CountInv, Types, Threads, Serving,
              OnItsWay, Own, Right
<1>2. QED
  BY <1>1, ClientOwn, ThreadOwn, RenewOwn DEF CFBNext

\* A client gets the answer to the batch it has sent and to no other, whatever clients there are
\* and are killed, as long as the enclave has the session key this client has.
THEOREM OwnAnswers == CFBSpec => []AnswersOwn
<1>1. CFBInit => OwnInv
  BY OwnInit
<1>2. OwnInv /\ [CFBNext]_cfbVars => OwnInv'
  BY OwnStep
<1>3. OwnInv => AnswersOwn
  BY DEF OwnInv, OnItsWay, Right, Own, Message, AnswersOwn
<1>4. QED
  BY <1>1, <1>2, <1>3, PTL DEF CFBSpec
=============================================================================
