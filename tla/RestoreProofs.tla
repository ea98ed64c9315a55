--------------------------- MODULE RestoreProofs ---------------------------
(***************************************************************************)
(* A restore copies the file, and its batches stay within the list the     *)
(* client asked for, for all files, sizes of batches and queues, whatever  *)
(* is uploaded meanwhile and wherever the server dies.                     *)
(***************************************************************************)
EXTENDS Restore, TLAPS

SizeM == [type |-> "listSize"]
ListM == [type |-> "list", chunks |-> File]
LoadM == [type |-> "download"]
ExitM == [type |-> "exit"]

At(state, messages) == server = state /\ toServer = messages

\* no batch has been sent
NoBatch == startID = 0 /\ endID = 0 /\ restored = 0

\* how far a live server is with the three messages a client sends for its chunks
Serving ==
    \/ At("loop", <<SizeM, ListM, LoadM>>) /\ NoBatch
    \/ At("list", <<ListM, LoadM>>) /\ NoBatch
    \/ At("loop", <<LoadM>>) /\ requested = File /\ NoBatch
    \/ At("batch", << >>) /\ requested = File
    \/ At("loop", << >>)

\* and when the client has left behind them
Leaving ==
    \/ At("loop", <<SizeM, ListM, LoadM, ExitM>>) /\ NoBatch
    \/ At("list", <<ListM, LoadM, ExitM>>) /\ NoBatch
    \/ At("loop", <<LoadM, ExitM>>) /\ requested = File /\ NoBatch
    \/ At("batch", <<ExitM>>) /\ requested = File
    \/ At("loop", <<ExitM>>)
    \/ At("loop", << >>)

Early == {"ask", "size", "recipe", "sendSize", "sendList", "request"}

(* The server has taken what the client has sent, up to what is on its way. *)
Talk ==
    \/ server = "gone" /\ toServer = << >>
    \/ client = "ask" /\ At("loop", << >>)
    \/ client = "size" /\ \/ At("loop", <<[type |-> "recipe"]>>) /\ toClient = << >>
                          \/ At("loop", << >>) /\ toClient = <<[type |-> "notExist"]>>
                          \/ At("read", << >>) /\ \E m : toClient = <<m>> /\ m.type = "size"
                          \/ /\ At("loop", << >>) /\ total = Len(File)
                             /\ \E m, n : toClient = <<m, n>> /\ m.type = "size"
    \/ client = "recipe" /\ \/ At("read", << >>) /\ toClient = << >>
                            \/ At("loop", << >>) /\ toClient # << >> /\ total = Len(File)
    \/ client = "sendSize" /\ At("loop", << >>) /\ total = Len(File)
    \/ /\ client = "sendList" /\ total = Len(File)
       /\ At("loop", <<SizeM>>) \/ At("list", << >>)
    \/ /\ client = "request" /\ total = Len(File)
       /\ \/ At("loop", <<SizeM, ListM>>)
          \/ At("list", <<ListM>>)
          \/ At("loop", << >>) /\ requested = File
    \/ client \in {"recv", "insert", "done", "exit"} /\ total = Len(File) /\ Serving
    \/ client = "exited" /\ total = Len(File) /\ Leaving
    \/ client = "exited" /\ At("loop", << >>)

(* Before the client asks for chunks no chunk is anywhere, and what is on its way to it is the
   answers it waits for. *)
Quiet ==
    client \in Early =>
        /\ NoBatch
        /\ received = 0 /\ pending = << >> /\ queue = << >> /\ written = << >>
        /\ client \in {"ask", "sendSize", "sendList", "request"} => toClient = << >>
        /\ client = "size" => \/ toClient = << >>
                              \/ \E m : toClient = <<m>>
                              \/ \E m, n : toClient = <<m, n>> /\ m.type = "size"
        /\ client = "recipe" => toClient = << >> \/ \E m : toClient = <<m>>

(* The arithmetic of the batches. *)
Counters ==
    server = "batch" =>
        /\ total = Len(requested) /\ requested = File
        /\ restored = startID /\ startID <= total
        /\ restored # total => startID <= endID /\ endID <= total

(* The list is the file's, and what the client has taken lies one after the other on the disk,
   in the queue and in the buffer. *)
FromFile(items, first) ==
    \A i \in DOMAIN items : items[i] \in {File[first + i], Damaged}

Places ==
    /\ client \in {"sendSize", "sendList", "request"} \/ Running => list = File
    /\ client = "recv" => pending = << >>
    /\ client \in {"done", "failed"} => pending = << >>
    /\ Running =>
          /\ received = Len(written) + Len(queue) + Len(pending)
          /\ FromFile(queue, Len(written))
          /\ FromFile(pending, Len(written) + Len(queue))

(* The batches on their way join up, from what the client has received to what the server has
   sent: starts[k] is the place of the k-th of them in the file. *)
BatchM == [type : {"batch"}, items : Files]

Joined(starts) ==
    /\ starts \in [1 .. Len(toClient) + 1 -> Nat]
    /\ starts[1] = received /\ starts[Len(toClient) + 1] = restored
    /\ \A k \in 1 .. Len(toClient) :
          /\ starts[k + 1] = starts[k] + Len(toClient[k].items)
          /\ FromFile(toClient[k].items, starts[k])

Batches ==
    client \in {"recv", "insert"} =>
        /\ toClient \in Seq(BatchM)
        /\ \E starts : Joined(starts)

RestoreInv == TypeOK /\ Talk /\ Quiet /\ Counters /\ Places /\ Batches

-----------------------------------------------------------------------------
LEMMA AppendIs ==
  ASSUME NEW S, NEW s \in Seq(S), NEW e \in S, NEW t \in Seq(S),
         Len(t) = Len(s) + 1, t[Len(t)] = e, \A i \in 1 .. Len(s) : s[i] = t[i]
  PROVE  Append(s, e) = t
<1>1. Append(s, e) \in Seq(S) /\ Len(Append(s, e)) = Len(t)
  OBVIOUS
<1>2. ASSUME NEW i \in 1 .. Len(t) PROVE Append(s, e)[i] = t[i]
  <2>1. CASE i = Len(s) + 1
    BY <2>1
  <2>2. CASE i \in 1 .. Len(s)
    BY <2>2
  <2>3. QED BY <2>1, <2>2
<1>3. QED BY <1>1, <1>2

LEMMA Tuples ==
  /\ \A A :
        /\ Head(<<A>>) = A /\ Tail(<<A>>) = << >>
        /\ <<A>> # << >> /\ Append(<< >>, A) = <<A>>
  /\ \A A, B :
        /\ Head(<<A, B>>) = A /\ Tail(<<A, B>>) = <<B>>
        /\ <<A, B>> # << >> /\ Append(<<A>>, B) = <<A, B>>
  /\ \A A, B, C :
        /\ Head(<<A, B, C>>) = A /\ Tail(<<A, B, C>>) = <<B, C>>
        /\ <<A, B, C>> # << >> /\ Append(<<A, B>>, C) = <<A, B, C>>
  /\ \A A, B, C, D :
        /\ Head(<<A, B, C, D>>) = A /\ Tail(<<A, B, C, D>>) = <<B, C, D>>
        /\ <<A, B, C, D>> # << >> /\ Append(<<A, B, C>>, D) = <<A, B, C, D>>
<1>1. ASSUME NEW A
      PROVE  /\ Head(<<A>>) = A /\ Tail(<<A>>) = << >>
             /\ <<A>> # << >> /\ Append(<< >>, A) = <<A>>
  OBVIOUS
<1>2. ASSUME NEW A, NEW B
      PROVE  /\ Head(<<A, B>>) = A /\ Tail(<<A, B>>) = <<B>>
             /\ <<A, B>> # << >> /\ Append(<<A>>, B) = <<A, B>>
  <2> DEFINE S == {A, B}  s == <<A>>  t == <<A, B>>
  <2>1. /\ Head(<<A, B>>) = A /\ Tail(<<A, B>>) = <<B>> /\ <<A, B>> # << >>
    OBVIOUS
  <2>2. /\ s \in Seq(S) /\ t \in Seq(S) /\ B \in S /\ Len(s) = 1 /\ Len(t) = 2
        /\ t[2] = B /\ \A i \in 1 .. 1 : s[i] = t[i]
    OBVIOUS
  <2> HIDE DEF s, t, S
  <2>3. Len(t) = Len(s) + 1 /\ t[Len(t)] = B /\ \A i \in 1 .. Len(s) : s[i] = t[i]
    BY <2>2
  <2>4. Append(s, B) = t
    BY <2>2, <2>3, AppendIs
  <2>5. QED BY <2>1, <2>4 DEF s, t
<1>3. ASSUME NEW A, NEW B, NEW C
      PROVE  /\ Head(<<A, B, C>>) = A /\ Tail(<<A, B, C>>) = <<B, C>>
             /\ <<A, B, C>> # << >> /\ Append(<<A, B>>, C) = <<A, B, C>>
  <2> DEFINE S == {A, B, C}  s == <<A, B>>  t == <<A, B, C>>
  <2>1. /\ Head(<<A, B, C>>) = A /\ Tail(<<A, B, C>>) = <<B, C>> /\ <<A, B, C>> # << >>
    OBVIOUS
  <2>2. /\ s \in Seq(S) /\ t \in Seq(S) /\ C \in S /\ Len(s) = 2 /\ Len(t) = 3
        /\ t[3] = C /\ \A i \in 1 .. 2 : s[i] = t[i]
    OBVIOUS
  <2> HIDE DEF s, t, S
  <2>3. Len(t) = Len(s) + 1 /\ t[Len(t)] = C /\ \A i \in 1 .. Len(s) : s[i] = t[i]
    BY <2>2
  <2>4. Append(s, C) = t
    BY <2>2, <2>3, AppendIs
  <2>5. QED BY <2>1, <2>4 DEF s, t
<1>4. ASSUME NEW A, NEW B, NEW C, NEW D
      PROVE  /\ Head(<<A, B, C, D>>) = A /\ Tail(<<A, B, C, D>>) = <<B, C, D>>
             /\ <<A, B, C, D>> # << >> /\ Append(<<A, B, C>>, D) = <<A, B, C, D>>
  <2> DEFINE S == {A, B, C, D}  s == <<A, B, C>>  t == <<A, B, C, D>>
  <2>1. /\ Head(<<A, B, C, D>>) = A /\ Tail(<<A, B, C, D>>) = <<B, C, D>> /\ <<A, B, C, D>> # << >>
    OBVIOUS
  <2>2. /\ s \in Seq(S) /\ t \in Seq(S) /\ D \in S /\ Len(s) = 3 /\ Len(t) = 4
        /\ t[4] = D /\ \A i \in 1 .. 3 : s[i] = t[i]
    OBVIOUS
  <2> HIDE DEF s, t, S
  <2>3. Len(t) = Len(s) + 1 /\ t[Len(t)] = D /\ \A i \in 1 .. Len(s) : s[i] = t[i]
    BY <2>2
  <2>4. Append(s, D) = t
    BY <2>2, <2>3, AppendIs
  <2>5. QED BY <2>1, <2>4 DEF s, t
<1>5. QED BY <1>1, <1>2, <1>3, <1>4

LEMMA Added ==
  ASSUME NEW S, NEW s \in Seq(S), NEW e \in S
  PROVE  /\ Append(s, e) \in Seq(S) /\ Len(Append(s, e)) = Len(s) + 1
         /\ Append(s, e)[Len(s) + 1] = e
         /\ \A i \in 1 .. Len(s) : Append(s, e)[i] = s[i]
OBVIOUS

LEMMA Rest ==
  ASSUME NEW S, NEW s \in Seq(S), s # << >>
  PROVE  /\ Head(s) = s[1] /\ s[1] \in S /\ Len(s) \in Nat \ {0}
         /\ Tail(s) \in Seq(S) /\ Len(Tail(s)) = Len(s) - 1
         /\ \A i \in 1 .. Len(s) - 1 : Tail(s)[i] = s[i + 1]
OBVIOUS

LEMMA Part ==
  ASSUME NEW S, NEW s \in Seq(S), NEW m \in 0 .. Len(s), NEW n \in m .. Len(s)
  PROVE  /\ SubSeq(s, m + 1, n) \in Seq(S) /\ Len(SubSeq(s, m + 1, n)) = n - m
         /\ \A i \in 1 .. n - m : SubSeq(s, m + 1, n)[i] = s[m + i]
OBVIOUS

LEMMA Modulo == \A x \in 0 .. IDLimit - 1 : x % IDLimit = x
BY RestoreAssumption

-----------------------------------------------------------------------------
LEMMA FileFacts ==
  ASSUME uploads \in Histories
  PROVE  /\ File \in Seq(Chunks) /\ Len(File) \in Nat /\ Len(File) + BatchSize < IDLimit
         /\ IDLimit \in Nat /\ BatchSize \in Nat \ {0}
<1>1. uploads \in Seq(Seq(Chunks)) /\ uploads # << >>
  BY RestoreAssumption
<1>2. 1 \in DOMAIN uploads /\ uploads[1] \in Seq(Chunks)
  BY <1>1
<1>3. QED
  BY <1>2, RestoreAssumption DEF File

LEMMA ServerOnly == ServerNext \/ Kill => UNCHANGED <<fileVars, clientVars>>
BY DEF ServerNext, AnnounceRecipe, SendRecipe, ReceiveListSize, ReceiveList, StartBatches,
       SendBatch, EndBatches, ServeExit, LostClient, Kill, fileVars, clientVars

LEMMA ClientOnly == RecvNext \/ SendHangs \/ WriteChunk => UNCHANGED <<fileVars, serverVars>>
BY DEF RecvNext, AskRecipe, RecvSize, RecvRecipe, SendListSize, SendList, RequestChunks,
       RecvBatch, Insert, Inserted, RunReturns, LostServer, Join, SendExit, SendStep, SendHangs,
       WriteChunk, fileVars, serverVars

LEMMA RestoreInit == Init => RestoreInv
<1> SUFFICES ASSUME Init PROVE RestoreInv
  OBVIOUS
<1>1. /\ uploads \in Histories /\ appended \in 0 .. 1 /\ uploads \in Seq(Seq(Chunks))
      /\ uploads # << >>
  BY RestoreAssumption DEF Init
<1>2. appended \in 0 .. Len(uploads)
  BY <1>1
<1>3. 0 \in 0 .. IDLimit - 1
  BY <1>1, FileFacts
<1>4. TypeOK
  BY <1>1, <1>2, <1>3 DEF Init, TypeOK, Files
<1>5. Talk
  BY DEF Init, Talk, At
<1>6. Quiet /\ Counters /\ Places /\ Batches
  BY DEF Init, Quiet, NoBatch, Counters, Places, Running, Batches
<1>7. QED BY <1>4, <1>5, <1>6 DEF RestoreInv

-----------------------------------------------------------------------------
(* The batch that is sent *)

Sent == Transfer(BatchOf(startID, endID))

LEMMA NextBatch ==
  ASSUME RestoreInv, SendBatch
  PROVE  /\ startID \in Nat /\ endID \in startID .. total /\ restored = startID
         /\ startID' = endID /\ restored' = endID /\ endID' \in 0 .. IDLimit - 1
         /\ restored' # total => endID <= endID' /\ endID' <= total
<1>1. /\ total = Len(File) /\ total \in Nat /\ total + BatchSize < IDLimit
      /\ IDLimit \in Nat /\ BatchSize \in Nat \ {0}
  BY FileFacts DEF RestoreInv, TypeOK, Counters, SendBatch
<1>2. startID \in Nat /\ endID \in Nat /\ restored = startID /\ startID <= endID /\ endID <= total
  BY <1>1 DEF RestoreInv, TypeOK, Counters, SendBatch
<1>3. restored' = endID /\ startID' = endID /\ endID' = NextEnd(endID, endID)
  BY <1>2 DEF SendBatch
<1>4. (total - endID) % IDLimit = total - endID
  BY <1>1, <1>2, Modulo
<1>5. CASE total - endID < BatchSize
  <2>1. endID' = total % IDLimit
    BY <1>1, <1>2, <1>3, <1>4, <1>5 DEF NextEnd
  <2>2. endID' = total
    BY <1>1, <2>1, Modulo
  <2>3. QED BY <1>1, <1>2, <1>3, <2>2
<1>6. CASE total - endID >= BatchSize
  <2>1. endID' = (endID + BatchSize) % IDLimit
    BY <1>1, <1>2, <1>3, <1>4, <1>6 DEF NextEnd
  <2>2. endID' = endID + BatchSize
    BY <1>1, <1>2, <1>6, <2>1, Modulo
  <2>3. QED BY <1>1, <1>2, <1>3, <1>6, <2>2
<1>7. QED BY <1>1, <1>2, <1>5, <1>6

LEMMA SentFromFile ==
  ASSUME RestoreInv, SendBatch
  PROVE  Sent \in Files /\ Len(Sent) = endID - startID /\ FromFile(Sent, startID)
<1> DEFINE chunks == BatchOf(startID, endID)
<1>1. /\ requested = File /\ File \in Seq(Chunks) /\ total = Len(File)
  BY FileFacts DEF RestoreInv, TypeOK, Counters, SendBatch
<1>2. startID \in 0 .. Len(File) /\ endID \in startID .. Len(File)
  BY <1>1, NextBatch, FileFacts DEF RestoreInv, TypeOK
<1>3. /\ chunks \in Seq(Chunks) /\ Len(chunks) = endID - startID
      /\ \A i \in 1 .. endID - startID : chunks[i] = File[startID + i]
  BY <1>1, <1>2, Part DEF BatchOf
<1>4. /\ DOMAIN chunks = 1 .. endID - startID /\ endID - startID \in Nat
      /\ \A i \in 1 .. endID - startID : chunks[i] \in Chunks
  BY <1>2, <1>3
<1>5. Sent \in [1 .. endID - startID -> Chunks \union {Damaged}]
  BY <1>4 DEF Sent, Transfer
<1>6. Sent \in Files /\ Len(Sent) = endID - startID
  BY <1>4, <1>5 DEF Files
<1>7. ASSUME NEW i \in DOMAIN Sent PROVE Sent[i] \in {File[startID + i], Damaged}
  <2>1. i \in 1 .. endID - startID
    BY <1>5
  <2>2. Sent[i] \in {chunks[i], Damaged}
    BY <1>4, <2>1 DEF Sent, Transfer
  <2>3. QED BY <1>3, <2>1, <2>2
<1>8. QED BY <1>6, <1>7 DEF FromFile

LEMMA FirstBatch ==
  ASSUME RestoreInv, StartBatches, total = Len(File)
  PROVE  /\ endID = 0 => endID' \in 0 .. IDLimit - 1
         /\ endID = 0 /\ total # 0 => endID' <= total
<1>1. /\ total \in Nat /\ total + BatchSize < IDLimit
      /\ IDLimit \in Nat /\ BatchSize \in Nat \ {0}
  BY FileFacts DEF RestoreInv, TypeOK
<1>2. CASE total = 0
  <2>1. (total - 1) % IDLimit \in 0 .. IDLimit - 1
    BY <1>1
  <2>2. QED BY <1>1, <1>2, <2>1 DEF StartBatches, FirstEnd
<1>3. CASE total # 0
  <2>1. (total - 1) % IDLimit = total - 1
    BY <1>1, <1>3, Modulo
  <2>2. QED BY <1>1, <1>3, <2>1 DEF StartBatches, FirstEnd
<1>4. QED BY <1>2, <1>3

(* What the server receives *)

LEMMA ReceivedList ==
  ASSUME RestoreInv, ReceiveList
  PROVE  requested' = File
<1>1. toServer \in {<<ListM>>, <<ListM, LoadM>>, <<ListM, LoadM, ExitM>>}
  BY DEF RestoreInv, Talk, Serving, Leaving, At, ReceiveList
<1>2. Head(toServer) = ListM
  BY <1>1, Tuples
<1>3. QED BY <1>2 DEF ReceiveList, ListM

LEMMA AtDownload ==
  ASSUME RestoreInv, StartBatches
  PROVE  total = Len(File) /\ requested = File /\ NoBatch
BY Tuples DEF RestoreInv, Talk, Serving, Leaving, At, StartBatches, Receive, SizeM, ListM, LoadM,
              ExitM

-----------------------------------------------------------------------------
(* Each part of the invariant is kept *)

LEMMA CountersStep ==
  ASSUME RestoreInv, [Next]_vars
  PROVE  Counters'
<1> USE DEF fileVars, serverVars, clientVars, File
<1>1. CASE StartBatches
  <2>1. total = Len(File) /\ requested = File /\ startID = 0 /\ endID = 0 /\ restored = 0
    BY <1>1, AtDownload DEF NoBatch
  <2>2. total \in Nat /\ (total # 0 => endID' <= total) /\ endID' \in 0 .. IDLimit - 1
    BY <1>1, <2>1, FirstBatch DEF RestoreInv, TypeOK
  <2>3. 0 <= endID'
    BY <2>2, FileFacts DEF RestoreInv, TypeOK
  <2>4. QED BY <1>1, <2>1, <2>2, <2>3 DEF StartBatches, Counters
<1>2. CASE SendBatch
  <2>1. total \in Nat /\ endID <= total
    BY <1>2, NextBatch DEF RestoreInv, TypeOK
  <2>2. QED BY <1>2, <2>1, NextBatch DEF RestoreInv, SendBatch, Counters
<1>3. CASE AnnounceRecipe \/ SendRecipe \/ ReceiveListSize \/ ReceiveList \/ EndBatches
           \/ ServeExit \/ LostClient \/ Kill
  <2>1. server' # "batch"
    BY <1>3 DEF AnnounceRecipe, SendRecipe, ReceiveListSize, ReceiveList, EndBatches, ServeExit,
                LostClient, Kill, Receive
  <2>2. QED BY <2>1 DEF Counters
<1>4. CASE StoreRecipes \/ RecvNext \/ SendHangs \/ WriteChunk
  <2>1. UNCHANGED <<uploads, serverVars>>
    BY <1>4, ClientOnly DEF StoreRecipes
  <2>2. QED BY <2>1 DEF RestoreInv, Counters
<1>5. CASE UNCHANGED vars
  BY <1>5 DEF RestoreInv, Counters, vars
<1>6. QED
  BY <1>1, <1>2, <1>3, <1>4, <1>5 DEF Next, ServerNext

LEMMA QuietStep ==
  ASSUME RestoreInv, [Next]_vars
  PROVE  Quiet'
<1> USE DEF fileVars, serverVars, clientVars
<1>1. CASE StoreRecipes \/ UNCHANGED vars
  BY <1>1 DEF RestoreInv, Quiet, NoBatch, StoreRecipes, vars
<1>2. CASE AnnounceRecipe
  <2>1. client \in Early => client = "size" /\ toClient = << >>
    BY <1>2, Tuples DEF AnnounceRecipe, RestoreInv, Talk, Serving, Leaving, At, Receive, SizeM,
                        ListM, LoadM, ExitM, Early
  <2>2. PICK m : toClient' = Append(toClient, m)
    BY <1>2 DEF AnnounceRecipe, Reply
  <2>3. client \in Early => toClient' = <<m>>
    BY <2>1, <2>2, Tuples
  <2>4. QED BY <1>2, <2>1, <2>3 DEF AnnounceRecipe, RestoreInv, Quiet, NoBatch
<1>3. CASE SendRecipe
  <2>1. \/ client = "size" /\ \E m : toClient = <<m>> /\ m.type = "size"
        \/ client = "recipe" /\ toClient = << >>
    BY <1>3 DEF SendRecipe, RestoreInv, Talk, Serving, Leaving, At
  <2>2. PICK n : toClient' = Append(toClient, n)
    BY <1>3 DEF SendRecipe, Reply
  <2>3. CASE client = "size"
    <3>1. PICK m : toClient = <<m>> /\ m.type = "size"
      BY <2>1, <2>3
    <3>2. toClient' = <<m, n>>
      BY <2>2, <3>1, Tuples
    <3>3. QED BY <1>3, <2>3, <3>1, <3>2 DEF SendRecipe, RestoreInv, Quiet, NoBatch, Early
  <2>4. CASE client = "recipe"
    <3>1. toClient' = <<n>>
      BY <2>1, <2>2, <2>4, Tuples
    <3>2. QED BY <1>3, <2>4, <3>1 DEF SendRecipe, RestoreInv, Quiet, NoBatch, Early
  <2>5. QED BY <2>1, <2>3, <2>4
<1>4. CASE ReceiveListSize \/ ReceiveList \/ EndBatches \/ LostClient \/ Kill
  BY <1>4 DEF ReceiveListSize, ReceiveList, EndBatches, LostClient, Kill, RestoreInv, Quiet,
              NoBatch
<1>5. CASE StartBatches \/ SendBatch \/ ServeExit
  <2>1. client \notin Early
    BY <1>5, Tuples DEF StartBatches, SendBatch, ServeExit, RestoreInv, Talk, Serving, Leaving,
                        At, Receive, SizeM, ListM, LoadM, ExitM, Early
  <2>2. client' = client
    BY <1>5 DEF StartBatches, SendBatch, ServeExit
  <2>3. QED BY <2>1, <2>2 DEF Quiet
<1>6. CASE AskRecipe \/ SendListSize \/ SendList
  BY <1>6 DEF AskRecipe, SendListSize, SendList, SendStep, Step, RestoreInv, Quiet, NoBatch,
              Early
<1>7. CASE RecvSize
  <2>1. \/ \E m : toClient = <<m>>
        \/ \E m, n : toClient = <<m, n>>
    BY <1>7 DEF RecvSize, Step, RestoreInv, Quiet, Early
  <2>2. toClient' = << >> \/ \E m : toClient' = <<m>>
    <3>1. CASE \E m : toClient = <<m>>
      BY <1>7, <3>1, Tuples DEF RecvSize
    <3>2. CASE \E m, n : toClient = <<m, n>>
      <4>1. PICK m, n : toClient = <<m, n>>
        BY <3>2
      <4>2. toClient' = <<n>>
        BY <1>7, <4>1, Tuples DEF RecvSize
      <4>3. QED BY <4>2
    <3>3. QED BY <2>1, <3>1, <3>2
  <2>3. QED BY <1>7, <2>2 DEF RecvSize, Step, RestoreInv, Quiet, NoBatch, Early
<1>8. CASE RecvRecipe
  <2>1. \E m : toClient = <<m>>
    BY <1>8 DEF RecvRecipe, Step, RestoreInv, Quiet, Early
  <2>2. toClient' = << >>
    BY <1>8, <2>1, Tuples DEF RecvRecipe
  <2>3. QED BY <1>8, <2>2 DEF RecvRecipe, Step, RestoreInv, Quiet, NoBatch, Early
<1>9. CASE RequestChunks \/ RecvBatch \/ Insert \/ Inserted \/ RunReturns \/ LostServer \/ Join
           \/ SendExit \/ SendHangs \/ WriteChunk
  <2>1. client' \notin Early
    BY <1>9 DEF RequestChunks, RecvBatch, Insert, Inserted, RunReturns, LostServer, Join,
                SendExit, SendHangs, SendStep, WriteChunk, Step, Running, Early
  <2>2. QED BY <2>1 DEF Quiet
<1>10. QED
  BY <1>1, <1>2, <1>3, <1>4, <1>5, <1>6, <1>7, <1>8, <1>9 DEF Next, ServerNext, RecvNext

LEMMA FromFileTypes ==
  ASSUME RestoreInv
  PROVE  /\ written \in Files /\ queue \in Files /\ pending \in Files /\ received \in Nat
         /\ Len(written) \in Nat /\ Len(queue) \in Nat /\ Len(pending) \in Nat
         /\ DOMAIN queue = 1 .. Len(queue) /\ DOMAIN pending = 1 .. Len(pending)
BY DEF RestoreInv, TypeOK, Files

\* the first batch on its way
LEMMA Received ==
  ASSUME RestoreInv, RecvBatch
  PROVE  /\ Head(toClient).items \in Files
         /\ FromFile(Head(toClient).items, received)
<1>1. toClient \in Seq(BatchM) /\ toClient # << >>
  BY DEF RestoreInv, Batches, RecvBatch, Step
<1>2. PICK starts : Joined(starts)
  BY DEF RestoreInv, Batches, RecvBatch, Step
<1>3. Head(toClient) = toClient[1] /\ toClient[1] \in BatchM /\ 1 \in 1 .. Len(toClient)
  BY <1>1, Rest
<1>4. QED BY <1>2, <1>3 DEF Joined, BatchM

LEMMA PlacesStep ==
  ASSUME RestoreInv, [Next]_vars
  PROVE  Places'
<1> USE DEF fileVars, serverVars, clientVars, File
<1>1. CASE StoreRecipes \/ ServerNext \/ Kill \/ UNCHANGED vars
  <2>1. UNCHANGED <<uploads, client, list, received, pending, queue, written>>
    BY <1>1, ServerOnly DEF StoreRecipes, vars
  <2>2. QED BY <2>1 DEF RestoreInv, Places, Running, FromFile
<1>2. CASE AskRecipe \/ RecvSize \/ SendListSize \/ SendList \/ SendExit \/ SendHangs
  BY <1>2 DEF AskRecipe, RecvSize, SendListSize, SendList, SendExit, SendHangs, SendStep, Step,
              RestoreInv, Places, Running
<1>3. CASE RecvRecipe
  BY <1>3 DEF RecvRecipe, Step, RestoreInv, Places, Running
<1>4. CASE RequestChunks
  <2>1. client = "request" /\ client' = "recv" /\ list = File
    BY <1>4 DEF RequestChunks, SendStep, Step, RestoreInv, Places
  <2>2. received = 0 /\ pending = << >> /\ queue = << >> /\ written = << >>
    BY <2>1 DEF RestoreInv, Quiet, Early
  <2>3. UNCHANGED <<uploads, list, received, pending, queue, written>>
    BY <1>4 DEF RequestChunks, SendStep
  <2>4. Len(<< >>) = 0 /\ DOMAIN << >> = {}
    OBVIOUS
  <2>5. QED BY <2>1, <2>2, <2>3, <2>4 DEF Places, Running, FromFile
<1>5. CASE RecvBatch
  <2> DEFINE items == Head(toClient).items
  <2>1. /\ pending' = items /\ received' = received + Len(items) /\ client = "recv"
        /\ client' = "insert" /\ UNCHANGED <<uploads, list, queue, written>>
    BY <1>5 DEF RecvBatch, Step
  <2>2. /\ pending = << >> /\ list = File /\ FromFile(queue, Len(written))
        /\ received = Len(written) + Len(queue)
    BY <2>1, FromFileTypes DEF RestoreInv, Places, Running
  <2>3. items \in Files /\ Len(items) \in Nat /\ FromFile(items, received)
    BY <1>5, Received DEF Files
  <2>4. received' = Len(written') + Len(queue') + Len(pending')
    BY <2>1, <2>2
  <2>5. QED BY <2>1, <2>2, <2>3, <2>4 DEF Places, Running, FromFile
<1>6. CASE Insert
  <2>1. /\ client = "insert" /\ pending # << >> /\ queue' = Append(queue, Head(pending))
        /\ pending' = Tail(pending)
        /\ UNCHANGED <<uploads, client, list, received, written>>
    BY <1>6 DEF Insert
  <2>2. /\ list = File /\ FromFile(queue, Len(written))
        /\ FromFile(pending, Len(written) + Len(queue))
        /\ received = Len(written) + Len(queue) + Len(pending)
    BY <2>1 DEF RestoreInv, Places, Running
  <2>3. /\ Len(pending') = Len(pending) - 1 /\ Len(queue') = Len(queue) + 1
        /\ DOMAIN pending' = 1 .. Len(pending) - 1 /\ DOMAIN queue' = 1 .. Len(queue) + 1
        /\ queue'[Len(queue) + 1] = pending[1] /\ Len(pending) \in Nat \ {0}
        /\ \A i \in 1 .. Len(queue) : queue'[i] = queue[i]
        /\ \A i \in 1 .. Len(pending) - 1 : pending'[i] = pending[i + 1]
    BY <2>1, FromFileTypes DEF Files
  <2>4. ASSUME NEW i \in DOMAIN queue' PROVE queue'[i] \in {File[Len(written) + i], Damaged}
    <3>1. CASE i \in 1 .. Len(queue)
      BY <2>2, <2>3, <3>1, FromFileTypes DEF FromFile
    <3>2. CASE i = Len(queue) + 1
      <4>1. pending[1] \in {File[(Len(written) + Len(queue)) + 1], Damaged}
        BY <2>2, <2>3, FromFileTypes DEF FromFile
      <4>2. (Len(written) + Len(queue)) + 1 = Len(written) + i
        BY <3>2, FromFileTypes
      <4>3. QED BY <2>3, <3>2, <4>1, <4>2
    <3>3. QED BY <2>3, <3>1, <3>2, FromFileTypes
  <2>5. ASSUME NEW i \in DOMAIN pending'
        PROVE  pending'[i] \in {File[(Len(written) + (Len(queue) + 1)) + i], Damaged}
    <3>1. pending'[i] = pending[i + 1] /\ i + 1 \in DOMAIN pending
      BY <2>3, FromFileTypes
    <3>2. (Len(written) + Len(queue)) + (i + 1) = (Len(written) + (Len(queue) + 1)) + i
      BY <2>3, FromFileTypes
    <3>3. QED BY <2>2, <3>1, <3>2 DEF FromFile
  <2>6. received' = Len(written') + Len(queue') + Len(pending')
    BY <2>1, <2>2, <2>3, FromFileTypes
  <2>7. QED
    BY <2>1, <2>2, <2>3, <2>4, <2>5, <2>6 DEF Places, Running, FromFile
<1>7. CASE Inserted \/ RunReturns \/ LostServer \/ Join
  BY <1>7 DEF Inserted, RunReturns, LostServer, Join, Step, RestoreInv, Places, Running,
              FromFile
<1>8. CASE WriteChunk
  <2>1. /\ Running /\ queue # << >> /\ written' = Append(written, Head(queue))
        /\ queue' = Tail(queue) /\ UNCHANGED <<uploads, client, list, received, pending>>
    BY <1>8 DEF WriteChunk
  <2>2. /\ list = File /\ FromFile(queue, Len(written))
        /\ FromFile(pending, Len(written) + Len(queue))
        /\ received = Len(written) + Len(queue) + Len(pending)
    BY <2>1 DEF RestoreInv, Places
  <2>3. /\ Len(queue') = Len(queue) - 1 /\ Len(written') = Len(written) + 1
        /\ DOMAIN queue' = 1 .. Len(queue) - 1 /\ Len(queue) \in Nat \ {0}
        /\ \A i \in 1 .. Len(queue) - 1 : queue'[i] = queue[i + 1]
    BY <2>1, FromFileTypes DEF Files
  <2>4. ASSUME NEW i \in DOMAIN queue'
        PROVE  queue'[i] \in {File[(Len(written) + 1) + i], Damaged}
    <3>1. queue'[i] = queue[i + 1] /\ i + 1 \in DOMAIN queue
      BY <2>3, FromFileTypes
    <3>2. Len(written) + (i + 1) = (Len(written) + 1) + i
      BY <2>3, FromFileTypes
    <3>3. QED BY <2>2, <3>1, <3>2 DEF FromFile
  <2>5. Len(written') + Len(queue') = Len(written) + Len(queue)
    BY <2>3, FromFileTypes
  <2>6. QED
    BY <2>1, <2>2, <2>3, <2>4, <2>5 DEF RestoreInv, Places, Running, FromFile
<1>9. QED
  BY <1>1, <1>2, <1>3, <1>4, <1>5, <1>6, <1>7, <1>8 DEF Next, RecvNext

LEMMA BatchesStep ==
  ASSUME RestoreInv, [Next]_vars
  PROVE  Batches'
<1> USE DEF fileVars, serverVars, clientVars
<1>0. client \in {"recv", "insert"} => /\ toClient \in Seq(BatchM) /\ Len(toClient) \in Nat
                                       /\ \E starts : Joined(starts)
  BY DEF RestoreInv, Batches
<1>1. CASE \/ StoreRecipes \/ ReceiveListSize \/ ReceiveList \/ StartBatches \/ EndBatches
           \/ LostClient \/ Kill \/ UNCHANGED vars
  BY <1>1 DEF StoreRecipes, ReceiveListSize, ReceiveList, StartBatches, EndBatches, LostClient,
              Kill, vars, RestoreInv, Batches, Joined, FromFile, File
<1>2. CASE AnnounceRecipe \/ SendRecipe \/ ServeExit
  <2>1. client \notin {"recv", "insert"}
    BY <1>2, Tuples DEF AnnounceRecipe, SendRecipe, ServeExit, RestoreInv, Talk, Serving,
                        Leaving, At, Receive, SizeM, ListM, LoadM, ExitM
  <2>2. client' = client
    BY <1>2 DEF AnnounceRecipe, SendRecipe, ServeExit
  <2>3. QED BY <2>1, <2>2 DEF Batches
<1>3. CASE SendBatch
  <2> SUFFICES ASSUME client \in {"recv", "insert"}
               PROVE  /\ toClient' \in Seq(BatchM)
                      /\ \E starts : Joined(starts)'
    BY <1>3 DEF Batches, SendBatch
  <2> DEFINE n == Len(toClient)
             m == [type |-> "batch", items |-> Sent]
  <2>1. PICK starts : Joined(starts)
    BY <1>0
  <2>2. toClient' = Append(toClient, m) /\ UNCHANGED <<uploads, client, received>>
    BY <1>3 DEF SendBatch, Reply, Sent
  <2>3. Sent \in Files /\ m \in BatchM /\ m.items = Sent /\ FromFile(Sent, startID)
    BY <1>3, SentFromFile DEF BatchM
  <2>4. /\ restored = startID /\ restored' = endID /\ Len(Sent) = endID - startID
        /\ startID \in Nat /\ endID \in Nat
    BY <1>3, NextBatch, SentFromFile DEF RestoreInv, TypeOK
  <2> HIDE DEF m
  <2>5. /\ toClient' \in Seq(BatchM) /\ Len(toClient') = n + 1 /\ toClient'[n + 1] = m
        /\ \A k \in 1 .. n : toClient'[k] = toClient[k]
    BY <1>0, <2>2, <2>3, Added
  <2>6. PICK next : next = [k \in 1 .. n + 2 |-> IF k = n + 2 THEN endID ELSE starts[k]]
    OBVIOUS
  <2>7. /\ starts \in [1 .. n + 1 -> Nat] /\ starts[1] = received /\ starts[n + 1] = startID
    BY <2>1, <2>4 DEF Joined
  <2>8. next \in [1 .. Len(toClient') + 1 -> Nat]
    BY <1>0, <2>4, <2>5, <2>6, <2>7
  <2>9. next[1] = received' /\ next[Len(toClient') + 1] = restored'
    BY <1>0, <2>2, <2>4, <2>5, <2>6, <2>7
  <2>10. ASSUME NEW k \in 1 .. Len(toClient')
        PROVE  /\ next[k + 1] = next[k] + Len(toClient'[k].items)
               /\ FromFile(toClient[k].items, next[k])'
    <3>1. CASE k \in 1 .. n
      <4>1. /\ starts[k + 1] = starts[k] + Len(toClient[k].items)
            /\ FromFile(toClient[k].items, starts[k])
        BY <2>1, <3>1 DEF Joined
      <4>2. next[k] = starts[k] /\ next[k + 1] = starts[k + 1] /\ toClient'[k] = toClient[k]
        BY <1>0, <2>5, <2>6, <2>7, <3>1
      <4>3. QED BY <2>2, <4>1, <4>2 DEF FromFile, File
    <3>2. CASE k = n + 1
      <4>1. next[k] = startID /\ next[k + 1] = endID /\ toClient'[k].items = Sent
        BY <1>0, <2>3, <2>5, <2>6, <2>7, <3>2
      <4>2. QED BY <2>2, <2>3, <2>4, <4>1 DEF FromFile, File
    <3>3. QED BY <1>0, <2>5, <3>1, <3>2
  <2>11. Joined(next)'
    BY <2>8, <2>9, <2>10 DEF Joined, FromFile
  <2>12. QED BY <2>5, <2>11
<1>4. CASE RequestChunks
  <2>1. /\ toClient' = << >> /\ received' = 0 /\ restored' = 0
    BY <1>4 DEF RequestChunks, SendStep, Step, RestoreInv, Quiet, NoBatch, Early
  <2> DEFINE starts == [k \in 1 .. 1 |-> 0]
  <2>2. Len(toClient') = 0 /\ toClient' \in Seq(BatchM)
    BY <2>1
  <2>3. Joined(starts)'
    BY <2>1, <2>2 DEF Joined
  <2>4. QED BY <2>2, <2>3 DEF Batches
<1>5. CASE RecvBatch
  <2> DEFINE n == Len(toClient)
             items == Head(toClient).items
  <2>1. /\ client = "recv" /\ toClient # << >> /\ toClient' = Tail(toClient)
        /\ received' = received + Len(items) /\ restored' = restored /\ uploads' = uploads
    BY <1>5 DEF RecvBatch, Step
  <2>2. PICK starts : Joined(starts)
    BY <1>0, <2>1
  <2>3. /\ toClient' \in Seq(BatchM) /\ Len(toClient') = n - 1 /\ n \in Nat \ {0}
        /\ \A k \in 1 .. n - 1 : toClient'[k] = toClient[k + 1]
        /\ Head(toClient) = toClient[1]
    BY <1>0, <2>1, Rest
  <2>4. PICK next : next = [k \in 1 .. n |-> starts[k + 1]]
    OBVIOUS
  <2>5. /\ starts \in [1 .. n + 1 -> Nat] /\ starts[1] = received /\ starts[n + 1] = restored
        /\ starts[2] = starts[1] + Len(items)
    BY <2>2, <2>3 DEF Joined
  <2>6. next \in [1 .. Len(toClient') + 1 -> Nat]
    BY <2>3, <2>4, <2>5
  <2>7. next[1] = received' /\ next[Len(toClient') + 1] = restored'
    BY <2>1, <2>3, <2>4, <2>5
  <2>8. ASSUME NEW k \in 1 .. Len(toClient')
        PROVE  /\ next[k + 1] = next[k] + Len(toClient'[k].items)
               /\ FromFile(toClient[k].items, next[k])'
    <3>1. k + 1 \in 1 .. n /\ toClient'[k] = toClient[k + 1]
      BY <2>3
    <3>2. /\ starts[(k + 1) + 1] = starts[k + 1] + Len(toClient[k + 1].items)
          /\ FromFile(toClient[k + 1].items, starts[k + 1])
      BY <2>2, <3>1 DEF Joined
    <3>3. next[k] = starts[k + 1] /\ next[k + 1] = starts[(k + 1) + 1]
      BY <2>3, <2>4, <3>1
    <3>4. QED BY <2>1, <3>1, <3>2, <3>3 DEF FromFile, File
  <2>9. Joined(next)'
    BY <2>6, <2>7, <2>8 DEF Joined, FromFile
  <2>10. QED BY <2>3, <2>9 DEF Batches
<1>6. CASE Insert \/ Inserted \/ WriteChunk
  <2>1. /\ client' \in {"recv", "insert"} => client \in {"recv", "insert"}
        /\ UNCHANGED <<uploads, toClient, received, restored>>
    BY <1>6 DEF Insert, Inserted, WriteChunk, Step
  <2>2. QED BY <2>1 DEF RestoreInv, Batches, Joined, FromFile, File
<1>7. CASE \/ AskRecipe \/ RecvSize \/ RecvRecipe \/ SendListSize \/ SendList \/ RunReturns
           \/ LostServer \/ Join \/ SendExit \/ SendHangs
  <2>1. client' \notin {"recv", "insert"}
    BY <1>7 DEF AskRecipe, RecvSize, RecvRecipe, SendListSize, SendList, RunReturns, LostServer,
                Join, SendExit, SendHangs, SendStep, Step
  <2>2. QED BY <2>1 DEF Batches
<1>8. QED
  BY <1>1, <1>2, <1>3, <1>4, <1>5, <1>6, <1>7 DEF Next, ServerNext, RecvNext

LEMMA SizesStay == UNCHANGED uploads => \A n : FileSize(n)' = FileSize(n)
BY DEF FileSize, UploadSize, MapThenSumSet, MapThenFoldSet

LEMMA TypesStep ==
  ASSUME RestoreInv, [Next]_vars
  PROVE  TypeOK'
<1> USE DEF fileVars, serverVars, clientVars
<1>0. TypeOK /\ uploads \in Seq(Seq(Chunks)) /\ Len(uploads) \in Nat
  BY RestoreAssumption DEF RestoreInv, TypeOK
<1>1. CASE StoreRecipes
  <2>1. appended \in 0 .. Len(uploads) /\ appended < Len(uploads) /\ appended' = appended + 1
    BY <1>0, <1>1 DEF StoreRecipes, TypeOK
  <2>2. appended' \in 0 .. Len(uploads) /\ 1 .. appended \subseteq 1 .. appended'
    BY <1>0, <2>1
  <2>3. uploads' = uploads /\ announced' = announced
    BY <1>1 DEF StoreRecipes
  <2>4. announced' \in {0} \union {FileSize(n)' : n \in 1 .. appended'}
    BY <1>0, <2>2, <2>3, SizesStay DEF TypeOK
  <2>5. QED BY <1>0, <1>1, <2>2, <2>3, <2>4 DEF StoreRecipes, TypeOK
<1>2. CASE AnnounceRecipe
  <2>1. UNCHANGED <<uploads, appended>> /\ announced' \in {announced, FileSize(appended)}
        /\ (announced' # announced => appended > 0)
    BY <1>2 DEF AnnounceRecipe
  <2>2. appended > 0 => appended \in 1 .. appended
    BY <1>0 DEF TypeOK
  <2>3. announced' \in {0} \union {FileSize(n) : n \in 1 .. appended}
    BY <1>0, <2>1, <2>2 DEF TypeOK
  <2>4. announced' \in {0} \union {FileSize(n)' : n \in 1 .. appended'}
    BY <2>1, <2>3, SizesStay
  <2>5. QED BY <1>0, <1>2, <2>4 DEF AnnounceRecipe, Receive, TypeOK
<1>3. CASE \/ SendRecipe \/ ReceiveListSize \/ ReceiveList \/ StartBatches \/ SendBatch
           \/ EndBatches \/ ServeExit \/ LostClient \/ Kill
  <2>1. UNCHANGED <<uploads, appended, announced, clientVars>>
    BY <1>3 DEF SendRecipe, ReceiveListSize, ReceiveList, StartBatches, SendBatch, EndBatches,
                ServeExit, LostClient, Kill
  <2>2. announced' \in {0} \union {FileSize(n)' : n \in 1 .. appended'}
    BY <1>0, <2>1, SizesStay DEF TypeOK
  <2>3. /\ server' \in {"loop", "read", "list", "batch", "gone"} /\ total' \in Nat
        /\ requested' \in Seq(Chunks) /\ startID' \in 0 .. IDLimit - 1
        /\ endID' \in 0 .. IDLimit - 1 /\ restored' \in Int
    <3>1. CASE SendRecipe
      BY <1>0, <3>1, FileFacts DEF SendRecipe, TypeOK, File
    <3>2. CASE ReceiveList
      BY <1>0, <3>2, ReceivedList, FileFacts DEF ReceiveList, TypeOK
    <3>3. CASE StartBatches
      BY <1>0, <3>3, AtDownload, FirstBatch DEF StartBatches, Receive, TypeOK, NoBatch
    <3>4. CASE SendBatch
      BY <1>0, <3>4, NextBatch DEF SendBatch, TypeOK
    <3>5. CASE ReceiveListSize \/ EndBatches \/ ServeExit \/ LostClient \/ Kill
      BY <1>0, <3>5 DEF ReceiveListSize, EndBatches, ServeExit, LostClient, Kill, Receive,
                        TypeOK
    <3>6. QED BY <1>3, <3>1, <3>2, <3>3, <3>4, <3>5
  <2>4. QED BY <1>0, <2>1, <2>2, <2>3 DEF TypeOK
<1>4. CASE RecvNext \/ SendHangs \/ WriteChunk \/ UNCHANGED vars
  <2>1. UNCHANGED <<uploads, appended, serverVars>>
    BY <1>4, ClientOnly DEF vars
  <2>2. announced' \in {0} \union {FileSize(n)' : n \in 1 .. appended'}
    BY <1>0, <2>1, SizesStay DEF TypeOK
  <2>3. /\ client' \in {"ask", "size", "recipe", "sendSize", "sendList", "request", "recv",
                        "insert", "done", "failed", "exit", "stuck", "exited"}
        /\ list' \in Seq(Chunks) /\ received' \in Nat
        /\ pending' \in Files /\ queue' \in Files /\ written' \in Files
    <3>1. CASE \/ AskRecipe \/ RecvSize \/ SendListSize \/ SendList \/ RequestChunks \/ Inserted
               \/ RunReturns \/ LostServer \/ Join \/ SendExit \/ SendHangs \/ UNCHANGED vars
      BY <1>0, <3>1 DEF AskRecipe, RecvSize, SendListSize, SendList, RequestChunks, Inserted,
                        RunReturns, LostServer, Join, SendExit, SendHangs, SendStep, Step, vars,
                        TypeOK
    <3>2. CASE RecvRecipe
      BY <1>0, <3>2, FileFacts DEF RecvRecipe, Step, TypeOK, File
    <3>3. CASE RecvBatch
      <4>1. pending' \in Files /\ Len(pending') \in Nat /\ received' = received + Len(pending')
        BY <3>3, Received DEF RecvBatch, Files
      <4>2. QED BY <1>0, <3>3, <4>1 DEF RecvBatch, Step, TypeOK
    <3>4. CASE Insert
      <4>1. pending' \in Files /\ queue' \in Files
        BY <1>0, <3>4, Rest, Added DEF Insert, TypeOK, Files
      <4>2. QED BY <1>0, <3>4, <4>1 DEF Insert, TypeOK
    <3>5. CASE WriteChunk
      <4>1. queue' \in Files /\ written' \in Files
        BY <1>0, <3>5, Rest, Added DEF WriteChunk, TypeOK, Files
      <4>2. QED BY <1>0, <3>5, <4>1 DEF WriteChunk, TypeOK
    <3>6. QED BY <1>4, <3>1, <3>2, <3>3, <3>4, <3>5 DEF RecvNext
  <2>4. QED BY <1>0, <2>1, <2>2, <2>3 DEF TypeOK
<1>5. QED
  BY <1>1, <1>2, <1>3, <1>4 DEF Next, ServerNext

LEMMA Mailbox ==
  /\ Tail(<<SizeM>>) = << >> /\ Tail(<<SizeM, ListM>>) = <<ListM>>
  /\ Tail(<<SizeM, ListM, LoadM>>) = <<ListM, LoadM>>
  /\ Tail(<<SizeM, ListM, LoadM, ExitM>>) = <<ListM, LoadM, ExitM>>
  /\ Tail(<<ListM>>) = << >> /\ Tail(<<ListM, LoadM>>) = <<LoadM>>
  /\ Tail(<<ListM, LoadM, ExitM>>) = <<LoadM, ExitM>>
  /\ Tail(<<LoadM>>) = << >> /\ Tail(<<LoadM, ExitM>>) = <<ExitM>>
  /\ Append(<<SizeM, ListM>>, LoadM) = <<SizeM, ListM, LoadM>>
  /\ Append(<<ListM>>, LoadM) = <<ListM, LoadM>> /\ Append(<< >>, LoadM) = <<LoadM>>
  /\ Append(<<SizeM, ListM, LoadM>>, ExitM) = <<SizeM, ListM, LoadM, ExitM>>
  /\ Append(<<ListM, LoadM>>, ExitM) = <<ListM, LoadM, ExitM>>
  /\ Append(<<LoadM>>, ExitM) = <<LoadM, ExitM>> /\ Append(<< >>, ExitM) = <<ExitM>>
<1>1. /\ Tail(<<SizeM>>) = << >> /\ Tail(<<SizeM, ListM>>) = <<ListM>>
      /\ Tail(<<SizeM, ListM, LoadM>>) = <<ListM, LoadM>>
      /\ Tail(<<SizeM, ListM, LoadM, ExitM>>) = <<ListM, LoadM, ExitM>>
      /\ Tail(<<ListM>>) = << >> /\ Tail(<<ListM, LoadM>>) = <<LoadM>>
      /\ Tail(<<ListM, LoadM, ExitM>>) = <<LoadM, ExitM>>
      /\ Tail(<<LoadM>>) = << >> /\ Tail(<<LoadM, ExitM>>) = <<ExitM>>
  OBVIOUS
<1>2. /\ Append(<<SizeM, ListM>>, LoadM) = <<SizeM, ListM, LoadM>>
      /\ Append(<<ListM>>, LoadM) = <<ListM, LoadM>> /\ Append(<< >>, LoadM) = <<LoadM>>
  BY Tuples
<1>3. /\ Append(<<SizeM, ListM, LoadM>>, ExitM) = <<SizeM, ListM, LoadM, ExitM>>
      /\ Append(<<ListM, LoadM>>, ExitM) = <<ListM, LoadM, ExitM>>
      /\ Append(<<LoadM>>, ExitM) = <<LoadM, ExitM>> /\ Append(<< >>, ExitM) = <<ExitM>>
  BY Tuples
<1>4. QED BY <1>1, <1>2, <1>3

LEMMA TalkStep ==
  ASSUME RestoreInv, [Next]_vars
  PROVE  Talk'
<1> USE DEF fileVars, serverVars, clientVars
<1>0. Talk
  BY DEF RestoreInv
<1>1. CASE StoreRecipes \/ UNCHANGED vars
  BY <1>0, <1>1 DEF StoreRecipes, vars, Talk, At, Serving, Leaving, NoBatch, File, ListM
<1>2. CASE AnnounceRecipe
  <2>1. /\ client = "size" /\ toClient = << >> /\ toServer = <<[type |-> "recipe"]>>
        /\ client' = client
    BY <1>0, <1>2, Tuples DEF AnnounceRecipe, Receive, Talk, At, Serving, Leaving, SizeM, ListM,
                              LoadM, ExitM
  <2>2. toServer' = << >>
    BY <1>2, <2>1, Tuples DEF AnnounceRecipe, Receive
  <2>3. CASE appended > 0
    <3>1. PICK m : toClient' = Append(toClient, m) /\ m.type = "size"
      BY <1>2, <2>3 DEF AnnounceRecipe, Reply
    <3>2. toClient' = <<m>> /\ server' = "read"
      BY <1>2, <2>1, <2>3, <3>1, Tuples DEF AnnounceRecipe, Receive
    <3>3. QED BY <2>1, <2>2, <3>1, <3>2 DEF Talk, At
  <2>4. CASE ~(appended > 0)
    <3>1. toClient' = <<[type |-> "notExist"]>> /\ server' = "loop"
      BY <1>2, <2>1, <2>4, Tuples DEF AnnounceRecipe, Receive, Reply
    <3>2. QED BY <2>1, <2>2, <3>1 DEF Talk, At
  <2>5. QED BY <2>3, <2>4
<1>3. CASE SendRecipe
  <2>1. /\ toServer = << >> /\ toServer' = toServer /\ server' = "loop" /\ client' = client
        /\ total' = Len(File')
        /\ \/ client = "size" /\ \E m : toClient = <<m>> /\ m.type = "size"
           \/ client = "recipe" /\ toClient = << >>
    BY <1>0, <1>3 DEF SendRecipe, Talk, At, Serving, Leaving, File
  <2>2. PICK n : toClient' = Append(toClient, n)
    BY <1>3 DEF SendRecipe, Reply
  <2>3. CASE client = "size"
    <3>1. PICK m : toClient = <<m>> /\ m.type = "size"
      BY <2>1, <2>3
    <3>2. toClient' = <<m, n>>
      BY <2>2, <3>1, Tuples
    <3>3. QED BY <2>1, <2>3, <3>1, <3>2 DEF Talk, At
  <2>4. CASE client = "recipe"
    <3>1. toClient' # << >>
      BY <2>1, <2>2, <2>4, Tuples
    <3>2. QED BY <2>1, <2>4, <3>1 DEF Talk, At
  <2>5. QED BY <2>1, <2>3, <2>4
<1>4. CASE ReceiveListSize \/ ReceiveList \/ StartBatches \/ ServeExit
  <2>1. /\ UNCHANGED <<uploads, client, total>> /\ toServer' = Tail(toServer)
        /\ toServer # << >> /\ server # "gone"
    BY <1>4 DEF ReceiveListSize, ReceiveList, StartBatches, ServeExit, Receive
  <2>2. CASE ReceiveListSize
    <3>1. /\ total = Len(File)
          /\ \/ client = "sendList" /\ toServer = <<SizeM>>
             \/ client = "request" /\ toServer = <<SizeM, ListM>>
             \/ /\ client \in {"recv", "insert", "done", "exit"} /\ NoBatch
                /\ toServer = <<SizeM, ListM, LoadM>>
             \/ client = "exited" /\ NoBatch /\ toServer = <<SizeM, ListM, LoadM, ExitM>>
      BY <1>0, <2>2, Tuples DEF ReceiveListSize, Receive, Talk, At, Serving, Leaving, SizeM,
                                ListM, LoadM, ExitM
    <3>2. server' = "list" /\ UNCHANGED <<startID, endID, restored>> /\ ListM' = ListM
      BY <2>1, <2>2 DEF ReceiveListSize, Receive, ListM, File
    <3>3. total' = Len(File')
      BY <2>1, <3>1 DEF File
    <3>4. CASE client = "sendList"
      <4>1. toServer' = << >>
        BY <2>1, <3>1, <3>4, Tuples
      <4>2. QED BY <2>1, <3>2, <3>3, <3>4, <4>1 DEF Talk, At
    <3>5. CASE client = "request"
      <4>1. toServer' = <<ListM'>>
        BY <2>1, <3>1, <3>2, <3>5, Mailbox
      <4>2. QED BY <2>1, <3>2, <3>3, <3>5, <4>1 DEF Talk, At
    <3>6. CASE client \in {"recv", "insert", "done", "exit"}
      <4>1. toServer' = <<ListM', LoadM>> /\ NoBatch
        BY <2>1, <3>1, <3>2, <3>6, Mailbox
      <4>2. Serving'
        BY <3>2, <4>1 DEF Serving, At, NoBatch, LoadM
      <4>3. QED BY <2>1, <3>3, <3>6, <4>2 DEF Talk
    <3>7. CASE client = "exited"
      <4>1. toServer' = <<ListM', LoadM, ExitM>> /\ NoBatch
        BY <2>1, <3>1, <3>2, <3>7, Mailbox
      <4>2. Leaving'
        BY <3>2, <4>1 DEF Leaving, At, NoBatch, LoadM, ExitM
      <4>3. QED BY <2>1, <3>3, <3>7, <4>2 DEF Talk
    <3>8. QED BY <3>1, <3>4, <3>5, <3>6, <3>7
  <2>3. CASE ReceiveList
    <3>1. requested' = File'
      BY <2>1, <2>3, ReceivedList DEF File
    <3>2. /\ \/ client = "sendList" /\ toServer = << >>
             \/ client = "request" /\ toServer = <<ListM>> /\ total = Len(File)
             \/ /\ client \in {"recv", "insert", "done", "exit"} /\ total = Len(File)
                /\ NoBatch /\ toServer = <<ListM, LoadM>>
             \/ /\ client = "exited" /\ total = Len(File)
                /\ NoBatch /\ toServer = <<ListM, LoadM, ExitM>>
      BY <1>0, <2>3 DEF ReceiveList, Talk, At, Serving, Leaving
    <3>3. server' = "loop" /\ UNCHANGED <<startID, endID, restored>> /\ File' = File
      BY <2>1, <2>3 DEF ReceiveList, File
    <3>4. CASE client = "request"
      <4>1. toServer' = << >>
        BY <2>1, <3>2, <3>4, Mailbox
      <4>2. QED BY <2>1, <3>1, <3>2, <3>3, <3>4, <4>1 DEF Talk, At
    <3>5. CASE client \in {"recv", "insert", "done", "exit"}
      <4>1. toServer' = <<LoadM>> /\ NoBatch
        BY <2>1, <3>2, <3>5, Mailbox
      <4>2. Serving'
        BY <3>1, <3>3, <4>1 DEF Serving, At, NoBatch, LoadM
      <4>3. QED BY <2>1, <3>2, <3>3, <3>5, <4>2 DEF Talk
    <3>6. CASE client = "exited"
      <4>1. toServer' = <<LoadM, ExitM>> /\ NoBatch
        BY <2>1, <3>2, <3>6, Mailbox
      <4>2. Leaving'
        BY <3>1, <3>3, <4>1 DEF Leaving, At, NoBatch, LoadM, ExitM
      <4>3. QED BY <2>1, <3>2, <3>3, <3>6, <4>2 DEF Talk
    <3>7. QED BY <2>1, <3>2, <3>4, <3>5, <3>6
  <2>4. CASE StartBatches
    <3>1. /\ requested' = File' /\ server' = "batch" /\ total' = Len(File')
          /\ \/ /\ client \in {"recv", "insert", "done", "exit"} /\ toServer = <<LoadM>>
             \/ client = "exited" /\ toServer = <<LoadM, ExitM>>
      <4>1. \/ /\ client \in {"recv", "insert", "done", "exit"} /\ toServer = <<LoadM>>
            \/ client = "exited" /\ toServer = <<LoadM, ExitM>>
        BY <1>0, <2>4, Tuples DEF StartBatches, Receive, Talk, At, Serving, Leaving, SizeM,
                                  ListM, LoadM, ExitM
      <4>2. requested' = File' /\ total' = Len(File')
        BY <2>1, <2>4, AtDownload DEF StartBatches, File
      <4>3. QED BY <2>4, <4>1, <4>2 DEF StartBatches, Receive
    <3>2. CASE client = "exited"
      <4>1. toServer' = <<ExitM>>
        BY <2>1, <3>1, <3>2, Mailbox
      <4>2. Leaving'
        BY <3>1, <4>1 DEF Leaving, At, ExitM
      <4>3. QED BY <2>1, <3>1, <3>2, <4>2 DEF Talk
    <3>3. CASE client # "exited"
      <4>1. toServer' = << >>
        BY <2>1, <3>1, <3>3, Mailbox
      <4>2. Serving'
        BY <3>1, <4>1 DEF Serving, At
      <4>3. QED BY <2>1, <3>1, <3>3, <4>2 DEF Talk
    <3>4. QED BY <3>2, <3>3
  <2>5. CASE ServeExit
    BY <1>0, <2>1, <2>5, Tuples DEF ServeExit, Receive, Talk, At, Serving, Leaving, SizeM,
                                    ListM, LoadM, ExitM, File
  <2>6. QED BY <1>4, <2>2, <2>3, <2>4, <2>5
<1>5. CASE SendBatch \/ EndBatches
  BY <1>0, <1>5 DEF SendBatch, EndBatches, Talk, At, Serving, Leaving, NoBatch, File
<1>6. CASE LostClient \/ Kill
  <2>1. CASE Kill
    BY <2>1 DEF Kill, Talk
  <2>2. CASE LostClient
    BY <1>0, <2>2, Tuples DEF LostClient, Talk, At, Serving, Leaving, File
  <2>3. QED BY <1>6, <2>1, <2>2
<1>7. CASE RecvNext \/ SendHangs \/ WriteChunk
  <2>1. UNCHANGED <<uploads, serverVars>>
    BY <1>7, ClientOnly
  <2>2. CASE server = "gone"
    <3>1. toServer' = toServer
      BY <1>7, <2>2 DEF RecvNext, AskRecipe, RecvSize, RecvRecipe, SendListSize, SendList,
                        RequestChunks, RecvBatch, Insert, Inserted, RunReturns, LostServer,
                        Join, SendExit, SendHangs, WriteChunk, SendStep, Send
    <3>2. toServer = << >>
      BY <1>0, <2>2 DEF Talk, At, Serving, Leaving
    <3>3. server' = "gone"
      BY <2>1, <2>2
    <3>4. QED BY <3>1, <3>2, <3>3 DEF Talk
  <2>3. CASE server # "gone"
    <3>1. CASE AskRecipe \/ SendListSize \/ SendList \/ RequestChunks \/ SendExit
      <4>1. UNCHANGED <<server, total, requested, startID, endID, restored>> /\ File' = File
            /\ ListM' = ListM
        BY <2>1 DEF File, ListM
      <4>2. CASE AskRecipe
        <5>1. client = "ask" /\ client' = "size" /\ toClient' = toClient
              /\ toServer' = Append(toServer, [type |-> "recipe"])
          BY <2>3, <4>2 DEF AskRecipe, SendStep, Step, Send
        <5>2. toServer = << >> /\ server = "loop" /\ toClient = << >>
          BY <1>0, <2>3, <5>1 DEF Talk, At, RestoreInv, Quiet, Early
        <5>3. toServer' = <<[type |-> "recipe"]>>
          BY <5>1, <5>2, Tuples
        <5>4. QED BY <4>1, <5>1, <5>2, <5>3 DEF Talk, At
      <4>3. CASE SendListSize
        BY <1>0, <2>1, <2>3, <4>3, Tuples DEF SendListSize, SendStep, Step, Send, Talk, At,
           SizeM, File
      <4>4. CASE SendList
        <5>1. /\ client = "sendList" /\ client' = "request"
              /\ toServer' = Append(toServer, [type |-> "list", chunks |-> list])
          BY <2>3, <4>4 DEF SendList, SendStep, Step, Send
        <5>2. /\ toServer' = Append(toServer, ListM) /\ total = Len(File)
              /\ \/ server = "loop" /\ toServer = <<SizeM>>
                 \/ server = "list" /\ toServer = << >>
          BY <1>0, <2>3, <5>1 DEF Talk, At, RestoreInv, Places, ListM
        <5>3. \/ server = "loop" /\ toServer' = <<SizeM, ListM>>
              \/ server = "list" /\ toServer' = <<ListM>>
          BY <5>2, Tuples
        <5>4. QED BY <4>1, <5>1, <5>2, <5>3 DEF Talk, At, SizeM
      <4>5. CASE RequestChunks
        <5>1. /\ client = "request" /\ client' = "recv" /\ toServer' = Append(toServer, LoadM)
          BY <2>3, <4>5 DEF RequestChunks, SendStep, Step, Send, LoadM
        <5>2. /\ total = Len(File) /\ NoBatch
              /\ \/ server = "loop" /\ toServer = <<SizeM, ListM>>
                 \/ server = "list" /\ toServer = <<ListM>>
                 \/ server = "loop" /\ toServer = << >> /\ requested = File
          BY <1>0, <2>3, <5>1 DEF Talk, At, RestoreInv, Quiet, Early
        <5>3. \/ server = "loop" /\ toServer' = <<SizeM, ListM, LoadM>>
              \/ server = "list" /\ toServer' = <<ListM, LoadM>>
              \/ server = "loop" /\ toServer' = <<LoadM>> /\ requested = File
          BY <5>1, <5>2, Mailbox
        <5>4. Serving'
          BY <4>1, <5>2, <5>3 DEF Serving, At, NoBatch, SizeM, LoadM
        <5>5. QED BY <4>1, <5>1, <5>2, <5>4 DEF Talk
      <4>6. CASE SendExit
        <5>1. /\ client = "exit" /\ client' = "exited" /\ toServer' = Append(toServer, ExitM)
          BY <2>3, <4>6 DEF SendExit, SendStep, Step, Send, ExitM
        <5>2. total = Len(File) /\ Serving
          BY <1>0, <2>3, <5>1 DEF Talk
        <5>3. \/ server = "loop" /\ NoBatch /\ toServer' = <<SizeM, ListM, LoadM, ExitM>>
              \/ server = "list" /\ NoBatch /\ toServer' = <<ListM, LoadM, ExitM>>
              \/ /\ server = "loop" /\ NoBatch /\ requested = File
                 /\ toServer' = <<LoadM, ExitM>>
              \/ server = "batch" /\ toServer' = <<ExitM>> /\ requested = File
              \/ server = "loop" /\ toServer' = <<ExitM>>
          BY <5>1, <5>2, Mailbox DEF Serving, At
        <5>4. Leaving'
          BY <4>1, <5>3 DEF Leaving, At, NoBatch, SizeM, LoadM, ExitM
        <5>5. QED BY <4>1, <5>1, <5>2, <5>4 DEF Talk
      <4>7. QED BY <3>1, <4>2, <4>3, <4>4, <4>5, <4>6
    <3>2. CASE RecvSize
      <4>1. /\ client = "size" /\ toClient # << >> /\ toClient' = Tail(toClient)
            /\ client' = IF Head(toClient).type = "size" THEN "recipe" ELSE "exited"
            /\ UNCHANGED <<uploads, toServer, server, total>>
        BY <2>1, <3>2 DEF RecvSize, Step
      <4>2. CASE At("loop", << >>) /\ toClient = <<[type |-> "notExist"]>>
        BY <4>1, <4>2, Tuples DEF Talk, At
      <4>3. CASE At("read", << >>) /\ \E m : toClient = <<m>> /\ m.type = "size"
        BY <4>1, <4>3, Tuples DEF Talk, At
      <4>4. CASE /\ At("loop", << >>) /\ total = Len(File)
                 /\ \E m, n : toClient = <<m, n>> /\ m.type = "size"
        <5>1. PICK m, n : toClient = <<m, n>> /\ m.type = "size"
          BY <4>4
        <5>2. client' = "recipe" /\ toClient' = <<n>> /\ toClient' # << >>
          BY <4>1, <5>1, Tuples
        <5>3. QED BY <4>1, <4>4, <5>2 DEF Talk, At, File
      <4>5. QED BY <1>0, <2>3, <4>1, <4>2, <4>3, <4>4 DEF Talk
    <3>3. CASE RecvRecipe
      BY <1>0, <2>1, <2>3, <3>3, Tuples DEF RecvRecipe, Step, Talk, At, File, RestoreInv, Quiet,
         Early
    <3>4. CASE RecvBatch \/ Insert \/ Inserted \/ RunReturns \/ Join \/ WriteChunk
      BY <1>0, <2>1, <2>3, <3>4 DEF RecvBatch, Insert, Inserted, RunReturns, Join, WriteChunk,
         Running, Step, Talk, At, Serving, NoBatch, File, ListM
    <3>5. CASE LostServer \/ SendHangs
      BY <2>3, <3>5 DEF LostServer, SendHangs
    <3>6. QED BY <1>7, <3>1, <3>2, <3>3, <3>4, <3>5 DEF RecvNext
  <2>4. QED BY <2>2, <2>3
<1>8. QED
  BY <1>1, <1>2, <1>3, <1>4, <1>5, <1>6, <1>7 DEF Next, ServerNext

LEMMA RestoreStep == RestoreInv /\ [Next]_vars => RestoreInv'
BY TypesStep, TalkStep, QuietStep, CountersStep, PlacesStep, BatchesStep DEF RestoreInv

LEMMA InvAlways == Spec => []RestoreInv
BY RestoreInit, RestoreStep, PTL DEF Spec

-----------------------------------------------------------------------------
(* Theorem: every batch lies in the list the client asked for and begins where the last one
   ended, for all lengths of files and batches below the limit of the counters
   (dataSR.cpp:239-269). *)
THEOREM BatchesInRange == Spec => []BatchInRange
<1>1. RestoreInv => BatchInRange
  BY DEF RestoreInv, Counters, BatchInRange
<1>2. QED BY <1>1, InvAlways, PTL

\* a step of a restore is a step of the copy, or changes neither file
LEMMA StepCopies ==
  ASSUME RestoreInv, [Next]_vars
  PROVE  [Copy!Copy]_<<File, written>>
<1> USE DEF fileVars, serverVars, clientVars
<1>1. CASE WriteChunk
  <2>1. /\ Running /\ Len(written) < Len(list) /\ queue # << >>
        /\ written' = Append(written, Head(queue)) /\ uploads' = uploads
    BY <1>1 DEF WriteChunk
  <2>2. list = File /\ FromFile(queue, Len(written))
    BY <2>1 DEF RestoreInv, Places
  <2>3. Head(queue) = queue[1] /\ 1 \in DOMAIN queue
    BY <2>1, FromFileTypes DEF Files
  <2>4. Head(queue) \in {File[Len(written) + 1], Damaged}
    BY <2>2, <2>3 DEF FromFile
  <2>5. QED BY <2>1, <2>2, <2>4 DEF Copy!Copy, File
<1>2. CASE StoreRecipes \/ ServerNext \/ Kill \/ UNCHANGED vars
  BY <1>2, ServerOnly DEF StoreRecipes, vars, File
<1>3. CASE RecvNext \/ SendHangs
  <2>1. uploads' = uploads
    BY <1>3, ClientOnly
  <2>2. written' = written
    BY <1>3 DEF RecvNext, AskRecipe, RecvSize, RecvRecipe, SendListSize, SendList,
                RequestChunks, RecvBatch, Insert, Inserted, RunReturns, LostServer, Join,
                SendExit, SendStep, SendHangs
  <2>3. QED BY <2>1, <2>2 DEF File
<1>4. QED
  BY <1>1, <1>2, <1>3 DEF Next

(* Theorem: what the retriever writes is an ordered copy of the first upload, whatever is uploaded
   meanwhile, however the threads take turns and wherever the server dies
   (retriever.cpp:30-46). *)
THEOREM RestoreCopies == Spec => CopiesFile
<1>1. Init => Copy!Init
  BY DEF Init, Copy!Init
<1>2. RestoreInv /\ [Next]_vars => [Copy!Copy]_<<File, written>>
  BY StepCopies
<1>3. QED
  BY <1>1, <1>2, InvAlways, PTL DEF Spec, CopiesFile, Copy!Spec
=============================================================================
