----------------------------- MODULE UploadSession -----------------------------
(***************************************************************************)
(* The upload of files with client-side deduplication.  A client's         *)
(* powClient thread asks the server, a batch of fingerprints at a time,    *)
(* which chunks it lacks, marks those in the batch and passes the batch to *)
(* the sender thread.  The sender uploads the marked chunks in lists,      *)
(* enters every chunk in the file's recipe, and after the last one sends   *)
(* the recipe and asks for leave to exit.  At the server a pow thread      *)
(* answers the batches out of fp2ChunkDB while the data thread of the      *)
(* same client, and those of all others, store chunks in it.               *)
(*                                                                         *)
(* storeChunk is one step here: ContainerStore has its details.  The pow   *)
(* connection is a call and its reply; the data connection is a queue.     *)
(* The client may die, and its powClient may fail and stop.                *)
(***************************************************************************)
EXTENDS Integers, SequencesExt

CONSTANTS
  Client,
  Chunk,
  File,           \* File[c]: the chunks of the file client c uploads
  FileName,       \* FileName[c]: the hash of its name
  NoFile,         \* the name in a recipe head that was never filled in
  Recipe,         \* the item of a queue that is the recipe head
  PowBatchSize,   \* config: pow._batchSize
  SendBatchSize,  \* config: client._sendChunkBatchSize
  Versions,       \* bound: the recipes a file may have got by a reset
  Faults          \* "pow": a proof of ownership may fail; "die": a client may
                  \* die; "reset": and its connection be reset, not closed

ChunkType == {"init", "needUpload"}
Item == [chunk : Chunk, type : ChunkType]

ASSUME UploadAssumption ==
  /\ File \in [Client -> Seq(Chunk)]
  /\ \A c \in Client : FileName[c] # NoFile
  /\ Recipe \notin Chunk \cup Item
  /\ PowBatchSize \in Nat \ {0}
  /\ SendBatchSize \in Nat \ {0}
  /\ Versions \in Nat
  /\ Faults \subseteq {"pow", "die", "reset"}

VARIABLES
  todo,      \* chunks (and the recipe head) on their way to powClient
  batch,     \* powClient: batchChunk
  last,      \* powClient: jobDoneFlag
  answer,    \* pow thread: requiredChunkTemp, as far as it is filled in
  needed,    \* pow thread: requiredChunkNumber
  powPc,     \* where the powClient thread is
  skipped,   \* history: what the client left out although the server lacked it
  queue,     \* the sender's inputMQ_
  done,      \* its done_
  head,      \* sender: the name in fileRecipe
  list,      \* sender: recipeList
  buffer,    \* sender: sendChunkBatchBuffer
  sendPc,    \* where the sender thread is
  wire,      \* the data connection
  link,      \* and whether its client's end is open
  inbox,     \* data thread: recvBuffer
  pending,   \* data thread: the chunks of inbox not yet stored
  dataPc,    \* where the data thread is
  index,     \* the fingerprints in fp2ChunkDB
  recipes    \* the recipe files: the recipes appended to each

powClient == <<todo, batch, last, powPc, skipped>>
powThread == <<answer, needed>>
sender == <<head, list, buffer, sendPc>>
connection == <<wire, link>>
dataThread == <<inbox, pending, dataPc>>
server == <<index, recipes>>
vars == <<powClient, powThread, queue, done, sender, connection, dataThread, server>>

-----------------------------------------------------------------------------
FileNames == {FileName[c] : c \in Client} \cup {NoFile}

Message == [type : {"none", "chunks", "recipeHead", "recipe", "exit"},
            name : FileNames,
            chunks : Seq(Chunk)]
Msg(type, name, chunks) == [type |-> type, name |-> name, chunks |-> chunks]
NoMsg == Msg("none", NoFile, <<>>)

Step(pc, c, from, to) == pc[c] = from /\ pc' = [pc EXCEPT ![c] = to]

Init ==
  /\ todo = [c \in Client |-> Append(File[c], Recipe)]
  /\ batch = [c \in Client |-> <<>>]
  /\ last = [c \in Client |-> FALSE]
  /\ answer = [c \in Client |-> <<>>]
  /\ needed = [c \in Client |-> 0]
  /\ powPc = [c \in Client |-> "collect"]
  /\ skipped = [c \in Client |-> {}]
  /\ queue = [c \in Client |-> <<>>]
  /\ done = [c \in Client |-> FALSE]
  /\ head = [c \in Client |-> NoFile]
  /\ list = [c \in Client |-> <<>>]
  /\ buffer = [c \in Client |-> <<>>]
  /\ sendPc = [c \in Client |-> "run"]
  /\ wire = [c \in Client |-> <<>>]
  /\ link = [c \in Client |-> "open"]
  /\ inbox = [c \in Client |-> NoMsg]
  /\ pending = [c \in Client |-> <<>>]
  /\ dataPc = [c \in Client |-> "recv"]
  /\ index = {}
  /\ recipes = [f \in FileNames |-> <<>>]

-----------------------------------------------------------------------------
(* powClient::run; its request to the pow thread is a call.                 *)

\* chunk.type is never initialised: it may read as CHUNK_TYPE_NEED_UPLOAD.
Collect(c) ==
  /\ powPc[c] = "collect" /\ todo[c] # <<>> /\ Head(todo[c]) # Recipe
  /\ \E junk \in ChunkType :
       batch' = [batch EXCEPT ![c] = Append(@, [chunk |-> Head(todo[c]), type |-> junk])]
  /\ todo' = [todo EXCEPT ![c] = Tail(@)]
  /\ powPc' = [powPc EXCEPT ![c] =
                 IF Len(batch[c]) + 1 = PowBatchSize THEN "ask" ELSE "collect"]
  /\ UNCHANGED <<last, skipped, powThread, queue, done, sender, connection, dataThread, server>>

\* The recipe head overtakes the batch.
PassRecipe(c) ==
  /\ powPc[c] = "collect" /\ todo[c] # <<>> /\ Head(todo[c]) = Recipe
  /\ queue' = [queue EXCEPT ![c] = Append(@, Recipe)]
  /\ todo' = [todo EXCEPT ![c] = Tail(@)]
  /\ UNCHANGED <<batch, last, powPc, skipped, powThread, done, sender, connection, dataThread,
                 server>>

\* done_ is set and the queue is empty: what there is makes the last batch.
LastBatch(c) ==
  /\ todo[c] = <<>>
  /\ Step(powPc, c, "collect", "ask")
  /\ last' = [last EXCEPT ![c] = TRUE]
  /\ UNCHANGED <<todo, batch, skipped, powThread, queue, done, sender, connection, dataThread,
                 server>>

Ask(c) ==
  /\ Step(powPc, c, "ask", "asked")
  /\ answer' = [answer EXCEPT ![c] = <<>>]
  /\ needed' = [needed EXCEPT ![c] = 0]
  /\ UNCHANGED <<todo, batch, last, skipped, queue, done, sender, connection, dataThread, server>>

\* The enclave or the server refuses the batch: powClient drops it, and stops.
RefuseBatch(c) ==
  /\ "pow" \in Faults
  /\ Step(powPc, c, "ask", "over")
  /\ done' = [done EXCEPT ![c] = TRUE]
  /\ UNCHANGED <<todo, batch, last, skipped, powThread, queue, sender, connection, dataThread,
                 server>>

\* dedupByHash, one fingerprint: a known one leaves its entry uninitialised.
DedupByHash(c) ==
  LET unknown == batch[c][Len(answer[c]) + 1].chunk \notin index IN
  /\ powPc[c] = "asked" /\ Len(answer[c]) < Len(batch[c])
  /\ \E required \in IF unknown THEN {TRUE} ELSE BOOLEAN :
       answer' = [answer EXCEPT ![c] = Append(@, required)]
  /\ needed' = [needed EXCEPT ![c] = IF unknown THEN @ + 1 ELSE @]
  /\ UNCHANGED <<powClient, queue, done, sender, connection, dataThread, server>>

\* mutant of Marked: the answer is not looked at
MarkedNone(c) == batch[c]

\* The loop over the answer runs up to the number of required chunks.
Marked(c) ==
  [i \in DOMAIN batch[c] |->
    IF i <= needed[c] /\ answer[c][i] = TRUE
      THEN [batch[c][i] EXCEPT !.type = "needUpload"]
      ELSE batch[c][i]]

\* What the server lacks and the loop does not reach: it is required, but comes too late in the
\* batch, and does not read as marked by chance.
LeftOut(c) ==
  LET late == {i \in DOMAIN batch[c] :
                 i > needed[c] /\ answer[c][i] = TRUE /\ batch[c][i].type # "needUpload"}
  IN {batch[c][i].chunk : i \in late} \ index

\* mutant of Forward: done_ is not set after the last batch
ForwardNotDone(c) ==
  /\ Len(answer[c]) = Len(batch[c])
  /\ Step(powPc, c, "asked", IF last[c] THEN "over" ELSE "collect")
  /\ queue' = [queue EXCEPT ![c] = @ \o Marked(c)]
  /\ batch' = [batch EXCEPT ![c] = <<>>]
  /\ skipped' = [skipped EXCEPT ![c] = @ \cup LeftOut(c)]
  /\ UNCHANGED <<todo, last, done, powThread, sender, connection, dataThread, server>>

Forward(c) ==
  /\ Len(answer[c]) = Len(batch[c])
  /\ Step(powPc, c, "asked", IF last[c] THEN "over" ELSE "collect")
  /\ queue' = [queue EXCEPT ![c] = @ \o Marked(c)]
  /\ batch' = [batch EXCEPT ![c] = <<>>]
  /\ skipped' = [skipped EXCEPT ![c] = @ \cup LeftOut(c)]
  /\ done' = [done EXCEPT ![c] = last[c]]
  /\ UNCHANGED <<todo, last, powThread, sender, connection, dataThread, server>>

-----------------------------------------------------------------------------
(* Sender::run *)

Send(c, m) == wire' = [wire EXCEPT ![c] = Append(@, m)] /\ UNCHANGED link

TakeRecipe(c) ==
  /\ sendPc[c] = "run" /\ queue[c] # <<>> /\ Head(queue[c]) = Recipe
  /\ queue' = [queue EXCEPT ![c] = Tail(@)]
  /\ head' = [head EXCEPT ![c] = FileName[c]]
  /\ UNCHANGED <<powClient, powThread, done, list, buffer, sendPc, connection, dataThread, server>>

\* mutant of TakeChunk: only the chunks that are uploaded enter the recipe
TakeChunkNeeded(c) ==
  LET item == Head(queue[c])
      upload == item.type = "needUpload"
      chunks == IF upload THEN Append(buffer[c], item.chunk) ELSE buffer[c]
      full == Len(chunks) = SendBatchSize
  IN
  /\ sendPc[c] = "run" /\ queue[c] # <<>> /\ item # Recipe
  /\ queue' = [queue EXCEPT ![c] = Tail(@)]
  /\ list' = [list EXCEPT ![c] = IF upload THEN Append(@, item.chunk) ELSE @]
  /\ buffer' = [buffer EXCEPT ![c] = IF full THEN <<>> ELSE chunks]
  /\ IF full THEN Send(c, Msg("chunks", NoFile, chunks)) ELSE UNCHANGED connection
  /\ UNCHANGED <<powClient, powThread, done, head, sendPc, dataThread, server>>

TakeChunk(c) ==
  LET item == Head(queue[c])
      chunks == IF item.type = "needUpload" THEN Append(buffer[c], item.chunk) ELSE buffer[c]
      full == Len(chunks) = SendBatchSize
  IN
  /\ sendPc[c] = "run" /\ queue[c] # <<>> /\ item # Recipe
  /\ queue' = [queue EXCEPT ![c] = Tail(@)]
  /\ list' = [list EXCEPT ![c] = Append(@, item.chunk)]
  /\ buffer' = [buffer EXCEPT ![c] = IF full THEN <<>> ELSE chunks]
  /\ IF full THEN Send(c, Msg("chunks", NoFile, chunks)) ELSE UNCHANGED connection
  /\ UNCHANGED <<powClient, powThread, done, head, sendPc, dataThread, server>>

\* mutant of SendRest: the last, incomplete list is not sent
SendNoRest(c) ==
  /\ done[c] /\ queue[c] = <<>>
  /\ Step(sendPc, c, "run", "recipeHead")
  /\ buffer' = [buffer EXCEPT ![c] = <<>>]
  /\ UNCHANGED <<powClient, powThread, queue, done, head, list, connection, dataThread, server>>

\* The rest, which may be nothing, makes the last list.
SendRest(c) ==
  /\ done[c] /\ queue[c] = <<>>
  /\ Step(sendPc, c, "run", "recipeHead")
  /\ Send(c, Msg("chunks", NoFile, buffer[c]))
  /\ buffer' = [buffer EXCEPT ![c] = <<>>]
  /\ UNCHANGED <<powClient, powThread, queue, done, head, list, dataThread, server>>

\* sendRecipe sends the size of the recipe first, ...
SendRecipeHead(c) ==
  /\ Step(sendPc, c, "recipeHead", "recipe")
  /\ Send(c, Msg("recipeHead", NoFile, <<>>))
  /\ UNCHANGED <<powClient, powThread, queue, done, head, list, buffer, dataThread, server>>

\* ... then the recipe.
SendRecipe(c) ==
  /\ Step(sendPc, c, "recipe", "end")
  /\ Send(c, Msg("recipe", head[c], list[c]))
  /\ UNCHANGED <<powClient, powThread, queue, done, head, list, buffer, dataThread, server>>

\* sendEndFlag, once the pow thread has let the client go
SendEndFlag(c) ==
  /\ Step(sendPc, c, "end", "permit")
  /\ Send(c, Msg("exit", NoFile, <<>>))
  /\ UNCHANGED <<powClient, powThread, queue, done, head, list, buffer, dataThread, server>>

\* mutant of Finish: the sender does not wait for the reply to its exit
FinishAtOnce(c) ==
  /\ Step(sendPc, c, "permit", "finished")
  /\ UNCHANGED <<powClient, powThread, queue, done, head, list, buffer, connection, dataThread, server>>

Finish(c) ==
  /\ dataPc[c] = "exited"
  /\ Step(sendPc, c, "permit", "finished")
  /\ UNCHANGED <<powClient, powThread, queue, done, head, list, buffer, connection, dataThread, server>>

-----------------------------------------------------------------------------
(* DataSR::runData *)

Dispatch(c, m) ==
  /\ inbox' = [inbox EXCEPT ![c] = m]
  /\ pending' = [pending EXCEPT ![c] = IF m.type = "chunks" THEN m.chunks ELSE <<>>]
  /\ dataPc' = [dataPc EXCEPT ![c] =
                  CASE m.type = "chunks" -> "store"
                    [] m.type = "recipeHead" -> "recipe"
                    [] m.type = "exit" -> "exited"
                    [] OTHER -> "recv"]

Receive(c) ==
  /\ dataPc[c] = "recv" /\ wire[c] # <<>>
  /\ Dispatch(c, Head(wire[c]))
  /\ wire' = [wire EXCEPT ![c] = Tail(@)]
  /\ UNCHANGED <<link, powClient, powThread, queue, done, sender, server>>

\* storeChunks, one chunk
StoreOne(c) ==
  /\ dataPc[c] = "store" /\ pending[c] # <<>>
  /\ index' = index \cup {Head(pending[c])}
  /\ pending' = [pending EXCEPT ![c] = Tail(@)]
  /\ UNCHANGED <<inbox, dataPc, recipes, powClient, powThread, queue, done, sender, connection>>

Stored(c) ==
  /\ pending[c] = <<>>
  /\ Step(dataPc, c, "store", "recv")
  /\ UNCHANGED <<inbox, pending, server, powClient, powThread, queue, done, sender, connection>>

\* storeRecipes appends to the file of that name.
StoreRecipe(c) ==
  LET m == Head(wire[c]) IN
  /\ wire[c] # <<>>
  /\ Step(dataPc, c, "recipe", "recv")
  /\ recipes' = [recipes EXCEPT ![m.name] = Append(@, m.chunks)]
  /\ wire' = [wire EXCEPT ![c] = Tail(@)]
  /\ UNCHANGED <<link, inbox, pending, index, powClient, powThread, queue, done, sender>>

\* SSL_read returns 0: the client has closed the connection.
HangUp(c) ==
  /\ link[c] = "closed" /\ wire[c] = <<>>
  /\ dataPc[c] \in {"recv", "recipe"}
  /\ dataPc' = [dataPc EXCEPT ![c] = "exited"]
  /\ UNCHANGED <<inbox, pending, server, powClient, powThread, queue, done, sender, connection>>

\* SSL_read returns -1: ssl::recv reports an empty message and recvBuffer still
\* has the one before.
ReadReset(c) ==
  /\ link[c] = "reset" /\ wire[c] = <<>>
  /\ dataPc[c] = "recv"
  /\ Dispatch(c, inbox[c])
  /\ UNCHANGED <<server, powClient, powThread, queue, done, sender, connection>>

\* The same within a recipe: what the fresh buffer holds is stored, under a name
\* nobody uses, or it is what an earlier recipe left in that memory.
StoreJunkRecipe(c) ==
  /\ link[c] = "reset" /\ wire[c] = <<>>
  /\ Step(dataPc, c, "recipe", "recv")
  /\ \/ UNCHANGED recipes
     \/ \E f \in FileNames : \E i \in DOMAIN recipes[f] :
          /\ Len(recipes[f]) < Versions
          /\ recipes' = [recipes EXCEPT ![f] = Append(@, recipes[f][i])]
  /\ UNCHANGED <<inbox, pending, index, powClient, powThread, queue, done, sender, connection>>

\* The client's process dies; what it last sent may be lost.
Die(c) ==
  /\ "die" \in Faults
  /\ sendPc[c] \notin {"finished", "dead"}
  /\ sendPc' = [sendPc EXCEPT ![c] = "dead"]
  /\ powPc' = [powPc EXCEPT ![c] = "dead"]
  /\ \E state \in {"closed"} \cup (Faults \cap {"reset"}) : link' = [link EXCEPT ![c] = state]
  /\ \E n \in 0 .. Len(wire[c]) : wire' = [wire EXCEPT ![c] = SubSeq(@, 1, n)]
  /\ UNCHANGED <<todo, batch, last, skipped, powThread, queue, done, head, list, buffer,
                 dataThread, server>>

-----------------------------------------------------------------------------
PowClientStep(c) ==
  \/ Collect(c) \/ PassRecipe(c) \/ LastBatch(c) \/ Ask(c) \/ DedupByHash(c) \/ Forward(c)

SenderStep(c) ==
  \/ TakeRecipe(c) \/ TakeChunk(c) \/ SendRest(c) \/ SendRecipeHead(c)
  \/ SendRecipe(c) \/ SendEndFlag(c) \/ Finish(c)

DataStep(c) ==
  \/ Receive(c) \/ StoreOne(c) \/ Stored(c) \/ StoreRecipe(c) \/ HangUp(c)
  \/ ReadReset(c) \/ StoreJunkRecipe(c)

Next ==
  \E c \in Client :
    PowClientStep(c) \/ SenderStep(c) \/ DataStep(c) \/ RefuseBatch(c) \/ Die(c)

Spec == Init /\ [][Next]_vars

\* Every thread gets to run; no batch has to be refused and no client to die.
FairSpec ==
  /\ Spec
  /\ \A c \in Client :
       /\ WF_vars(PowClientStep(c))
       /\ WF_vars(SenderStep(c))
       /\ WF_vars(DataStep(c))

-----------------------------------------------------------------------------
PowTypes ==
  /\ todo \in [Client -> Seq(Chunk \cup {Recipe})]
  /\ batch \in [Client -> Seq(Item)]
  /\ last \in [Client -> BOOLEAN]
  /\ answer \in [Client -> Seq(BOOLEAN)]
  /\ needed \in [Client -> Nat]
  /\ powPc \in [Client -> {"collect", "ask", "asked", "over", "dead"}]
  /\ skipped \in [Client -> SUBSET Chunk]

SenderTypes ==
  /\ queue \in [Client -> Seq(Item \cup {Recipe})]
  /\ done \in [Client -> BOOLEAN]
  /\ head \in [Client -> FileNames]
  /\ list \in [Client -> Seq(Chunk)]
  /\ buffer \in [Client -> Seq(Chunk)]
  /\ sendPc \in [Client -> {"run", "recipeHead", "recipe", "end", "permit",
                            "finished", "dead"}]

ServerTypes ==
  /\ wire \in [Client -> Seq(Message)]
  /\ link \in [Client -> {"open", "closed", "reset"}]
  /\ inbox \in [Client -> Message]
  /\ pending \in [Client -> Seq(Chunk)]
  /\ dataPc \in [Client -> {"recv", "store", "recipe", "exited"}]
  /\ index \subseteq Chunk
  /\ recipes \in [FileNames -> Seq(Seq(Chunk))]

\* Every variable has the values its comment describes.
TypeOK == PowTypes /\ SenderTypes /\ ServerTypes

\* Every chunk of a stored recipe is stored - those the client was told not to
\* upload, those it did, and those that another client was uploading meanwhile -
\* unless the marking loop of the client that sent the recipe has left it out.
Restorable ==
  \A f \in FileNames : \A i \in DOMAIN recipes[f] :
    \E c \in Client : ToSet(recipes[f][i]) \subseteq index \cup skipped[c]

\* The same without the exception, which the code does not meet (README, divergences).
RestorableAlways ==
  \A f \in FileNames : \A i \in DOMAIN recipes[f] : ToSet(recipes[f][i]) \subseteq index

\* A recipe stored under a file's name lists all the chunks of a file of that
\* name, in order, although they went through two queues and in batches.
WholeRecipe ==
  \A f \in FileNames \ {NoFile} : \A i \in DOMAIN recipes[f] :
    \E c \in Client : FileName[c] = f /\ recipes[f][i] = File[c]

\* A client that was given leave to exit has its recipe at the server.
FinishedIsStored ==
  \A c \in Client : sendPc[c] = "finished" => File[c] \in ToSet(recipes[FileName[c]])

\* Every upload ends, and the server thread that served it exits.
SessionEnds ==
  \A c \in Client : <>(sendPc[c] \in {"finished", "dead"} /\ dataPc[c] = "exited")

\* The server thread of a client that has died exits.
ThreadExits == \A c \in Client : link[c] # "open" ~> dataPc[c] = "exited"

-----------------------------------------------------------------------------
(* Why a stored recipe can be restored, but for what a client has left out:  *)
(* the inductive invariant, for batches of any size.                         *)

\* Chunk x is stored, or will be when message k of client c is received, or c has left it out.
Covered(c, x, k) ==
  \/ x \in index \cup ToSet(pending[c]) \cup skipped[c]
  \/ \E j \in DOMAIN wire[c] :
       j < k /\ wire[c][j].type = "chunks" /\ x \in ToSet(wire[c][j].chunks)

\* What the server says it has, it has.
BatchRight(c) ==
  powPc[c] = "asked" =>
    /\ Len(answer[c]) <= Len(batch[c])
    /\ \A i \in DOMAIN answer[c] : batch[c][i].chunk \in index \/ answer[c][i] = TRUE

QueueRight(c) ==
  \A i \in DOMAIN queue[c] :
    queue[c][i] # Recipe =>
      queue[c][i].type = "needUpload" \/ queue[c][i].chunk \in index \cup skipped[c]

\* The sender has sent what it has listed, or is going to.
ListRight(c) ==
  /\ sendPc[c] \in {"run", "recipeHead", "recipe"} =>
       \A x \in ToSet(list[c]) : x \in ToSet(buffer[c]) \/ Covered(c, x, Len(wire[c]) + 1)
  /\ sendPc[c] \in {"recipeHead", "recipe"} => buffer[c] = <<>>

\* A recipe comes after its chunks, and right after its head.
WireRight(c) ==
  /\ link[c] # "open" => sendPc[c] = "dead"
  /\ dataPc[c] # "store" => pending[c] = <<>>
  /\ \A k \in DOMAIN wire[c] :
       /\ wire[c][k].type = "recipe" => \A x \in ToSet(wire[c][k].chunks) : Covered(c, x, k)
       /\ wire[c][k].type = "recipeHead" =>
            IF k = Len(wire[c]) THEN sendPc[c] \in {"recipe", "dead"}
                                ELSE wire[c][k + 1].type = "recipe"
  /\ dataPc[c] = "recipe" =>
       IF wire[c] = <<>> THEN sendPc[c] \in {"recipe", "dead"}
                         ELSE wire[c][1].type = "recipe"

\* The strengthening of Restorable that every step keeps.
IndInv ==
  /\ TypeOK /\ Restorable
  /\ \A c \in Client : BatchRight(c) /\ QueueRight(c) /\ ListRight(c) /\ WireRight(c)
=============================================================================
