------------------------------ MODULE Restore ------------------------------
(***************************************************************************)
(* Restoring one file: RecvDecode and Retriever at the client, the data    *)
(* thread DataSR::runData and the recipe files of StorageCore at the       *)
(* server.  The file's name may be uploaded again while it is restored.    *)
(*                                                                         *)
(* A recipe file is the uploads of its name one after the other; an upload *)
(* is the sequence of its chunks, and one unit of the file is the head or  *)
(* an entry.  A chunk that arrives with any byte changed is Damaged.       *)
(***************************************************************************)
EXTENDS Integers, Sequences, SequencesExt

CONSTANTS
    Chunks,        \* fingerprints
    Size,          \* Size[c], the bytes of chunk c
    Histories,     \* what may be uploaded under the name, one after the other
    Stored,        \* the chunks restoreChunk finds
    BatchSize,     \* restoreChunkBatchNumber_
    EntryHead,     \* the bytes of chunkID and chunkSize before each chunk
    QueueSize,     \* capacity of messageQueue
    IDLimit,       \* 2^32, the values of startID_ and endID_
    Faults,        \* may contain "kill": the server process may die
    Damaged

ASSUME RestoreAssumption ==
    /\ Size \in [Chunks -> Nat \ {0}]
    /\ Histories \subseteq Seq(Seq(Chunks)) \ {<< >>}
    /\ \A h \in Histories : \A k \in DOMAIN h : Len(h[k]) + BatchSize < IDLimit
    /\ Stored \subseteq Chunks
    /\ BatchSize \in Nat \ {0} /\ BatchSize < IDLimit /\ IDLimit \in Nat
    /\ EntryHead \in Nat
    /\ QueueSize \in Nat \ {0}
    /\ Damaged \notin Chunks

VARIABLES
    uploads,     \* the uploads of the name in this behaviour
    appended,    \* how many of them the recipe file has
    toServer,    \* the data connection, to the server
    toClient,    \* and back
    server,      \* what runData does: "loop", "read", "list", "batch", "gone"
    announced,   \* recipeSize
    total,       \* restoredFileRecipe_.fileRecipeHead.totalChunkNumber
    requested,   \* restoredRecipeList
    startID, endID, restored,   \* restored is totalRestoredChunkNumber_
    client,      \* where RecvDecode is: in its constructor up to "request", then in
                 \* run; "failed" if run returned early, "stuck" in ssl::send
    list,        \* fileRecipeList_ (and the head's number, its length)
    received,    \* totalRecvChunks
    pending,     \* the chunks of respondBuffer not yet in the queue
    queue,       \* outPutMQ_
    written      \* the file Retriever writes

fileVars   == <<uploads, appended>>
serverVars == <<server, announced, total, requested, startID, endID, restored>>
clientVars == <<client, list, received, pending, queue, written>>
vars == <<fileVars, toServer, toClient, serverVars, clientVars>>

-----------------------------------------------------------------------------
(* The recipe file *)

UploadSize(k) == 1 + Len(uploads[k])

\* the size of the file with n uploads
FileSize(n) == MapThenSumSet(UploadSize, 1 .. n)

\* storeRecipes: a further upload is appended to the file the name already has
StoreRecipes ==
    /\ appended < Len(uploads)
    /\ appended' = appended + 1
    /\ UNCHANGED <<uploads, toServer, toClient, serverVars, clientVars>>

-----------------------------------------------------------------------------
(* The data thread *)

\* ssl::recv takes a message of this type and goes on in state next
Receive(type, next) ==
    /\ server = "loop"
    /\ toServer # << >> /\ Head(toServer).type = type
    /\ toServer' = Tail(toServer)
    /\ server' = next

Reply(message) == toClient' = Append(toClient, message)

\* restoreRecipesSize: the size is asked of the file before it is read
AnnounceRecipe ==
    /\ Receive("recipe", IF appended > 0 THEN "read" ELSE "loop")
    /\ IF appended > 0
       THEN /\ announced' = FileSize(appended)
            /\ Reply([type |-> "size", size |-> FileSize(appended)])
       ELSE /\ Reply([type |-> "notExist"])
            /\ UNCHANGED announced
    /\ UNCHANGED <<fileVars, total, requested, startID, endID, restored, clientVars>>

\* restoreRecipes: the file as it now is, under the head written before
SendRecipe ==
    /\ server = "read"
    /\ Reply([type |-> "recipe", size |-> announced, sent |-> FileSize(appended)])
    /\ total' = Len(uploads[1])
    /\ server' = "loop"
    /\ UNCHANGED <<fileVars, toServer, announced, requested, startID, endID, restored,
                   clientVars>>

\* CLIENT_UPLOAD_DECRYPTED_RECIPE, a size and then, in a message of its own, the list
ReceiveListSize ==
    /\ Receive("listSize", "list")
    /\ UNCHANGED <<fileVars, toClient, announced, total, requested, startID, endID, restored,
                   clientVars>>

ReceiveList ==
    /\ server = "list" /\ toServer # << >>
    /\ requested' = Head(toServer).chunks
    /\ toServer' = Tail(toServer)
    /\ server' = "loop"
    /\ UNCHANGED <<fileVars, toClient, announced, total, startID, endID, restored, clientVars>>

\* CLIENT_DOWNLOAD_CHUNK_WITH_RECIPE
FirstEnd(n) == IF n < BatchSize THEN (n - 1) % IDLimit ELSE endID

StartBatches ==
    /\ Receive("download", "batch")
    /\ endID' = FirstEnd(total)
    /\ UNCHANGED <<fileVars, toClient, announced, total, requested, startID, restored,
                   clientVars>>

\* restoreRecipeAndChunk: the chunks of the list from first + 1 to last
BatchOf(first, last) == SubSeq(requested, first + 1, last)

\* restoreRecipeAndChunk adds the sizes of the chunks, without their EntryHeads, so that
\* many bytes are sent; what is cut off is zero in respondBuffer.  A chunk that is not
\* found is sent as zeros (TRACE_DRIVEN_TEST).
EntryEnd(chunks, i) == i * EntryHead + MapThenSumSet(LAMBDA j : Size[chunks[j]], 1 .. i)

SentSize(chunks) == MapThenSumSet(LAMBDA j : Size[chunks[j]], DOMAIN chunks)

Transfer(chunks) ==
    [i \in DOMAIN chunks |->
        IF chunks[i] \in Stored /\ EntryEnd(chunks, i) <= SentSize(chunks)
        THEN chunks[i] ELSE Damaged]

\* mutant: the last batch is as long as the others
NextEndFull(last, done) == (last + BatchSize) % IDLimit

\* the end of the next batch, after the one that ends at last
NextEnd(last, done) ==
    LET remain == (total - done) % IDLimit
    IN  IF remain < BatchSize THEN (last + remain) % IDLimit ELSE (last + BatchSize) % IDLimit

SendBatch ==
    /\ server = "batch" /\ restored # total
    /\ Reply([type |-> "batch", items |-> Transfer(BatchOf(startID, endID))])
    /\ restored' = restored + (endID - startID)
    /\ startID' = endID
    /\ endID' = NextEnd(endID, restored')
    /\ UNCHANGED <<fileVars, toServer, server, announced, total, requested, clientVars>>

EndBatches ==
    /\ server = "batch" /\ restored = total
    /\ server' = "loop"
    /\ UNCHANGED <<fileVars, toServer, toClient, announced, total, requested, startID, endID,
                   restored, clientVars>>

\* CLIENT_EXIT
ServeExit ==
    /\ Receive("exit", "gone")
    /\ Reply([type |-> "permit"])
    /\ UNCHANGED <<fileVars, announced, total, requested, startID, endID, restored, clientVars>>

\* recv returns false
LostClient ==
    /\ server \in {"loop", "list"} /\ toServer = << >> /\ client = "exited"
    /\ server' = IF server = "list" THEN "loop" ELSE "gone"
    /\ UNCHANGED <<fileVars, toServer, toClient, announced, total, requested, startID, endID,
                   restored, clientVars>>

\* the server process is killed; what it has sent still arrives
Kill ==
    /\ "kill" \in Faults /\ server # "gone"
    /\ server' = "gone"
    /\ toServer' = << >>
    /\ UNCHANGED <<fileVars, toClient, announced, total, requested, startID, endID, restored,
                   clientVars>>

-----------------------------------------------------------------------------
(* RecvDecode *)

\* ssl::send; nobody reads what is sent to a dead server
Send(message) ==
    toServer' = IF server = "gone" THEN toServer ELSE Append(toServer, message)

\* SSL_write fails without end
SendHangs ==
    /\ server = "gone"
    /\ client \in {"ask", "sendSize", "sendList", "request", "exit"}
    /\ client' = "stuck"
    /\ UNCHANGED <<fileVars, toServer, toClient, serverVars, list, received, pending, queue,
                   written>>

Step(from, to) == client = from /\ client' = to

\* a send that changes nothing else at the client
SendStep(from, message, to) ==
    /\ Step(from, to)
    /\ Send(message)
    /\ UNCHANGED <<fileVars, toClient, serverVars, list, received, pending, queue, written>>

\* processRecipe asks for the recipe and is told its size
AskRecipe == SendStep("ask", [type |-> "recipe"], "size")

RecvSize ==
    /\ toClient # << >>
    /\ Step("size", IF Head(toClient).type = "size" THEN "recipe" ELSE "exited")
    /\ toClient' = Tail(toClient)
    /\ UNCHANGED <<fileVars, toServer, serverVars, list, received, pending, queue, written>>

\* a message of another size than its head says ends the client; the list is made of the
\* first upload, whose head comes first
RecvRecipe ==
    /\ toClient # << >>
    /\ LET ok == Head(toClient).sent = Head(toClient).size
       IN  /\ Step("recipe", IF ok THEN "sendSize" ELSE "exited")
           /\ list' = IF ok THEN uploads[1] ELSE list
    /\ toClient' = Tail(toClient)
    /\ UNCHANGED <<fileVars, toServer, serverVars, received, pending, queue, written>>

SendListSize == SendStep("sendSize", [type |-> "listSize"], "sendList")

SendList == SendStep("sendList", [type |-> "list", chunks |-> list], "request")

\* run, and with it Retriever::run, which reads the same head
RequestChunks == SendStep("request", [type |-> "download"], "recv")

RecvBatch ==
    /\ received < Len(list)
    /\ toClient # << >>
    /\ Step("recv", "insert")
    /\ pending' = Head(toClient).items
    /\ received' = received + Len(Head(toClient).items)
    /\ toClient' = Tail(toClient)
    /\ UNCHANGED <<fileVars, toServer, serverVars, list, queue, written>>

\* insertMQ, which waits while the queue is full
Insert ==
    /\ client = "insert" /\ pending # << >>
    /\ Len(queue) < QueueSize
    /\ queue' = Append(queue, Head(pending))
    /\ pending' = Tail(pending)
    /\ UNCHANGED <<fileVars, toServer, toClient, serverVars, client, list, received, written>>

Inserted ==
    /\ pending = << >>
    /\ Step("insert", "recv")
    /\ UNCHANGED <<fileVars, toServer, toClient, serverVars, list, received, pending, queue,
                   written>>

\* mutant: one chunk too many is waited for
RunReturnsLate ==
    /\ received > Len(list)
    /\ Step("recv", "done")
    /\ UNCHANGED <<fileVars, toServer, toClient, serverVars, list, received, pending, queue,
                   written>>

RunReturns ==
    /\ received >= Len(list)
    /\ Step("recv", "done")
    /\ UNCHANGED <<fileVars, toServer, toClient, serverVars, list, received, pending, queue,
                   written>>

\* recv returns false: in the constructor the client exits, run returns
LostServer ==
    /\ server = "gone" /\ toClient = << >>
    /\ \/ client \in {"size", "recipe"} /\ client' = "exited"
       \/ client = "recv" /\ received < Len(list) /\ client' = "failed"
    /\ UNCHANGED <<fileVars, toServer, toClient, serverVars, list, received, pending, queue,
                   written>>

-----------------------------------------------------------------------------
(* Retriever, and main *)

Running == client \in {"recv", "insert", "done", "failed"}

\* mutant: a chunk is left in the queue when it is written
WriteChunkAgain ==
    /\ Running /\ Len(written) < Len(list)
    /\ queue # << >>
    /\ written' = Append(written, Head(queue))
    /\ queue' = IF written = << >> THEN queue ELSE Tail(queue)
    /\ UNCHANGED <<fileVars, toServer, toClient, serverVars, client, list, received, pending>>

WriteChunk ==
    /\ Running /\ Len(written) < Len(list)
    /\ queue # << >>
    /\ written' = Append(written, Head(queue))
    /\ queue' = Tail(queue)
    /\ UNCHANGED <<fileVars, toServer, toClient, serverVars, client, list, received, pending>>

\* both threads are joined
Join ==
    /\ client \in {"done", "failed"} /\ Len(written) >= Len(list)
    /\ client' = "exit"
    /\ UNCHANGED <<fileVars, toServer, toClient, serverVars, list, received, pending, queue,
                   written>>

\* the destructor
SendExit == SendStep("exit", [type |-> "exit"], "exited")

-----------------------------------------------------------------------------
Init ==
    /\ uploads \in Histories
    /\ appended \in 0 .. 1
    /\ toServer = << >> /\ toClient = << >>
    /\ server = "loop" /\ announced = 0 /\ total = 0 /\ requested = << >>
    /\ startID = 0 /\ endID = 0 /\ restored = 0
    /\ client = "ask" /\ list = << >> /\ received = 0 /\ pending = << >>
    /\ queue = << >> /\ written = << >>

ServerNext ==
    \/ AnnounceRecipe \/ SendRecipe \/ ReceiveListSize \/ ReceiveList
    \/ StartBatches \/ SendBatch \/ EndBatches \/ ServeExit \/ LostClient

RecvNext ==
    \/ AskRecipe \/ RecvSize \/ RecvRecipe \/ SendListSize \/ SendList \/ RequestChunks
    \/ RecvBatch \/ Insert \/ Inserted \/ RunReturns \/ LostServer \/ Join \/ SendExit

Next == StoreRecipes \/ ServerNext \/ Kill \/ RecvNext \/ SendHangs \/ WriteChunk

\* every thread runs; nobody has to upload again or to fail
Fairness == WF_vars(ServerNext) /\ WF_vars(RecvNext) /\ WF_vars(WriteChunk)

Spec == Init /\ [][Next]_vars /\ Fairness

-----------------------------------------------------------------------------
(* Properties *)

File == uploads[1]

Files == Seq(Chunks \union {Damaged})

TypeOK ==
    /\ uploads \in Histories
    /\ appended \in 0 .. Len(uploads)
    /\ server \in {"loop", "read", "list", "batch", "gone"}
    /\ announced \in {0} \union {FileSize(n) : n \in 1 .. appended}
    /\ total \in Nat /\ requested \in Seq(Chunks)
    /\ startID \in 0 .. IDLimit - 1 /\ endID \in 0 .. IDLimit - 1 /\ restored \in Int
    /\ client \in {"ask", "size", "recipe", "sendSize", "sendList", "request", "recv", "insert",
                   "done", "failed", "exit", "stuck", "exited"}
    /\ list \in Seq(Chunks) /\ received \in Nat
    /\ pending \in Files /\ queue \in Files /\ written \in Files

(* Each batch lies within the list the client sent, begins where the last one ended, and the
   arithmetic of dataSR.cpp:239-269 never leaves the range of the counters: files of no chunk,
   of one, and of as many as a batch included.  The type invariant is part of it. *)
BatchInRange ==
    /\ TypeOK
    /\ server = "batch" /\ restored # total =>
          /\ total = Len(requested)
          /\ restored = startID
          /\ startID <= endID /\ endID <= total

\* the abstract specification: the file is copied chunk by chunk
Copy == INSTANCE OrderedCopy WITH input <- File, Lossy <- TRUE, out <- written

(* The file on the client's disk grows by the chunks of the uploaded one, each once and in its
   place, although the retriever writes in the order of arrival and never looks at a chunk's
   ID (retriever.cpp:30-46); a chunk the server does not have comes damaged. *)
CopiesFile == Copy!Spec

(* A restore from a server that stays up ends, whatever is uploaded meanwhile
   (retriever.cpp:30 waits for as many chunks as recvDecode.cpp:289 receives). *)
RestoreEnds == <>(server = "gone" \/ client = "exited")

(* README.md:195: the client restores the file: a client that has come to its end has written
   the chunks of the file, if the server has them. *)
WholeFile == (client = "exit" /\ Range(File) \subseteq Stored) => written = File

(* storageCore.cpp:184: "current file's recipe exist, modify it now": what a client restores
   is the last upload that the recipe file it received contains. *)
LatestRestored ==
    [][(client = "recipe" /\ client' = "sendSize") =>
          \E n \in DOMAIN uploads :
              FileSize(n) = Head(toClient).sent /\ list' = uploads[n]]_vars
=============================================================================
