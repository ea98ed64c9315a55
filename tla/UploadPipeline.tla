--------------------------- MODULE UploadPipeline ---------------------------
(***************************************************************************)
(* The five threads of "client -s" and the queues between them: Chunker    *)
(* hands chunks to Fingerprinter, it to KeyClient, that to powClient and   *)
(* that to Sender; main starts the threads, joins them and deletes the     *)
(* objects.  The file's recipe head is an item after the last chunk, which *)
(* a stage that works in batches lets overtake the batch it is filling.    *)
(*                                                                         *)
(* What a stage does to a chunk is not here: Chunker, KeyGenCFB, KeyGenCTR *)
(* and UploadSession have it.  Here it works, or it fails in the way the   *)
(* fault of its name says.                                                 *)
(***************************************************************************)
EXTENDS Integers, Sequences

CONSTANTS
    Chunks,
    Files,         \* the files, as sequences of chunks
    RecipeHead,    \* fileRecipe_, the item that is no chunk
    QueueSize,     \* capacity of messageQueue
    KeyBatch,      \* keyBatchSize_
    PowBatch,      \* powBatchSize
    Faults         \* of "sk", "hash", "exchange", "encrypt", "pow", "send", "interrupt"

ASSUME PipelineAssumption ==
    /\ Files \subseteq Seq(Chunks)
    /\ RecipeHead \notin Chunks
    /\ QueueSize \in Nat \ {0} /\ KeyBatch \in Nat \ {0} /\ PowBatch \in Nat \ {0}
    /\ Faults \subseteq {"sk", "hash", "exchange", "encrypt", "pow", "send", "interrupt"}

Middle == {"fingerprinter", "keyClient", "powClient"}
Stage  == Middle \union {"sender"}
Thread == Stage \union {"chunker"}

\* the thread whose queue a thread fills
Down == [t \in Thread \ {"sender"} |->
            CASE t = "chunker"       -> "fingerprinter"
              [] t = "fingerprinter" -> "keyClient"
              [] t = "keyClient"     -> "powClient"
              [] t = "powClient"     -> "sender"]

BatchSize == [t \in Middle |->
                CASE t = "fingerprinter" -> 1
                  [] t = "keyClient"     -> KeyBatch
                  [] t = "powClient"     -> PowBatch]

VARIABLES
    file,     \* the file of this upload
    made,     \* the items the chunker has made of it
    queue,    \* inputMQ_ of each stage
    done,     \* and its done_
    batch,    \* the chunks a stage has taken and not yet worked on
    held,     \* the items it has still to push
    last,     \* its JobDoneFlag
    pc,       \* "new", "loop", "work" on the batch, "push" what is held; "end" is
              \* the return at the end, "gone" one that leaves the next flag unset
    sent,     \* the chunks the sender has taken: recipeList
    fileRecipe,   \* whether it has the recipe head
    main,     \* "init", "join", "delete", "exit", or "handler" in CTRLC
    todo,     \* the objects it has still to delete
    freed     \* how often each object has been deleted

stageVars == <<queue, done, batch, held, last, pc, sent, fileRecipe>>
mainVars  == <<main, todo, freed>>
vars == <<file, made, stageVars, mainVars>>
senderVars == <<sent, fileRecipe>>

Items == Append(file, RecipeHead)
Ended == {"end", "gone"}

-----------------------------------------------------------------------------
(* messageQueue *)

\* push spins while the queue is full
Push(t, item) ==
    /\ Len(queue[Down[t]]) < QueueSize
    /\ queue' = [queue EXCEPT ![Down[t]] = Append(@, item)]

Finished(t) == done[t] /\ queue[t] = << >>

GoTo(t, to) == pc' = [pc EXCEPT ![t] = to]
SetDone(t)  == done' = [done EXCEPT ![Down[t]] = TRUE]

-----------------------------------------------------------------------------
(* The threads *)

\* chunking: the chunks, the recipe head, and then editJobDoneFlag
Chunk ==
    /\ pc["chunker"] = "loop" /\ made < Len(Items)
    /\ Push("chunker", Items[made + 1])
    /\ made' = made + 1
    /\ UNCHANGED <<done, batch, held, last, pc, senderVars>>

ChunkingOver ==
    /\ pc["chunker"] = "loop" /\ made = Len(Items)
    /\ SetDone("chunker") /\ GoTo("chunker", "end")
    /\ UNCHANGED <<made, queue, batch, held, last, senderVars>>

\* a recipe head is handed on at once
TakeRecipeHead(t) ==
    /\ pc[t] = "loop" /\ queue[t] # << >> /\ Head(queue[t]) = RecipeHead
    /\ queue' = [queue EXCEPT ![t] = Tail(@)]
    /\ held' = [held EXCEPT ![t] = <<RecipeHead>>]
    /\ GoTo(t, "push")
    /\ UNCHANGED <<made, done, batch, last, senderVars>>

TakeChunk(t) ==
    /\ pc[t] = "loop" /\ queue[t] # << >> /\ Head(queue[t]) # RecipeHead
    /\ queue' = [queue EXCEPT ![t] = Tail(@)]
    /\ batch' = [batch EXCEPT ![t] = Append(@, Head(queue[t]))]
    /\ GoTo(t, IF Len(batch'[t]) = BatchSize[t] THEN "work" ELSE "loop")
    /\ UNCHANGED <<made, done, held, last, senderVars>>

\* the flag is read before the queue is found empty: nothing is pushed after it
SeeDone(t) ==
    /\ pc[t] = "loop" /\ Finished(t)
    /\ last' = [last EXCEPT ![t] = TRUE]
    /\ GoTo(t, "work")
    /\ UNCHANGED <<made, queue, done, batch, held, senderVars>>

Work(t) ==
    /\ pc[t] = "work"
    /\ held' = [held EXCEPT ![t] = batch[t]]
    /\ batch' = [batch EXCEPT ![t] = << >>]
    /\ GoTo(t, "push")
    /\ UNCHANGED <<made, queue, done, last, senderVars>>

\* mutant of PassOn: the batch is pushed from its end
PassOnBackwards(t) ==
    /\ pc[t] = "push" /\ held[t] # << >>
    /\ Push(t, held[t][Len(held[t])])
    /\ held' = [held EXCEPT ![t] = SubSeq(@, 1, Len(@) - 1)]
    /\ UNCHANGED <<made, done, batch, last, pc, senderVars>>

PassOn(t) ==
    /\ pc[t] = "push" /\ held[t] # << >>
    /\ Push(t, Head(held[t]))
    /\ held' = [held EXCEPT ![t] = Tail(@)]
    /\ UNCHANGED <<made, done, batch, last, pc, senderVars>>

NextRound(t) ==
    /\ pc[t] = "push" /\ held[t] = << >> /\ ~last[t]
    /\ GoTo(t, "loop")
    /\ UNCHANGED <<made, queue, done, batch, held, last, senderVars>>

\* mutant of StageOver: the flag is set before the last batch is pushed
StageOverEarly(t) ==
    /\ pc[t] = "push" /\ last[t]
    /\ SetDone(t) /\ GoTo(t, "end")
    /\ UNCHANGED <<made, queue, batch, held, last, senderVars>>

\* mutant of StageOver: the return without editJobDoneFlag
StageOverSilent(t) ==
    /\ pc[t] = "push" /\ held[t] = << >> /\ last[t]
    /\ GoTo(t, "end")
    /\ UNCHANGED <<made, queue, done, batch, held, last, senderVars>>

StageOver(t) ==
    /\ pc[t] = "push" /\ held[t] = << >> /\ last[t]
    /\ SetDone(t) /\ GoTo(t, "end")
    /\ UNCHANGED <<made, queue, batch, held, last, senderVars>>

\* generateHash fails, or the exchange of a batch's keys: the thread returns
GiveUp(t) ==
    /\ pc[t] = "work" /\ batch[t] # << >>
    /\ \/ t = "fingerprinter" /\ "hash" \in Faults
       \/ t = "keyClient" /\ "exchange" \in Faults
    /\ GoTo(t, "gone")
    /\ UNCHANGED <<made, queue, done, batch, held, last, senderVars>>

\* encryptWithKey fails for a chunk of a batch of which some are pushed
EncryptFails ==
    /\ "encrypt" \in Faults
    /\ pc["keyClient"] = "push" /\ held["keyClient"] # << >>
    /\ Head(held["keyClient"]) # RecipeHead
    /\ GoTo("keyClient", "gone")
    /\ UNCHANGED <<made, queue, done, batch, held, last, senderVars>>

\* request fails or the server refuses: the batch is lost, the flag is set
PowFails ==
    /\ "pow" \in Faults
    /\ pc["powClient"] = "work"
    /\ SetDone("powClient") /\ GoTo("powClient", "end")
    /\ UNCHANGED <<made, queue, batch, held, last, senderVars>>

Send ==
    /\ pc["sender"] = "loop" /\ queue["sender"] # << >>
    /\ LET item == Head(queue["sender"])
       IN  IF item = RecipeHead THEN fileRecipe' = TRUE /\ UNCHANGED sent
           ELSE sent' = Append(sent, item) /\ UNCHANGED fileRecipe
    /\ queue' = [queue EXCEPT !["sender"] = Tail(@)]
    /\ UNCHANGED <<made, done, batch, held, last, pc>>

\* before the end a batch is sent when it is full, so never without a chunk
SendFails ==
    /\ "send" \in Faults
    /\ pc["sender"] = "loop" /\ sent # << >>
    /\ GoTo("sender", "end")
    /\ UNCHANGED <<made, queue, done, batch, held, last, senderVars>>

SendOver ==
    /\ pc["sender"] = "loop" /\ Finished("sender")
    /\ GoTo("sender", "end")
    /\ UNCHANGED <<made, queue, done, batch, held, last, senderVars>>

ChunkerStep == Chunk \/ ChunkingOver

MiddleStep(t) ==
    \/ TakeRecipeHead(t) \/ TakeChunk(t) \/ SeeDone(t)
    \/ Work(t) \/ PassOn(t) \/ NextRound(t) \/ StageOver(t)

SenderStep == Send \/ SendOver

Fails == (\E t \in Middle : GiveUp(t)) \/ EncryptFails \/ PowFails \/ SendFails

ThreadStep ==
    /\ main # "exit"
    /\ ChunkerStep \/ (\E t \in Middle : MiddleStep(t)) \/ SenderStep \/ Fails
    /\ UNCHANGED <<file, mainVars>>

-----------------------------------------------------------------------------
(* main and its signal handler *)

DeleteOrder  == <<"sender", "powClient", "keyClient", "fingerprinter", "chunker">>
HandlerOrder == <<"chunker", "fingerprinter", "keyClient", "powClient", "sender">>

StartThreads ==
    /\ main = "init" /\ main' = "join"
    /\ pc' = [t \in Thread |-> "loop"]
    /\ UNCHANGED <<file, made, queue, done, batch, held, last, senderVars, todo, freed>>

\* getKeyServerSK fails
NoSessionKey ==
    /\ "sk" \in Faults
    /\ main = "init" /\ main' = "delete"
    /\ todo' = <<"sender", "powClient">>
    /\ UNCHANGED <<file, made, stageVars, freed>>

\* mutant of Join: the first and the last thread are all that is awaited
JoinEnds ==
    /\ main = "join" /\ main' = "delete"
    /\ \A t \in {"chunker", "sender"} : pc[t] \in Ended
    /\ todo' = DeleteOrder
    /\ UNCHANGED <<file, made, stageVars, freed>>

Join ==
    /\ main = "join" /\ main' = "delete"
    /\ \A t \in Thread : pc[t] \in Ended
    /\ todo' = DeleteOrder
    /\ UNCHANGED <<file, made, stageVars, freed>>

\* CTRLC deletes what the pointers point to, and none is ever made null again
Interrupt ==
    /\ "interrupt" \in Faults
    /\ main \in {"join", "delete"} /\ main' = "handler"
    /\ todo' = HandlerOrder
    /\ UNCHANGED <<file, made, stageVars, freed>>

DeleteNext ==
    /\ main \in {"delete", "handler"} /\ todo # << >>
    /\ freed' = [freed EXCEPT ![Head(todo)] = @ + 1]
    /\ todo' = Tail(todo)
    /\ UNCHANGED <<file, made, stageVars, main>>

Exit ==
    /\ main \in {"delete", "handler"} /\ todo = << >>
    /\ main' = "exit"
    /\ UNCHANGED <<file, made, stageVars, todo, freed>>

MainStep == StartThreads \/ NoSessionKey \/ Join \/ DeleteNext \/ Exit

-----------------------------------------------------------------------------
Init ==
    /\ file \in Files
    /\ made = 0
    /\ queue = [t \in Stage |-> << >>] /\ done = [t \in Stage |-> FALSE]
    /\ batch = [t \in Middle |-> << >>] /\ held = [t \in Middle |-> << >>]
    /\ last = [t \in Middle |-> FALSE]
    /\ pc = [t \in Thread |-> "new"]
    /\ sent = << >> /\ fileRecipe = FALSE
    /\ main = "init" /\ todo = << >>
    /\ freed = [t \in Thread |-> 0]

Next == ThreadStep \/ MainStep \/ Interrupt

\* every thread is scheduled; whether something fails is not its choice
Fairness ==
    /\ \A t \in Middle : WF_vars(main # "exit" /\ MiddleStep(t) /\ UNCHANGED <<file, mainVars>>)
    /\ WF_vars(main # "exit" /\ ChunkerStep /\ UNCHANGED <<file, mainVars>>)
    /\ WF_vars(main # "exit" /\ SenderStep /\ UNCHANGED <<file, mainVars>>)
    /\ WF_vars(MainStep)

Spec == Init /\ [][Next]_vars /\ Fairness

-----------------------------------------------------------------------------
(* Properties *)

TypeOK ==
    /\ file \in Files /\ made \in 0 .. Len(Items)
    /\ \A t \in Stage : Len(queue[t]) <= QueueSize
    /\ done \in [Stage -> BOOLEAN] /\ last \in [Middle -> BOOLEAN]
    /\ \A t \in Middle : Len(batch[t]) <= BatchSize[t] /\ Len(held[t]) <= BatchSize[t]
    /\ pc \in [Thread -> {"new", "loop", "work", "push"} \union Ended]
    /\ fileRecipe \in BOOLEAN
    /\ main \in {"init", "join", "delete", "handler", "exit"}
    /\ freed \in [Thread -> 0 .. 2]

\* What there is between the push to stage t and the server.
Order    == <<"fingerprinter", "keyClient", "powClient", "sender">>
HeadTaken == IF fileRecipe THEN 1 ELSE 0
Holds(t) == IF t = "sender" THEN Len(queue[t]) + Len(sent) + HeadTaken
            ELSE Len(queue[t]) + Len(batch[t]) + Len(held[t])
HoldsFrom(k, j) == IF k <= j THEN Holds(Order[j]) ELSE 0
Beyond(k) == HoldsFrom(k, 1) + HoldsFrom(k, 2) + HoldsFrom(k, 3) + HoldsFrom(k, 4)

\* A stage whose done flag is set has been given the whole file and its recipe
\* head: none of it is still with a stage before it, unless a proof has failed,
\* after which powClient sets the flag with its batch still in its hands.  The
\* type invariant is part of it.
DoneIsAll ==
    /\ TypeOK
    /\ \A k \in 1 .. 4 :
          done[Order[k]] /\ (k = 4 => batch["powClient"] = << >>) => Beyond(k) = Len(Items)

\* No thread works on after main has deleted the object it belongs to and whose
\* queue it reads, and main deletes none twice on its way to its end; only the
\* signal handler does not wait for the threads.
LivesLonger ==
    main \in {"join", "delete"} =>
        \A t \in Thread : freed[t] = 0 \/ (freed[t] = 1 /\ pc[t] \in Ended \union {"new"})

\* The chunks that reach the sender are the file's, in order and without a gap,
\* however the stages batch them and whichever of them fails.
Copy == INSTANCE OrderedCopy WITH input <- file, out <- sent, Lossy <- FALSE,
                                  Damaged <- RecipeHead
CopiesFile == Copy!Spec

\* A stage that has left the next one without its flag, or one that no longer
\* takes what is pushed to it: powClient and the sender may end early.
LeftWaiting == \E t \in Middle : pc[t] = "gone"
NotTaken    == \E t \in {"powClient", "sender"} :
                  pc[t] = "end" /\ Len(queue[t]) = QueueSize
\* Every thread returns and main ends; those are the only ways in which an upload can hang.
Joins == <>(main = "exit" \/ LeftWaiting \/ NotTaken)
=============================================================================
