--------------------------- MODULE ThreadsProofs ---------------------------
(***************************************************************************)
(* What holds of the threads of the two programs and of what passes        *)
(* between them: the upload pipeline of the client, for files, queues and  *)
(* batches of any size and any set of faults, and the accept loop of the   *)
(* server, for any number of clients and any backlog, whichever of them    *)
(* die and however often the server stops.                                 *)
(***************************************************************************)
EXTENDS UploadPipeline, ServerAccept, TLAPS

(***************************************************************************)
(* Types, and where each thread is                                         *)
(***************************************************************************)
Parts == Chunks \cup {RecipeHead}

Types ==
    /\ file \in Files /\ made \in 0 .. Len(Items)
    /\ queue \in [Stage -> Seq(Parts)]
    /\ \A t \in Stage : Len(queue[t]) <= QueueSize
    /\ done \in [Stage -> BOOLEAN] /\ last \in [Middle -> BOOLEAN]
    /\ batch \in [Middle -> Seq(Chunks)] /\ held \in [Middle -> Seq(Parts)]
    /\ \A t \in Middle : Len(batch[t]) <= BatchSize[t] /\ Len(held[t]) <= BatchSize[t]
    /\ pc \in [Thread -> {"new", "loop", "work", "push"} \cup Ended]
    /\ sent \in Seq(Chunks) /\ fileRecipe \in BOOLEAN
    /\ main \in {"init", "join", "delete", "handler", "exit"}
    /\ todo \in Seq(Thread) /\ freed \in [Thread -> 0 .. 2]

\* what a stage has in its hands in each state
Hands(t) ==
    /\ pc[t] \in {"new", "loop"} => held[t] = << >> /\ ~last[t]
    /\ pc[t] \in {"new", "loop", "push"} => Len(batch[t]) < BatchSize[t]
    /\ pc[t] = "new" => batch[t] = << >>
    /\ pc[t] = "work" => held[t] = << >> /\ (last[t] \/ batch[t] # << >>)
    /\ pc[t] = "push" /\ last[t] => batch[t] = << >>
    /\ pc[t] = "end" =>
          /\ held[t] = << >> /\ (t # "powClient" => batch[t] = << >>)
          /\ batch[t] = << >> => last[t]
    /\ last[t] => done[t] /\ queue[t] = << >>
    /\ done[Down[t]] <=> pc[t] = "end"

Places ==
    /\ \A t \in Middle : Hands(t)
    /\ done["fingerprinter"] <=> pc["chunker"] = "end"
    /\ pc["chunker"] \in {"new", "loop", "end"} /\ pc["sender"] \in {"new", "loop", "end"}
    /\ pc["chunker"] = "end" => made = Len(Items)

\* main deletes once, and its handler once more
Limit == IF main \in {"handler", "exit"} THEN 2 ELSE 1

Deletes ==
    /\ \A t \in Thread : freed[t] <= Limit
    /\ main = "init" => \A t \in Thread : pc[t] = "new"
    /\ main \in {"init", "join"} => \A t \in Thread : freed[t] = 0
    /\ main = "delete" => \A t \in Thread : pc[t] \in Ended \cup {"new"}
    /\ \A i \in 1 .. Len(todo) :
          /\ freed[todo[i]] < Limit
          /\ \A j \in 1 .. Len(todo) : i # j => todo[i] # todo[j]

\* nothing is lost on the way
Kept == Beyond(1) = made

-----------------------------------------------------------------------------
(* The chunks on their way *)

\* the chunks among the items of s are those of the file behind the first lo, up to the hi-th;
\* f says how many of the file's chunks are behind each item
Span(whole, s, lo, hi) ==
    \E f \in [0 .. Len(s) -> Nat] :
        /\ f[0] = lo /\ f[Len(s)] = hi
        /\ \A i \in 1 .. Len(s) :
              IF s[i] = RecipeHead THEN f[i] = f[i - 1]
              ELSE f[i] = f[i - 1] + 1 /\ s[i] = whole[f[i]]
        /\ \A i, j \in 0 .. Len(s) : i <= j => f[i] <= f[j] /\ f[j] <= f[i] + (j - i)

\* the thread that fills the queue of a stage
Up == [t \in Stage |->
          CASE t = "fingerprinter" -> "chunker"
            [] t = "keyClient"     -> "fingerprinter"
            [] t = "powClient"     -> "keyClient"
            [] t = "sender"        -> "powClient"]

\* how many chunks each thread has passed on, how many it has passed on or holds to pass on,
\* and how many it has taken
Positions(cut, mid, took) ==
    /\ cut["chunker"] = IF made <= Len(file) THEN made ELSE Len(file)
    /\ took["sender"] = Len(sent) /\ sent = SubSeq(file, 1, Len(sent))
    /\ \A r \in Stage : Span(file, queue[r], took[r], cut[Up[r]])
    /\ \A t \in Middle : Span(file, held[t], cut[t], mid[t]) /\ Span(file, batch[t], mid[t], took[t])

Flow ==
    \E cut \in [Thread -> 0 .. Len(file)], mid \in [Middle -> 0 .. Len(file)],
       took \in [Stage -> 0 .. Len(file)] : Positions(cut, mid, took)

StageInv == Types /\ Places /\ Deletes /\ Flow /\ Kept
-----------------------------------------------------------------------------
(* Sequences *)

LEMMA HeadTail ==
  ASSUME NEW S, NEW s \in Seq(S), s # << >>
  PROVE  /\ Head(s) \in S /\ Tail(s) \in Seq(S) /\ Head(s) = s[1]
         /\ Len(s) \in Nat \ {0} /\ Len(Tail(s)) = Len(s) - 1
         /\ \A i \in 1 .. Len(s) - 1 : Tail(s)[i] = s[i + 1]
OBVIOUS

LEMMA Appended ==
  ASSUME NEW S, NEW s \in Seq(S), NEW e \in S
  PROVE  /\ Append(s, e) \in Seq(S) /\ Len(Append(s, e)) = Len(s) + 1 /\ Append(s, e) # << >>
         /\ Len(s) \in Nat
         /\ \A i \in 1 .. Len(s) : Append(s, e)[i] = s[i]
         /\ Append(s, e)[Len(s) + 1] = e
OBVIOUS

LEMMA EmptySeq == \A S : << >> \in Seq(S) /\ Len(<< >>) = 0
OBVIOUS

LEMMA EmptyLen == \A S : \A s \in Seq(S) : Len(s) \in Nat /\ (s = << >> <=> Len(s) = 0)
OBVIOUS

LEMMA ItemFacts ==
  ASSUME file \in Files
  PROVE  /\ file \in Seq(Chunks) /\ Items \in Seq(Parts) /\ Len(file) \in Nat
         /\ Len(Items) = Len(file) + 1
         /\ \A i \in 1 .. Len(file) : Items[i] = file[i] /\ file[i] # RecipeHead
         /\ Items[Len(file) + 1] = RecipeHead
<1>1. file \in Seq(Chunks)
  BY PipelineAssumption
<1>2. file \in Seq(Parts) /\ RecipeHead \in Parts
  BY <1>1 DEF Parts
<1>3. \A i \in 1 .. Len(file) : file[i] \in Chunks
  BY <1>1
<1>4. QED
  BY <1>1, <1>2, <1>3, Appended, PipelineAssumption DEF Items

LEMMA DownFacts ==
  /\ Down["chunker"] = "fingerprinter" /\ Down["fingerprinter"] = "keyClient"
  /\ Down["keyClient"] = "powClient" /\ Down["powClient"] = "sender"
  /\ Middle = {"fingerprinter", "keyClient", "powClient"}
  /\ Stage = {"fingerprinter", "keyClient", "powClient", "sender"}
  /\ Thread = {"fingerprinter", "keyClient", "powClient", "sender", "chunker"}
  /\ \A t \in Middle : Down[t] \in Stage /\ Down[t] # t /\ BatchSize[t] \in Nat \ {0}
BY PipelineAssumption DEF Down, Middle, Stage, Thread, BatchSize

-----------------------------------------------------------------------------
(* Types *)

LEMMA TypesInit == Init => Types
<1> SUFFICES ASSUME Init PROVE Types
  OBVIOUS
<1>1. 0 \in 0 .. Len(Items)
  BY ItemFacts DEF Init
<1>2. 0 <= QueueSize /\ \A t \in Middle : 0 <= BatchSize[t]
  BY DownFacts, PipelineAssumption
<1>3. queue \in [Stage -> Seq(Parts)] /\ \A t \in Stage : Len(queue[t]) <= QueueSize
  BY <1>2, EmptySeq DEF Init
<1>4. /\ batch \in [Middle -> Seq(Chunks)] /\ held \in [Middle -> Seq(Parts)]
      /\ \A t \in Middle : Len(batch[t]) <= BatchSize[t] /\ Len(held[t]) <= BatchSize[t]
  BY <1>2, EmptySeq DEF Init
<1>5. sent \in Seq(Chunks) /\ todo \in Seq(Thread)
  BY EmptySeq DEF Init
<1>6. /\ done \in [Stage -> BOOLEAN] /\ last \in [Middle -> BOOLEAN]
      /\ pc \in [Thread -> {"new", "loop", "work", "push"} \cup Ended]
      /\ freed \in [Thread -> 0 .. 2]
  BY DEF Init
<1>7. file \in Files /\ made = 0 /\ fileRecipe = FALSE /\ main = "init"
  BY DEF Init
<1>8. QED
  BY <1>1, <1>3, <1>4, <1>5, <1>6, <1>7 DEF Types

LEMMA PushTypes ==
  ASSUME Types, NEW t \in Thread \ {"sender"}, NEW item \in Parts, Push(t, item)
  PROVE  /\ queue' \in [Stage -> Seq(Parts)]
         /\ \A s \in Stage : Len(queue'[s]) <= QueueSize
<1>1. Down[t] \in Stage /\ queue[Down[t]] \in Seq(Parts)
  BY DownFacts DEF Types
<1>2. Append(queue[Down[t]], item) \in Seq(Parts)
      /\ Len(Append(queue[Down[t]], item)) <= QueueSize
  BY <1>1, Appended, PipelineAssumption DEF Push
<1>3. QED
  BY <1>1, <1>2 DEF Push, Types

LEMMA TakeTypes ==
  ASSUME Types, NEW t \in Stage, queue[t] # << >>
  PROVE  /\ [queue EXCEPT ![t] = Tail(@)] \in [Stage -> Seq(Parts)]
         /\ \A s \in Stage : Len([queue EXCEPT ![t] = Tail(@)][s]) <= QueueSize
         /\ Head(queue[t]) \in Parts
<1>1. queue[t] \in Seq(Parts) /\ Len(queue[t]) <= QueueSize
  BY DEF Types
<1>2. Tail(queue[t]) \in Seq(Parts) /\ Len(Tail(queue[t])) <= QueueSize
      /\ Head(queue[t]) \in Parts
  BY <1>1, HeadTail, PipelineAssumption
<1>3. QED
  BY <1>2 DEF Types

LEMMA ChunkerTypes == Types /\ ChunkerStep /\ UNCHANGED <<file, mainVars>> => Types'
<1> SUFFICES ASSUME Types, ChunkerStep, UNCHANGED <<file, mainVars>> PROVE Types'
  OBVIOUS
<1> USE DEF Types, mainVars, senderVars
<1>1. CASE Chunk
  <2>1. Len(Items) \in Nat /\ Items \in Seq(Parts)
    BY ItemFacts
  <2>2. made' \in 0 .. Len(Items) /\ Items[made + 1] \in Parts
    BY <1>1, <2>1 DEF Chunk
  <2>3. queue' \in [Stage -> Seq(Parts)] /\ \A s \in Stage : Len(queue'[s]) <= QueueSize
    BY <1>1, <2>2, PushTypes, DownFacts DEF Chunk
  <2>4. QED BY <1>1, <2>2, <2>3 DEF Chunk, Items
<1>2. CASE ChunkingOver
  BY <1>2, DownFacts DEF ChunkingOver, SetDone, GoTo, Items, Ended
<1>3. QED
  BY <1>1, <1>2 DEF ChunkerStep

LEMMA MiddleTypes ==
  ASSUME Types, Places, NEW t \in Middle, MiddleStep(t), UNCHANGED <<file, mainVars>>
  PROVE  Types'
<1> USE DEF Types, mainVars, senderVars, Items, GoTo, Ended
<1>1. t \in Stage /\ t \in Thread \ {"sender"} /\ Down[t] \in Stage /\ BatchSize[t] \in Nat \ {0}
  BY DownFacts
<1>2. CASE TakeRecipeHead(t)
  <2>1. queue' \in [Stage -> Seq(Parts)] /\ \A s \in Stage : Len(queue'[s]) <= QueueSize
    BY <1>1, <1>2, TakeTypes DEF TakeRecipeHead
  <2>2. <<RecipeHead>> \in Seq(Parts) /\ Len(<<RecipeHead>>) = 1
    BY DEF Parts
  <2>3. held' \in [Middle -> Seq(Parts)] /\ \A s \in Middle : Len(held'[s]) <= BatchSize[s]
    BY <1>1, <1>2, <2>2 DEF TakeRecipeHead
  <2>4. QED BY <1>1, <1>2, <2>1, <2>3 DEF TakeRecipeHead
<1>3. CASE TakeChunk(t)
  <2>1. /\ queue' \in [Stage -> Seq(Parts)] /\ \A s \in Stage : Len(queue'[s]) <= QueueSize
        /\ Head(queue[t]) \in Chunks
    BY <1>1, <1>3, TakeTypes DEF TakeChunk, Parts
  <2>2. Len(batch[t]) < BatchSize[t]
    BY <1>3 DEF TakeChunk, Places, Hands
  <2>3. batch' \in [Middle -> Seq(Chunks)] /\ \A s \in Middle : Len(batch'[s]) <= BatchSize[s]
    BY <1>1, <1>3, <2>1, <2>2, Appended DEF TakeChunk
  <2>4. QED BY <1>1, <1>3, <2>1, <2>3 DEF TakeChunk
<1>4. CASE SeeDone(t)
  BY <1>1, <1>4 DEF SeeDone
<1>5. CASE Work(t)
  <2>1. batch[t] \in Seq(Parts) /\ << >> \in Seq(Chunks) /\ Len(<< >>) = 0
    BY EmptySeq DEF Parts
  <2>2. QED BY <1>1, <1>5, <2>1 DEF Work
<1>6. CASE PassOn(t)
  <2>1. Head(held[t]) \in Parts /\ Tail(held[t]) \in Seq(Parts) /\ Len(Tail(held[t])) <= BatchSize[t]
    BY <1>1, <1>6, HeadTail DEF PassOn
  <2>2. queue' \in [Stage -> Seq(Parts)] /\ \A s \in Stage : Len(queue'[s]) <= QueueSize
    BY <1>1, <1>6, <2>1, PushTypes DEF PassOn
  <2>3. QED BY <1>1, <1>6, <2>1, <2>2 DEF PassOn
<1>7. CASE NextRound(t)
  BY <1>1, <1>7 DEF NextRound
<1>8. CASE StageOver(t)
  BY <1>1, <1>8 DEF StageOver, SetDone
<1>9. QED
  BY <1>2, <1>3, <1>4, <1>5, <1>6, <1>7, <1>8 DEF MiddleStep

LEMMA SenderTypes == Types /\ SenderStep /\ UNCHANGED <<file, mainVars>> => Types'
<1> SUFFICES ASSUME Types, SenderStep, UNCHANGED <<file, mainVars>> PROVE Types'
  OBVIOUS
<1> USE DEF Types, mainVars, senderVars, Items, GoTo, Ended
<1>1. CASE Send
  <2>1. /\ queue' \in [Stage -> Seq(Parts)] /\ \A s \in Stage : Len(queue'[s]) <= QueueSize
        /\ Head(queue["sender"]) \in Parts
    BY <1>1, TakeTypes, DownFacts DEF Send
  <2>2. sent' \in Seq(Chunks) /\ fileRecipe' \in BOOLEAN
    <3>1. CASE Head(queue["sender"]) = RecipeHead
      BY <1>1, <3>1 DEF Send
    <3>2. CASE Head(queue["sender"]) # RecipeHead
      <4>1. Head(queue["sender"]) \in Chunks
        BY <2>1, <3>2 DEF Parts
      <4>2. Append(sent, Head(queue["sender"])) \in Seq(Chunks)
        BY <4>1, Appended
      <4>3. QED BY <1>1, <3>2, <4>2 DEF Send
    <3>3. QED BY <3>1, <3>2
  <2>3. QED BY <1>1, <2>1, <2>2 DEF Send
<1>2. CASE SendOver
  BY <1>2, DownFacts DEF SendOver
<1>3. QED
  BY <1>1, <1>2 DEF SenderStep

LEMMA FailTypes == Types /\ Fails /\ UNCHANGED <<file, mainVars>> => Types'
<1> SUFFICES ASSUME Types, Fails, UNCHANGED <<file, mainVars>> PROVE Types'
  OBVIOUS
<1> USE DownFacts DEF Types, mainVars, senderVars, Items, GoTo, Ended
<1>1. CASE \E t \in Middle : GiveUp(t)
  BY <1>1 DEF GiveUp
<1>2. CASE EncryptFails
  BY <1>2 DEF EncryptFails
<1>3. CASE PowFails
  BY <1>3 DEF PowFails, SetDone
<1>4. CASE SendFails
  BY <1>4 DEF SendFails
<1>5. QED
  BY <1>1, <1>2, <1>3, <1>4 DEF Fails

LEMMA MainTypes == Types /\ Deletes /\ (MainStep \/ Interrupt) => Types'
<1> SUFFICES ASSUME Types, Deletes, MainStep \/ Interrupt PROVE Types'
  OBVIOUS
<1> USE DEF Types, stageVars, Items, Ended
<1>1. CASE StartThreads
  BY <1>1 DEF StartThreads, senderVars
<1>2. CASE NoSessionKey
  BY <1>2, DownFacts DEF NoSessionKey
<1>3. CASE Join
  BY <1>3, DownFacts DEF Join, DeleteOrder
<1>4. CASE Interrupt
  BY <1>4, DownFacts DEF Interrupt, HandlerOrder
<1>5. CASE DeleteNext
  <2>1. Head(todo) \in Thread /\ Tail(todo) \in Seq(Thread) /\ 1 \in 1 .. Len(todo)
        /\ Head(todo) = todo[1]
    BY <1>5, HeadTail DEF DeleteNext
  <2>2. freed[todo[1]] < Limit
    BY <2>1 DEF Deletes
  <2>3. freed[Head(todo)] + 1 \in 0 .. 2
    <3>1. freed[todo[1]] \in 0 .. 2 /\ Limit \in {1, 2}
      BY <2>1 DEF Limit
    <3>2. QED BY <2>1, <2>2, <3>1
  <2>4. QED BY <1>5, <2>1, <2>3 DEF DeleteNext
<1>6. CASE Exit
  BY <1>6 DEF Exit
<1>7. QED
  BY <1>1, <1>2, <1>3, <1>4, <1>5, <1>6 DEF MainStep
-----------------------------------------------------------------------------
(* Where each thread is *)

LEMMA DownOnce ==
  /\ \A s, t \in Middle : s # t => Down[s] # Down[t]
  /\ \A t \in Middle : Down[t] # "fingerprinter"
BY DownFacts

LEMMA PlacesInit == Init => Places
<1> SUFFICES ASSUME Init PROVE Places
  OBVIOUS
<1>1. \A t \in Middle : 0 < BatchSize[t] /\ t \in Stage /\ t \in Thread
  BY DownFacts
<1>2. \A t \in Middle : Hands(t)
  BY <1>1, EmptySeq, DownFacts DEF Init, Hands
<1>3. QED
  BY <1>2, DownFacts DEF Init, Places

LEMMA PlacesChunker ==
  ASSUME Types, Places, ChunkerStep, UNCHANGED file
  PROVE  Places'
<1> USE DownFacts, DownOnce DEF Types, Places, Hands, senderVars, GoTo, SetDone
<1>1. CASE Chunk
  <2>1. queue' = [queue EXCEPT !["fingerprinter"] = queue'["fingerprinter"]]
    BY <1>1 DEF Chunk, Push
  <2>2. ~done["fingerprinter"]
    BY <1>1 DEF Chunk
  <2>3. QED BY <1>1, <2>1, <2>2 DEF Chunk
<1>2. CASE ChunkingOver
  BY <1>2 DEF ChunkingOver, Items
<1>3. QED
  BY <1>1, <1>2 DEF ChunkerStep

\* a step of t touches no other stage but by a push to the next one, or by that one's flag
Apart(t) ==
    /\ \A s \in Middle \ {t} :
          /\ pc'[s] = pc[s] /\ held'[s] = held[s] /\ batch'[s] = batch[s] /\ last'[s] = last[s]
          /\ queue'[s] = queue[s] \/ (Down[t] = s /\ pc[t] # "end")
          /\ done[s] => done'[s]
          /\ done'[Down[s]] = done[Down[s]]
    /\ pc'["chunker"] = pc["chunker"] /\ pc'["sender"] = pc["sender"]
    /\ done'["fingerprinter"] = done["fingerprinter"]
    /\ UNCHANGED <<file, made>>

\* so it is enough to look at its own hands
LEMMA OthersKeep ==
  ASSUME Types, Places, NEW t \in Middle, Apart(t), Hands(t)'
  PROVE  Places'
<1>1. ASSUME NEW s \in Middle \ {t} PROVE Hands(s)'
  <2>1. last'[s] => queue'[s] = << >>
    BY DEF Places, Hands, Apart
  <2>2. Hands(s)
    BY DEF Places
  <2>3. QED
    BY <2>1, <2>2 DEF Hands, Apart
<1>2. QED
  BY <1>1 DEF Places, Items, Apart

LEMMA PlacesMiddle ==
  ASSUME Types, Places, NEW t \in Middle, MiddleStep(t), UNCHANGED file
  PROVE  Places'
<1> USE DEF senderVars, GoTo
<1>1. /\ t \in Stage /\ t \in Thread /\ Down[t] \in Stage /\ BatchSize[t] \in Nat \ {0}
      /\ Down[t] # t /\ t # "chunker" /\ t # "sender" /\ Down[t] # "fingerprinter"
      /\ \A s \in Middle \ {t} : Down[s] # Down[t] /\ Down[s] \in Stage
  BY DownFacts, DownOnce
<1>2. Hands(t)
  BY DEF Places
<1>3. CASE TakeRecipeHead(t)
  <2>1. last'[t] = FALSE /\ pc'[t] = "push"
    BY <1>1, <1>2, <1>3 DEF TakeRecipeHead, Hands, Types
  <2>2. Hands(t)'
    BY <1>1, <1>2, <1>3, <2>1 DEF TakeRecipeHead, Hands, Types
  <2>3. Apart(t)
    BY <1>1, <1>3 DEF TakeRecipeHead, Types, Apart
  <2>4. QED BY <2>2, <2>3, OthersKeep
<1>4. CASE TakeChunk(t)
  <2>1. batch'[t] # << >> /\ Len(batch'[t]) = Len(batch[t]) + 1 /\ Len(batch[t]) < BatchSize[t]
    <3>1. queue[t] \in Seq(Parts) /\ Head(queue[t]) \in Chunks /\ batch[t] \in Seq(Chunks)
      BY <1>1, <1>4, TakeTypes DEF TakeChunk, Types, Parts
    <3>2. batch'[t] = Append(batch[t], Head(queue[t]))
      BY <1>1, <1>4 DEF TakeChunk, Types
    <3>3. QED BY <3>1, <3>2, <1>2, <1>4, Appended DEF TakeChunk, Hands
  <2>2. Len(batch'[t]) # BatchSize[t] => Len(batch'[t]) < BatchSize[t]
    <3>1. Len(batch[t]) \in Nat
      BY EmptyLen DEF Types
    <3>2. QED BY <2>1, <3>1, <1>1
  <2>3. pc'[t] = IF Len(batch'[t]) = BatchSize[t] THEN "work" ELSE "loop"
    BY <1>1, <1>4 DEF TakeChunk, Types
  <2>4. last'[t] = FALSE /\ held'[t] = << >> /\ pc[t] = "loop" /\ done' = done
    BY <1>2, <1>4 DEF TakeChunk, Hands, Types
  <2>5. Hands(t)'
    BY <1>2, <2>1, <2>2, <2>3, <2>4 DEF Hands
  <2>6. Apart(t)
    BY <1>1, <1>4 DEF TakeChunk, Types, Apart
  <2>7. QED BY <2>5, <2>6, OthersKeep
<1>5. CASE SeeDone(t)
  <2>1. last'[t] = TRUE /\ pc'[t] = "work" /\ done'[t] /\ queue'[t] = << >>
    BY <1>1, <1>5 DEF SeeDone, Finished, Types
  <2>2. Hands(t)'
    BY <1>1, <1>2, <1>5, <2>1 DEF SeeDone, Hands, Types
  <2>3. Apart(t)
    BY <1>1, <1>5 DEF SeeDone, Types, Apart
  <2>4. QED BY <2>2, <2>3, OthersKeep
<1>6. CASE Work(t)
  <2>1. pc'[t] = "push" /\ batch'[t] = << >>
    BY <1>1, <1>6 DEF Work, Types
  <2>2. Hands(t)'
    BY <1>1, <1>2, <1>6, <2>1 DEF Work, Hands, Types
  <2>3. Apart(t)
    BY <1>1, <1>6 DEF Work, Types, Apart
  <2>4. QED BY <2>2, <2>3, OthersKeep
<1>7. CASE PassOn(t)
  <2>1. Hands(t)'
    BY <1>1, <1>2, <1>7 DEF PassOn, Push, Hands, Types
  <2>2. Apart(t)
    BY <1>1, <1>7 DEF PassOn, Push, Types, Apart
  <2>3. QED BY <2>1, <2>2, OthersKeep
<1>8. CASE NextRound(t)
  <2>1. pc'[t] = "loop"
    BY <1>1, <1>8 DEF NextRound, Types
  <2>2. Hands(t)'
    BY <1>1, <1>2, <1>8, <2>1 DEF NextRound, Hands, Types
  <2>3. Apart(t)
    BY <1>1, <1>8 DEF NextRound, Types, Apart
  <2>4. QED BY <2>2, <2>3, OthersKeep
<1>9. CASE StageOver(t)
  <2>1. pc'[t] = "end" /\ done'[Down[t]] = TRUE /\ batch'[t] = << >> /\ done'[t] = done[t]
    BY <1>1, <1>2, <1>9 DEF StageOver, SetDone, Hands, Types
  <2>2. Hands(t)'
    BY <1>1, <1>2, <1>9, <2>1 DEF StageOver, Hands, Types
  <2>3. Apart(t)
    <3>1. done' = [done EXCEPT ![Down[t]] = TRUE] /\ done'["fingerprinter"] = done["fingerprinter"]
      BY <1>1, <1>9, DownFacts DEF StageOver, SetDone, Types
    <3>2. ASSUME NEW s \in Middle \ {t}
          PROVE  (done[s] => done'[s]) /\ done'[Down[s]] = done[Down[s]]
      BY <3>1, <1>1, DownFacts DEF Types
    <3>3. ASSUME NEW s \in (Middle \ {t}) \cup {"chunker", "sender"} PROVE pc'[s] = pc[s]
      BY <1>1, <1>9, DownFacts DEF StageOver, Types
    <3>4. UNCHANGED <<file, made, queue, batch, held, last>>
      BY <1>9 DEF StageOver
    <3>5. QED BY <3>1, <3>2, <3>3, <3>4 DEF Apart
  <2>4. QED BY <2>2, <2>3, OthersKeep
<1>10. QED
  BY <1>3, <1>4, <1>5, <1>6, <1>7, <1>8, <1>9 DEF MiddleStep

LEMMA PlacesSender ==
  ASSUME Types, Places, SenderStep, UNCHANGED file
  PROVE  Places'
<1> USE DownFacts DEF Types, Places, Hands, senderVars, GoTo, Items
<1>1. CASE Send
  BY <1>1 DEF Send
<1>2. CASE SendOver
  BY <1>2 DEF SendOver
<1>3. QED
  BY <1>1, <1>2 DEF SenderStep

LEMMA PlacesFails ==
  ASSUME Types, Places, Fails, UNCHANGED file
  PROVE  Places'
<1> USE DownFacts, DownOnce DEF Types, Places, Hands, senderVars, GoTo, Items
<1>1. ASSUME NEW t \in Middle, GiveUp(t) PROVE Places'
  BY <1>1 DEF GiveUp
<1>2. CASE EncryptFails
  BY <1>2 DEF EncryptFails
<1>3. CASE PowFails
  <2>1. "powClient" \in Middle /\ Down["powClient"] = "sender"
    OBVIOUS
  <2>2. pc'["powClient"] = "end" /\ done' = [done EXCEPT !["sender"] = TRUE]
    BY <1>3 DEF PowFails, SetDone
  <2>3. Hands("powClient")'
    BY <1>3, <2>1, <2>2 DEF PowFails
  <2>4. Apart("powClient")
    BY <1>3, <2>1, <2>2 DEF PowFails, Apart
  <2>5. QED BY <2>1, <2>3, <2>4, OthersKeep
<1>4. CASE SendFails
  BY <1>4 DEF SendFails
<1>5. QED
  BY <1>1, <1>2, <1>3, <1>4 DEF Fails

LEMMA PlacesMain ==
  ASSUME Types, Places, Deletes, MainStep \/ Interrupt
  PROVE  Places'
<1> USE DownFacts DEF Places, Hands, Items
<1>1. CASE StartThreads
  BY <1>1 DEF StartThreads, Deletes, senderVars
<1>2. CASE NoSessionKey \/ Join \/ Interrupt \/ DeleteNext \/ Exit
  BY <1>2 DEF NoSessionKey, Join, Interrupt, DeleteNext, Exit, stageVars
<1>3. QED
  BY <1>1, <1>2 DEF MainStep
-----------------------------------------------------------------------------
(* What main has deleted *)

LEMMA DeletesInit == Init => Deletes
<1> SUFFICES ASSUME Init PROVE Deletes
  OBVIOUS
<1>1. Len(todo) = 0
  BY EmptySeq DEF Init
<1>2. QED
  BY <1>1 DEF Init, Deletes, Limit

\* while main has not begun to delete as it should, or deletes, no thread runs
LEMMA Running == ChunkerStep \/ (\E t \in Middle : MiddleStep(t)) \/ SenderStep \/ Fails
                    => \E t \in Thread : pc[t] \in {"loop", "work", "push"}
BY DownFacts DEF ChunkerStep, Chunk, ChunkingOver, MiddleStep, TakeRecipeHead, TakeChunk, SeeDone,
      Work, PassOn, NextRound, StageOver, SenderStep, Send, SendOver, Fails, GiveUp,
      EncryptFails, PowFails, SendFails

LEMMA DeletesThreads == Deletes /\ ThreadStep => Deletes'
<1> SUFFICES ASSUME Deletes, ThreadStep PROVE Deletes'
  OBVIOUS
<1>1. PICK t \in Thread : pc[t] \in {"loop", "work", "push"}
  BY Running DEF ThreadStep
<1>2. main # "init" /\ main # "delete"
  BY <1>1 DEF Deletes, Ended
<1>3. UNCHANGED mainVars
  BY DEF ThreadStep
<1>4. QED
  BY <1>2, <1>3 DEF Deletes, Limit, mainVars

LEMMA Orders ==
  /\ \A i, j \in 1 .. Len(DeleteOrder) : i # j => DeleteOrder[i] # DeleteOrder[j]
  /\ \A i, j \in 1 .. Len(HandlerOrder) : i # j => HandlerOrder[i] # HandlerOrder[j]
  /\ \A i \in 1 .. Len(DeleteOrder) : DeleteOrder[i] \in Thread
  /\ \A i \in 1 .. Len(HandlerOrder) : HandlerOrder[i] \in Thread
BY DownFacts DEF DeleteOrder, HandlerOrder

LEMMA DeletesMain ==
  ASSUME Types, Deletes, MainStep \/ Interrupt
  PROVE  Deletes'
<1>1. CASE StartThreads
  BY <1>1 DEF StartThreads, Deletes, Limit
<1>2. CASE NoSessionKey
  <2>1. Len(todo') = 2 /\ todo'[1] = "sender" /\ todo'[2] = "powClient"
    BY <1>2 DEF NoSessionKey
  <2>2. QED BY <1>2, <2>1, DownFacts DEF NoSessionKey, stageVars, Deletes, Limit
<1>3. CASE Join
  <2>1. \A t \in Thread : pc'[t] \in Ended
    BY <1>3 DEF Join, stageVars
  <2>2. QED BY <1>3, <2>1, Orders DEF Join, Deletes, Limit
<1>4. CASE Interrupt
  <2>1. \A t \in Thread : freed[t] \in 0 .. 2 /\ freed[t] <= 1
    BY <1>4 DEF Interrupt, Deletes, Limit, Types
  <2>2. \A t \in Thread : freed'[t] < 2
    BY <1>4, <2>1 DEF Interrupt
  <2>3. main' = "handler" /\ todo' = HandlerOrder /\ Limit' = 2
    BY <1>4 DEF Interrupt, Limit
  <2>4. \A t \in Thread : freed'[t] <= 2
    BY <1>4, <2>1 DEF Interrupt
  <2>5. \A i \in 1 .. Len(HandlerOrder) : freed'[HandlerOrder[i]] < 2
    BY <2>2, Orders
  <2>6. QED BY <2>3, <2>4, <2>5, Orders DEF Deletes
<1>5. CASE DeleteNext
  <2>1. /\ Len(todo) \in Nat \ {0} /\ Len(todo') = Len(todo) - 1
        /\ \A i \in 1 .. Len(todo) - 1 : todo'[i] = todo[i + 1]
        /\ Head(todo) = todo[1] /\ todo[1] \in Thread
    BY <1>5, HeadTail DEF DeleteNext, Types
  <2>2. \A i \in 1 .. Len(todo') : /\ i + 1 \in 1 .. Len(todo) /\ i + 1 # 1
                                   /\ todo'[i] = todo[i + 1] /\ todo'[i] \in Thread
    BY <2>1 DEF Types
  <2>3. \A i \in 1 .. Len(todo') : todo'[i] # todo[1]
    BY <2>1, <2>2 DEF Deletes
  <2>4. Limit' = Limit /\ Limit \in Nat /\ main' = main
    BY <1>5 DEF DeleteNext, Limit
  <2>5. freed[todo[1]] \in Nat /\ freed[todo[1]] < Limit /\ freed'[todo[1]] = freed[todo[1]] + 1
    BY <1>5, <2>1 DEF DeleteNext, Types, Deletes
  <2>6. \A t \in Thread : t # todo[1] => freed'[t] = freed[t]
    BY <1>5, <2>1 DEF DeleteNext, Types
  <2>7. \A t \in Thread : freed'[t] <= Limit
    BY <2>4, <2>5, <2>6 DEF Deletes
  <2>8. ASSUME NEW i \in 1 .. Len(todo')
        PROVE  /\ freed'[todo'[i]] < Limit
               /\ \A j \in 1 .. Len(todo') : i # j => todo'[i] # todo'[j]
    BY <2>2, <2>3, <2>6 DEF Deletes
  <2>9. \A s \in Thread : pc'[s] = pc[s]
    BY <1>5 DEF DeleteNext, stageVars
  <2>10. QED BY <1>5, <2>4, <2>7, <2>8, <2>9 DEF Deletes, DeleteNext
<1>6. CASE Exit
  <2>1. Len(todo') = 0 /\ Limit' = 2 /\ \A t \in Thread : freed'[t] \in 0 .. 2
    BY <1>6, EmptySeq DEF Exit, Limit, Types
  <2>2. QED BY <1>6, <2>1 DEF Exit, Deletes
<1>7. QED
  BY <1>1, <1>2, <1>3, <1>4, <1>5, <1>6 DEF MainStep

-----------------------------------------------------------------------------
(* Nothing is lost *)

LEMMA HoldsMiddle ==
  \A t : t # "sender" => Holds(t) = Len(queue[t]) + Len(batch[t]) + Len(held[t])
BY DEF Holds

LEMMA HoldsSender == Holds("sender") = Len(queue["sender"]) + Len(sent) + HeadTaken
BY DEF Holds

LEMMA Sums ==
  ASSUME NEW q \in Nat, NEW b \in Nat, NEW h \in Nat
  PROVE  /\ q + b + h \in Nat
         /\ (q - 1) + (b + 1) + h = q + b + h
         /\ (q - 1) + b + 1 = q + b + 0
         /\ q + 0 + b = q + b + 0
         /\ q + b + (h - 1) = (q + b + h) - 1
         /\ (q + 1) + b + h = (q + b + h) + 1
OBVIOUS

LEMMA Total ==
  Types => /\ \A t \in Stage : Holds(t) \in Nat
           /\ Beyond(1) = Holds("fingerprinter") + Holds("keyClient") + Holds("powClient")
                             + Holds("sender")
<1> SUFFICES ASSUME Types PROVE /\ \A t \in Stage : Holds(t) \in Nat
           /\ Beyond(1) = Holds("fingerprinter") + Holds("keyClient") + Holds("powClient")
                             + Holds("sender")
  OBVIOUS
<1>1. ASSUME NEW t \in Stage PROVE Holds(t) \in Nat
  <2>1. Len(queue[t]) \in Nat /\ Len(sent) \in Nat
    BY EmptyLen DEF Types
  <2>2. t # "sender" => Len(batch[t]) \in Nat /\ Len(held[t]) \in Nat
    BY EmptyLen, DownFacts DEF Types
  <2>3. CASE t = "sender"
    <3>1. HeadTaken \in Nat
      BY DEF HeadTaken
    <3>2. Len(queue["sender"]) + Len(sent) + HeadTaken \in Nat
      BY <2>1, <2>3, <3>1, Sums
    <3>3. QED BY <2>3, <3>2, HoldsSender
  <2>4. CASE t # "sender"
    <3>1. Len(queue[t]) + Len(batch[t]) + Len(held[t]) \in Nat
      BY <2>1, <2>2, <2>4, Sums
    <3>2. QED BY <2>4, <3>1, HoldsMiddle
  <2>5. QED BY <2>3, <2>4
<1>2. QED
  BY <1>1 DEF Beyond, HoldsFrom, Order

\* what one stage gives is what the next one gets
LEMMA MoveKeeps ==
  ASSUME Types, Types', Kept, UNCHANGED made, NEW t \in Middle, NEW d \in 0 .. 1,
         Holds(t)' = Holds(t) - d, Holds(Down[t])' = Holds(Down[t]) + d,
         \A s \in Stage \ {t, Down[t]} : Holds(s)' = Holds(s)
  PROVE  Kept'
<1>1. (Beyond(1) = Holds("fingerprinter") + Holds("keyClient") + Holds("powClient")
                      + Holds("sender"))'
  BY Total, PTL
<1> QED BY <1>1, Total, DownFacts DEF Kept

LEMMA KeptInit == Init => Kept
<1> SUFFICES ASSUME Init PROVE Kept
  OBVIOUS
<1>1. \A t \in Stage : Holds(t) = 0
  BY EmptySeq, DownFacts DEF Init, Holds, HeadTaken
<1>2. QED
  BY <1>1, Total, TypesInit, DownFacts DEF Init, Kept

\* pushing and taking, by the lengths
LEMMA PushLen ==
  ASSUME Types, NEW t \in Thread \ {"sender"}, NEW item \in Parts, Push(t, item)
  PROVE  /\ Len(queue'[Down[t]]) = Len(queue[Down[t]]) + 1 /\ Len(queue[Down[t]]) \in Nat
         /\ \A s \in Stage \ {Down[t]} : queue'[s] = queue[s]
<1>1. Down[t] \in Stage /\ queue[Down[t]] \in Seq(Parts)
  BY DownFacts DEF Types
<1>2. QED
  BY <1>1, Appended DEF Push, Types

LEMMA TakeLen ==
  ASSUME Types, NEW t \in Stage, queue[t] # << >>, queue' = [queue EXCEPT ![t] = Tail(@)]
  PROVE  /\ Len(queue'[t]) = Len(queue[t]) - 1 /\ Len(queue[t]) \in Nat
         /\ \A s \in Stage \ {t} : queue'[s] = queue[s]
<1>1. queue[t] \in Seq(Parts)
  BY DEF Types
<1>2. QED
  BY <1>1, HeadTail DEF Types

LEMMA KeptChunker ==
  ASSUME Types, Types', Kept, ChunkerStep
  PROVE  Kept'
<1>0. (Beyond(1) = Holds("fingerprinter") + Holds("keyClient") + Holds("powClient")
                      + Holds("sender"))'
  BY Total, PTL
<1>1. CASE Chunk
  <2>1. Items[made + 1] \in Parts
    BY <1>1, ItemFacts DEF Chunk, Types
  <2>2. Len(queue'["fingerprinter"]) = Len(queue["fingerprinter"]) + 1
        /\ \A s \in Stage \ {"fingerprinter"} : queue'[s] = queue[s]
    BY <1>1, <2>1, PushLen, DownFacts DEF Chunk
  <2>3. Len(batch["fingerprinter"]) \in Nat /\ Len(held["fingerprinter"]) \in Nat
        /\ Len(queue["fingerprinter"]) \in Nat
    BY EmptyLen, DownFacts DEF Types
  <2>4. Holds("fingerprinter")' = Holds("fingerprinter") + 1
    <3>1. Holds("fingerprinter")' = Len(queue'["fingerprinter"]) + Len(batch["fingerprinter"])
                                       + Len(held["fingerprinter"])
      BY <1>1 DEF Chunk, Holds, HeadTaken
    <3>2. Holds("fingerprinter") = Len(queue["fingerprinter"]) + Len(batch["fingerprinter"])
                                     + Len(held["fingerprinter"])
      BY HoldsMiddle
    <3>3. Holds("fingerprinter")' = (Len(queue["fingerprinter"]) + 1) + Len(batch["fingerprinter"])
                                       + Len(held["fingerprinter"])
      BY <2>2, <3>1
    <3>4. (Len(queue["fingerprinter"]) + 1) + Len(batch["fingerprinter"])
             + Len(held["fingerprinter"])
          = (Len(queue["fingerprinter"]) + Len(batch["fingerprinter"])
               + Len(held["fingerprinter"])) + 1
      BY <2>3, Sums
    <3>5. QED BY <3>2, <3>3, <3>4
  <2>5. \A s \in Stage \ {"fingerprinter"} : Holds(s)' = Holds(s)
    BY <1>1, <2>2 DEF Chunk, Holds, HeadTaken, senderVars
  <2>6. made' = made + 1 /\ made \in Nat
    BY <1>1 DEF Chunk, Types
  <2>7. QED BY <1>0, <2>4, <2>5, <2>6, Total, DownFacts DEF Kept
<1>2. CASE ChunkingOver
  <2>1. \A s \in Stage : Holds(s)' = Holds(s)
    BY <1>2 DEF ChunkingOver, Holds, HeadTaken, senderVars
  <2>2. made' = made
    BY <1>2 DEF ChunkingOver
  <2>3. QED BY <1>0, <2>1, <2>2, Total, DownFacts DEF Kept
<1>3. QED
  BY <1>1, <1>2 DEF ChunkerStep

LEMMA KeptMiddle ==
  ASSUME Types, Places, Types', Kept, NEW t \in Middle, MiddleStep(t)
  PROVE  Kept'
<1> USE DEF senderVars
<1>1. /\ t \in Stage /\ t \in Thread \ {"sender"} /\ Down[t] \in Stage /\ Down[t] # t
      /\ t # "sender"
  BY DownFacts
<1>2. /\ batch[t] \in Seq(Chunks) /\ held[t] \in Seq(Parts) /\ queue[t] \in Seq(Parts)
      /\ Len(batch[t]) \in Nat /\ Len(held[t]) \in Nat /\ Len(queue[t]) \in Nat
      /\ Holds(t) \in Nat /\ Holds(Down[t]) \in Nat
  BY <1>1, EmptyLen, Total DEF Types
<1>3. (held[t] = << >> => Len(held[t]) = 0) /\ Len(<< >>) = 0
  BY <1>2, EmptySeq
<1>4. Holds(t) = Len(queue[t]) + Len(batch[t]) + Len(held[t])
  BY <1>1, HoldsMiddle
<1>5. Holds(t)' = Len(queue'[t]) + Len(batch'[t]) + Len(held'[t])
  BY <1>1 DEF Holds
<1>6. ASSUME UNCHANGED made, Holds(t)' = Holds(t), \A s \in Stage \ {t} : Holds(s)' = Holds(s)
      PROVE  Kept'
  BY <1>1, <1>2, <1>6, MoveKeeps
<1>7. CASE TakeRecipeHead(t)
  <2>1. pc[t] = "loop" /\ held[t] = << >> /\ batch' = batch
    BY <1>7 DEF TakeRecipeHead, Places, Hands
  <2>2. held'[t] = <<RecipeHead>> /\ Len(<<RecipeHead>>) = 1
        /\ \A s \in Middle \ {t} : held'[s] = held[s]
    BY <1>7 DEF TakeRecipeHead, Types
  <2>3. Len(queue'[t]) = Len(queue[t]) - 1 /\ \A s \in Stage \ {t} : queue'[s] = queue[s]
    BY <1>1, <1>7, TakeLen DEF TakeRecipeHead
  <2>4. Holds(t)' = Holds(t)
    <3>1. Holds(t)' = (Len(queue[t]) - 1) + Len(batch[t]) + 1
      BY <1>5, <2>1, <2>2, <2>3
    <3>2. Holds(t) = Len(queue[t]) + Len(batch[t]) + 0
      BY <1>3, <1>4, <2>1
    <3>3. QED BY <1>2, <3>1, <3>2, Sums
  <2>5. \A s \in Stage \ {t} : Holds(s)' = Holds(s)
    BY <1>7, <2>2, <2>3, DownFacts DEF TakeRecipeHead, Holds, HeadTaken
  <2>6. QED BY <1>6, <1>7, <2>4, <2>5 DEF TakeRecipeHead
<1>8. CASE TakeChunk(t)
  <2>1. Head(queue[t]) \in Chunks
    BY <1>1, <1>8, TakeTypes DEF TakeChunk, Parts
  <2>2. batch'[t] = Append(batch[t], Head(queue[t])) /\ held' = held
        /\ \A s \in Middle \ {t} : batch'[s] = batch[s]
    BY <1>8 DEF TakeChunk, Types
  <2>3. Len(batch'[t]) = Len(batch[t]) + 1
    BY <1>2, <2>1, <2>2, Appended
  <2>4. Len(queue'[t]) = Len(queue[t]) - 1 /\ \A s \in Stage \ {t} : queue'[s] = queue[s]
    BY <1>1, <1>8, TakeLen DEF TakeChunk
  <2>5. Holds(t)' = Holds(t)
    <3>1. Holds(t)' = (Len(queue[t]) - 1) + (Len(batch[t]) + 1) + Len(held[t])
      BY <1>5, <2>2, <2>3, <2>4
    <3>2. QED BY <1>2, <1>4, <3>1, Sums
  <2>6. \A s \in Stage \ {t} : Holds(s)' = Holds(s)
    BY <1>8, <2>2, <2>4, DownFacts DEF TakeChunk, Holds, HeadTaken
  <2>7. QED BY <1>6, <1>8, <2>5, <2>6 DEF TakeChunk
<1>9. CASE SeeDone(t) \/ NextRound(t) \/ StageOver(t)
  <2>1. UNCHANGED <<made, queue, batch, held, sent, fileRecipe>>
    BY <1>9 DEF SeeDone, NextRound, StageOver
  <2>2. \A s \in Stage : Holds(s)' = Holds(s)
    BY <2>1 DEF Holds, HeadTaken
  <2>3. QED BY <1>1, <1>6, <2>1, <2>2
<1>10. CASE Work(t)
  <2>1. held[t] = << >> /\ held'[t] = batch[t] /\ batch'[t] = << >> /\ queue' = queue
        /\ \A s \in Middle \ {t} : batch'[s] = batch[s] /\ held'[s] = held[s]
    BY <1>10 DEF Work, Types, Places, Hands
  <2>2. Holds(t)' = Holds(t)
    <3>1. Holds(t)' = Len(queue[t]) + 0 + Len(batch[t])
      BY <1>3, <1>5, <2>1
    <3>2. Holds(t) = Len(queue[t]) + Len(batch[t]) + 0
      BY <1>3, <1>4, <2>1
    <3>3. QED BY <1>2, <3>1, <3>2, Sums
  <2>3. \A s \in Stage \ {t} : Holds(s)' = Holds(s)
    BY <1>10, <2>1, DownFacts DEF Work, Holds, HeadTaken
  <2>4. QED BY <1>6, <1>10, <2>2, <2>3 DEF Work
<1>11. CASE PassOn(t)
  <2>1. Head(held[t]) \in Parts /\ Len(Tail(held[t])) = Len(held[t]) - 1
    BY <1>2, <1>11, HeadTail DEF PassOn
  <2>2. /\ Len(queue'[Down[t]]) = Len(queue[Down[t]]) + 1 /\ Len(queue[Down[t]]) \in Nat
        /\ \A s \in Stage \ {Down[t]} : queue'[s] = queue[s]
    BY <1>1, <1>11, <2>1, PushLen DEF PassOn
  <2>3. held'[t] = Tail(held[t]) /\ batch' = batch /\ \A s \in Middle \ {t} : held'[s] = held[s]
    BY <1>11 DEF PassOn, Types
  <2>4. Holds(t)' = Holds(t) - 1
    <3>1. Holds(t)' = Len(queue[t]) + Len(batch[t]) + (Len(held[t]) - 1)
      BY <1>1, <1>5, <2>1, <2>2, <2>3
    <3>2. QED BY <1>2, <1>4, <3>1, Sums
  <2>5. Holds(Down[t])' = Holds(Down[t]) + 1
    <3>1. CASE Down[t] = "sender"
      <4>1. Len(sent) \in Nat
        BY EmptyLen DEF Types
      <4>2. HeadTaken \in Nat
        BY DEF HeadTaken
      <4>3. Holds("sender")' = Len(queue'["sender"]) + Len(sent) + HeadTaken
        BY <1>11 DEF PassOn, Holds, HeadTaken
      <4>4. QED BY <2>2, <3>1, <4>1, <4>2, <4>3, HoldsSender
    <3>2. CASE Down[t] # "sender"
      <4>1. Len(batch[Down[t]]) \in Nat /\ Len(held[Down[t]]) \in Nat
        BY <1>1, <3>2, EmptyLen, DownFacts DEF Types
      <4>2. Down[t] \in Middle
        BY <1>1, <3>2, DownFacts
      <4>3. Holds(Down[t])' = Len(queue'[Down[t]]) + Len(batch'[Down[t]]) + Len(held'[Down[t]])
        BY <3>2 DEF Holds
      <4>4. Holds(Down[t])' = (Len(queue[Down[t]]) + 1) + Len(batch[Down[t]]) + Len(held[Down[t]])
        BY <1>1, <2>2, <2>3, <4>2, <4>3
      <4>5. Holds(Down[t]) = Len(queue[Down[t]]) + Len(batch[Down[t]]) + Len(held[Down[t]])
        BY <3>2, HoldsMiddle
      <4>6. (Len(queue[Down[t]]) + 1) + Len(batch[Down[t]]) + Len(held[Down[t]])
            = (Len(queue[Down[t]]) + Len(batch[Down[t]]) + Len(held[Down[t]])) + 1
        BY <2>2, <4>1, Sums
      <4>7. QED BY <4>4, <4>5, <4>6
    <3>3. QED BY <3>1, <3>2
  <2>6. \A s \in Stage \ {t, Down[t]} : Holds(s)' = Holds(s)
    <3>1. ASSUME NEW s \in Middle \ {t, Down[t]} PROVE Holds(s)' = Holds(s)
      <4>1. s # "sender" /\ s \in Stage \ {Down[t]}
        BY DownFacts
      <4>2. queue'[s] = queue[s] /\ batch'[s] = batch[s] /\ held'[s] = held[s]
        BY <2>2, <2>3, <4>1
      <4>3. QED BY <4>1, <4>2 DEF Holds
    <3>2. "sender" # Down[t] => Holds("sender")' = Holds("sender")
      BY <1>11, <2>2, DownFacts DEF PassOn, Holds, HeadTaken
    <3>3. QED BY <3>1, <3>2, DownFacts
  <2>7. QED BY <1>1, <1>11, <2>4, <2>5, <2>6, MoveKeeps DEF PassOn
<1>12. QED
  BY <1>7, <1>8, <1>9, <1>10, <1>11 DEF MiddleStep

-----------------------------------------------------------------------------
(* Spans *)

LEMMA SpanEmpty == \A whole : \A n \in Nat : Span(whole, << >>, n, n)
<1> SUFFICES ASSUME NEW whole, NEW n \in Nat PROVE Span(whole, << >>, n, n)
  OBVIOUS
<1> DEFINE f == [i \in 0 .. 0 |-> n]
<1>1. Len(<< >>) = 0 /\ f \in [0 .. 0 -> Nat] /\ f[0] = n
  OBVIOUS
<1> HIDE DEF f
<1>2. \A i, j \in 0 .. 0 : i <= j => f[i] <= f[j] /\ f[j] <= f[i] + (j - i)
  BY <1>1
<1>3. QED
  BY <1>1, <1>2 DEF Span

LEMMA SpanOfNone == \A whole, lo, hi : Span(whole, << >>, lo, hi) => lo = hi
BY DEF Span

LEMMA SpanLen ==
  ASSUME NEW whole, NEW s \in Seq(Parts), NEW lo \in Nat, NEW hi \in Nat, Span(whole, s, lo, hi)
  PROVE  lo <= hi /\ hi <= lo + Len(s) /\ Len(s) \in Nat
<1>1. PICK f \in [0 .. Len(s) -> Nat] :
        /\ f[0] = lo /\ f[Len(s)] = hi
        /\ \A i, j \in 0 .. Len(s) : i <= j => f[i] <= f[j] /\ f[j] <= f[i] + (j - i)
  BY DEF Span
<1>2. Len(s) \in Nat
  OBVIOUS
<1>3. QED
  BY <1>1, <1>2

LEMMA SpanTail ==
  ASSUME NEW whole, NEW s \in Seq(Parts), s # << >>, NEW lo \in Nat, NEW hi \in Nat,
         Span(whole, s, lo, hi)
  PROVE  /\ Head(s) = RecipeHead => Span(whole, Tail(s), lo, hi)
         /\ Head(s) # RecipeHead =>
                lo < hi /\ Head(s) = whole[lo + 1] /\ Span(whole, Tail(s), lo + 1, hi)
<1>1. PICK f \in [0 .. Len(s) -> Nat] :
        /\ f[0] = lo /\ f[Len(s)] = hi
        /\ \A i \in 1 .. Len(s) :
              IF s[i] = RecipeHead THEN f[i] = f[i - 1]
              ELSE f[i] = f[i - 1] + 1 /\ s[i] = whole[f[i]]
        /\ \A i, j \in 0 .. Len(s) : i <= j => f[i] <= f[j] /\ f[j] <= f[i] + (j - i)
  BY DEF Span
<1>2. /\ Head(s) = s[1] /\ Len(s) \in Nat \ {0} /\ Len(Tail(s)) = Len(s) - 1
      /\ \A i \in 1 .. Len(s) - 1 : Tail(s)[i] = s[i + 1]
  BY HeadTail
<1>3. /\ Head(s) = RecipeHead => f[1] = lo
      /\ Head(s) # RecipeHead => f[1] = lo + 1 /\ Head(s) = whole[lo + 1]
  BY <1>1, <1>2
<1>4. f[1] <= hi
  BY <1>1, <1>2
<1>5. Span(whole, Tail(s), f[1], hi)
  <2> DEFINE g == [i \in 0 .. Len(s) - 1 |-> f[i + 1]]
  <2>1. \A i \in 0 .. Len(s) - 1 : i + 1 \in 0 .. Len(s) /\ g[i] = f[i + 1] /\ g[i] \in Nat
    BY <1>2
  <2>2. g \in [0 .. Len(Tail(s)) -> Nat]
    BY <1>2, <2>1
  <2> HIDE DEF g
  <2>3. g[0] = f[1] /\ g[Len(Tail(s))] = hi
    BY <1>1, <1>2, <2>1
  <2>4. ASSUME NEW i \in 1 .. Len(Tail(s))
        PROVE  IF Tail(s)[i] = RecipeHead THEN g[i] = g[i - 1]
               ELSE g[i] = g[i - 1] + 1 /\ Tail(s)[i] = whole[g[i]]
    <3>1. i \in 1 .. Len(s) - 1 /\ i + 1 \in 1 .. Len(s) /\ i - 1 \in 0 .. Len(s) - 1
          /\ (i + 1) - 1 = i /\ (i - 1) + 1 = i /\ i \in 0 .. Len(s) - 1
      BY <1>2
    <3>2. Tail(s)[i] = s[i + 1] /\ g[i] = f[i + 1] /\ g[i - 1] = f[i]
      BY <1>2, <2>1, <3>1
    <3>3. IF s[i + 1] = RecipeHead THEN f[i + 1] = f[(i + 1) - 1]
          ELSE f[i + 1] = f[(i + 1) - 1] + 1 /\ s[i + 1] = whole[f[i + 1]]
      BY <1>1, <3>1
    <3>4. QED BY <3>1, <3>2, <3>3
  <2>5. ASSUME NEW i \in 0 .. Len(Tail(s)), NEW j \in 0 .. Len(Tail(s)), i <= j
        PROVE  g[i] <= g[j] /\ g[j] <= g[i] + (j - i)
    <3>1. i + 1 \in 0 .. Len(s) /\ j + 1 \in 0 .. Len(s) /\ i + 1 <= j + 1
          /\ (j + 1) - (i + 1) = j - i
      BY <1>2, <2>5
    <3>2. f[i + 1] <= f[j + 1] /\ f[j + 1] <= f[i + 1] + ((j + 1) - (i + 1))
      BY <1>1, <3>1
    <3>3. g[i] = f[i + 1] /\ g[j] = f[j + 1]
      BY <1>2, <2>1
    <3>4. QED BY <3>1, <3>2, <3>3
  <2>6. QED BY <2>2, <2>3, <2>4, <2>5 DEF Span
<1>6. QED
  BY <1>1, <1>2, <1>3, <1>4, <1>5

LEMMA SpanAppend ==
  ASSUME NEW whole, NEW s \in Seq(Parts), NEW e \in Parts, NEW lo \in Nat, NEW hi \in Nat,
         NEW to \in Nat, Span(whole, s, lo, hi),
         IF e = RecipeHead THEN to = hi ELSE to = hi + 1 /\ e = whole[hi + 1]
  PROVE  Span(whole, Append(s, e), lo, to)
<1>1. PICK f \in [0 .. Len(s) -> Nat] :
        /\ f[0] = lo /\ f[Len(s)] = hi
        /\ \A i \in 1 .. Len(s) :
              IF s[i] = RecipeHead THEN f[i] = f[i - 1]
              ELSE f[i] = f[i - 1] + 1 /\ s[i] = whole[f[i]]
        /\ \A i, j \in 0 .. Len(s) : i <= j => f[i] <= f[j] /\ f[j] <= f[i] + (j - i)
  BY DEF Span
<1> DEFINE n == Len(s)
           z == Append(s, e)
           g == [i \in 0 .. n + 1 |-> IF i = n + 1 THEN to ELSE f[i]]
<1>2. n \in Nat /\ Len(z) = n + 1 /\ z[n + 1] = e /\ \A i \in 1 .. n : z[i] = s[i]
  BY Appended
<1>3. \A i \in 0 .. n : g[i] = f[i] /\ f[i] \in Nat
  BY <1>2
<1>4. g[n + 1] = to
  BY <1>2
<1>5. g \in [0 .. Len(z) -> Nat]
  BY <1>2, <1>3
<1> HIDE DEF g, z
<1>6. g[0] = lo /\ g[Len(z)] = to /\ g[n] = hi
  BY <1>1, <1>2, <1>3, <1>4
<1>7. ASSUME NEW i \in 1 .. Len(z)
      PROVE  IF z[i] = RecipeHead THEN g[i] = g[i - 1]
             ELSE g[i] = g[i - 1] + 1 /\ z[i] = whole[g[i]]
  <2>1. CASE i = n + 1
    <3>1. i - 1 = n
      BY <1>2, <2>1
    <3>2. QED BY <1>2, <1>4, <1>6, <2>1, <3>1
  <2>2. CASE i # n + 1
    <3>1. i \in 1 .. n /\ i - 1 \in 0 .. n /\ i \in 0 .. n
      BY <1>2, <2>2
    <3>2. QED BY <1>1, <1>2, <1>3, <3>1
  <2>3. QED BY <2>1, <2>2
<1>8. ASSUME NEW i \in 0 .. Len(z), NEW j \in 0 .. Len(z), i <= j
      PROVE  g[i] <= g[j] /\ g[j] <= g[i] + (j - i)
  <2>1. CASE j = n + 1 /\ i # n + 1
    <3>1. i \in 0 .. n /\ n \in 0 .. n /\ i <= n
      BY <1>2, <2>1
    <3>2. f[i] <= hi /\ hi <= f[i] + (n - i) /\ f[i] \in Nat
      BY <1>1, <1>3, <3>1
    <3>3. to = hi \/ to = hi + 1
      OBVIOUS
    <3>4. g[i] = f[i] /\ g[j] = to
      BY <1>3, <1>4, <2>1, <3>1
    <3>5. QED BY <1>2, <2>1, <3>1, <3>2, <3>3, <3>4
  <2>2. CASE j = n + 1 /\ i = n + 1
    BY <1>4, <2>2, <1>2
  <2>3. CASE j # n + 1
    <3>1. i \in 0 .. n /\ j \in 0 .. n
      BY <1>2, <1>8, <2>3
    <3>2. QED BY <1>1, <1>3, <1>8, <3>1
  <2>4. QED BY <2>1, <2>2, <2>3
<1>9. Span(whole, z, lo, to)
  BY <1>5, <1>6, <1>7, <1>8 DEF Span
<1>10. QED
  BY <1>9 DEF z

\* the head alone
LEMMA SpanHeadAlone == \A whole : \A n \in Nat : Span(whole, <<RecipeHead>>, n, n)
<1> SUFFICES ASSUME NEW whole, NEW n \in Nat PROVE Span(whole, <<RecipeHead>>, n, n)
  OBVIOUS
<1>1. << >> \in Seq(Parts) /\ RecipeHead \in Parts /\ Append(<< >>, RecipeHead) = <<RecipeHead>>
  BY DEF Parts
<1>2. Span(whole, Append(<< >>, RecipeHead), n, n)
  BY <1>1, SpanEmpty, SpanAppend
<1>3. QED
  BY <1>1, <1>2
-----------------------------------------------------------------------------
(* The chunks on their way, step by step *)

LEMMA UpFacts ==
  /\ Up["fingerprinter"] = "chunker" /\ \A r \in Stage : Up[r] \in Thread
  /\ \A r \in Stage \ {"fingerprinter"} : Up[r] # "chunker"
  /\ \A t \in Middle : Up[Down[t]] = t /\ \A r \in Stage \ {Down[t]} : Up[r] # t
BY DownFacts DEF Up

LEMMA FlowTypes ==
  ASSUME Types
  PROVE  /\ Len(file) \in Nat /\ file \in Seq(Chunks)
         /\ \A t \in Stage : queue[t] \in Seq(Parts)
         /\ \A t \in Middle : held[t] \in Seq(Parts) /\ batch[t] \in Seq(Parts) /\ t \in Stage
<1>1. Len(file) \in Nat /\ file \in Seq(Chunks)
  BY ItemFacts DEF Types
<1>2. \A t \in Middle : batch[t] \in Seq(Chunks)
  BY DEF Types
<1>3. \A s \in Seq(Chunks) : s \in Seq(Parts)
  BY DEF Parts
<1>4. QED
  BY <1>1, <1>2, <1>3, DownFacts DEF Types

LEMMA FlowInit == Init => Flow
<1> SUFFICES ASSUME Init PROVE Flow
  OBVIOUS
<1> DEFINE cut  == [t \in Thread |-> 0]
           mid  == [t \in Middle |-> 0]
           took == [t \in Stage |-> 0]
<1>1. Len(file) \in Nat /\ 0 \in 0 .. Len(file) /\ made = 0 /\ sent = << >>
  BY ItemFacts DEF Init
<1>2. /\ cut \in [Thread -> 0 .. Len(file)] /\ mid \in [Middle -> 0 .. Len(file)]
      /\ took \in [Stage -> 0 .. Len(file)]
  BY <1>1
<1>3. \A t \in Thread : cut[t] = 0
  OBVIOUS
<1>4. (\A t \in Middle : mid[t] = 0) /\ \A t \in Stage : took[t] = 0
  OBVIOUS
<1> HIDE DEF cut, mid, took
<1>5. Span(file, << >>, 0, 0)
  BY SpanEmpty
<1>6. \A r \in Stage : Span(file, queue[r], took[r], cut[Up[r]])
  BY <1>3, <1>4, <1>5, UpFacts DEF Init
<1>7. \A t \in Middle : Span(file, held[t], cut[t], mid[t]) /\ Span(file, batch[t], mid[t], took[t])
  BY <1>3, <1>4, <1>5, DownFacts DEF Init
<1>8. cut["chunker"] = IF made <= Len(file) THEN made ELSE Len(file)
  BY <1>1, <1>3, DownFacts
<1>9. took["sender"] = Len(sent) /\ sent = SubSeq(file, 1, Len(sent))
  BY <1>1, <1>4, DownFacts
<1>10. QED
  BY <1>2, <1>6, <1>7, <1>8, <1>9 DEF Flow, Positions

LEMMA FlowNext ==
  ASSUME UNCHANGED file,
         NEW cut \in [Thread -> 0 .. Len(file)], NEW mid \in [Middle -> 0 .. Len(file)],
         NEW took \in [Stage -> 0 .. Len(file)],
         cut["chunker"] = IF made' <= Len(file) THEN made' ELSE Len(file),
         took["sender"] = Len(sent') /\ sent' = SubSeq(file, 1, Len(sent')),
         \A r \in Stage : Span(file, queue'[r], took[r], cut[Up[r]]),
         \A t \in Middle : Span(file, held'[t], cut[t], mid[t]) /\ Span(file, batch'[t], mid[t], took[t])
  PROVE  Flow'
<1>1. took["sender"] = Len(sent') /\ sent' = SubSeq(file', 1, Len(sent'))
  OBVIOUS
<1>2. (\A r \in Stage : Span(file, queue[r], took[r], cut[Up[r]]))'
  OBVIOUS
<1>3. (\A t \in Middle : /\ Span(file, held[t], cut[t], mid[t])
                        /\ Span(file, batch[t], mid[t], took[t]))'
  OBVIOUS
<1>4. Positions(cut, mid, took)'
  BY <1>1, <1>2, <1>3 DEF Positions
<1>5. QED
  BY <1>4 DEF Flow

LEMMA FlowStays == Flow /\ UNCHANGED <<file, made, queue, held, batch, sent>> => Flow'
<1> SUFFICES ASSUME Flow, UNCHANGED <<file, made, queue, held, batch, sent>> PROVE Flow'
  OBVIOUS
<1>1. PICK cut \in [Thread -> 0 .. Len(file)], mid \in [Middle -> 0 .. Len(file)],
           took \in [Stage -> 0 .. Len(file)] : Positions(cut, mid, took)
  BY DEF Flow
<1>2. /\ cut["chunker"] = IF made' <= Len(file) THEN made' ELSE Len(file)
      /\ took["sender"] = Len(sent') /\ sent' = SubSeq(file, 1, Len(sent'))
      /\ \A r \in Stage : Span(file, queue'[r], took[r], cut[Up[r]])
      /\ \A t \in Middle : /\ Span(file, held'[t], cut[t], mid[t])
                          /\ Span(file, batch'[t], mid[t], took[t])
  BY <1>1 DEF Positions
<1>3. QED
  BY <1>2, FlowNext

LEMMA FlowChunk == Types /\ Flow /\ Chunk /\ UNCHANGED file => Flow'
<1> SUFFICES ASSUME Types, Flow, Chunk, UNCHANGED file PROVE Flow'
  OBVIOUS
<1>1. PICK cut \in [Thread -> 0 .. Len(file)], mid \in [Middle -> 0 .. Len(file)],
           took \in [Stage -> 0 .. Len(file)] : Positions(cut, mid, took)
  BY DEF Flow
<1>2. Len(file) \in Nat /\ Len(Items) = Len(file) + 1 /\ made \in Nat /\ made < Len(Items)
  BY ItemFacts DEF Types, Chunk
<1> DEFINE to == IF made + 1 <= Len(file) THEN made + 1 ELSE Len(file)
           new == [cut EXCEPT !["chunker"] = to]
<1>3. to \in 0 .. Len(file) /\ to \in Nat
  BY <1>2
<1>4. /\ new \in [Thread -> 0 .. Len(file)] /\ new["chunker"] = to
      /\ \A t \in Thread \ {"chunker"} : new[t] = cut[t]
  BY <1>3, DownFacts
<1>5. /\ IF Items[made + 1] = RecipeHead THEN to = cut["chunker"]
         ELSE to = cut["chunker"] + 1 /\ Items[made + 1] = file[cut["chunker"] + 1]
      /\ Items[made + 1] \in Parts
  <2>1. CASE made < Len(file)
    <3>1. made + 1 \in 1 .. Len(file)
      BY <1>2, <2>1
    <3>2. Items[made + 1] = file[made + 1] /\ Items[made + 1] # RecipeHead
      BY <3>1, ItemFacts DEF Types
    <3>3. cut["chunker"] = made /\ to = made + 1
      BY <1>1, <1>2, <2>1 DEF Positions
    <3>4. Items[made + 1] \in Parts
      BY <1>2, ItemFacts DEF Types
    <3>5. QED BY <3>2, <3>3, <3>4
  <2>2. CASE made = Len(file)
    <3>1. Items[made + 1] = RecipeHead
      BY <2>2, ItemFacts DEF Types
    <3>2. cut["chunker"] = made /\ to = made
      BY <1>1, <1>2, <2>2 DEF Positions
    <3>3. QED BY <3>1, <3>2 DEF Parts
  <2>3. QED BY <1>2, <2>1, <2>2
<1>6. made' = made + 1 /\ queue' = [queue EXCEPT !["fingerprinter"] = Append(@, Items[made + 1])]
      /\ UNCHANGED <<held, batch, sent>>
  BY DownFacts DEF Chunk, Push, senderVars
<1> HIDE DEF to, new
<1>7. Span(file, queue'["fingerprinter"], took["fingerprinter"], to)
  <2>1. Span(file, queue["fingerprinter"], took["fingerprinter"], cut["chunker"])
    BY <1>1, UpFacts, DownFacts DEF Positions
  <2>2. took["fingerprinter"] \in Nat /\ cut["chunker"] \in Nat
    BY DownFacts, <1>2
  <2>3. queue["fingerprinter"] \in Seq(Parts)
    BY DownFacts, FlowTypes
  <2>4. Span(file, Append(queue["fingerprinter"], Items[made + 1]), took["fingerprinter"], to)
    BY <1>3, <1>5, <2>1, <2>2, <2>3, SpanAppend
  <2>5. QED BY <1>6, <2>4, DownFacts DEF Types
<1>8. \A r \in Stage : Span(file, queue'[r], took[r], new[Up[r]])
  <2>1. ASSUME NEW r \in Stage \ {"fingerprinter"} PROVE Span(file, queue'[r], took[r], new[Up[r]])
    <3>1. queue'[r] = queue[r] /\ new[Up[r]] = cut[Up[r]]
      BY <1>4, <1>6, UpFacts DEF Types
    <3>2. QED BY <1>1, <3>1 DEF Positions
  <2>2. QED BY <1>4, <1>7, <2>1, UpFacts
<1>9. \A t \in Middle : Span(file, held'[t], new[t], mid[t]) /\ Span(file, batch'[t], mid[t], took[t])
  BY <1>1, <1>4, <1>6, DownFacts DEF Positions
<1>10. new["chunker"] = IF made' <= Len(file) THEN made' ELSE Len(file)
  BY <1>4, <1>6 DEF to
<1>11. took["sender"] = Len(sent') /\ sent' = SubSeq(file, 1, Len(sent'))
  BY <1>1, <1>6 DEF Positions
<1>12. QED
  BY <1>4, <1>8, <1>9, <1>10, <1>11, FlowNext

LEMMA FlowMiddle ==
  ASSUME Types, Places, Flow, NEW t \in Middle, MiddleStep(t), UNCHANGED file
  PROVE  Flow'
<1>1. PICK cut \in [Thread -> 0 .. Len(file)], mid \in [Middle -> 0 .. Len(file)],
           took \in [Stage -> 0 .. Len(file)] : Positions(cut, mid, took)
  BY DEF Flow
<1>2. /\ Len(file) \in Nat /\ queue[t] \in Seq(Parts) /\ held[t] \in Seq(Parts)
      /\ batch[t] \in Seq(Parts) /\ t \in Stage /\ t \in Thread /\ Up[t] \in Thread
      /\ Down[t] \in Stage /\ Down[t] # t /\ t # "chunker" /\ t # "sender"
      /\ queue[Down[t]] \in Seq(Parts)
  BY FlowTypes, DownFacts, UpFacts
<1>3. /\ cut[t] \in 0 .. Len(file) /\ mid[t] \in 0 .. Len(file) /\ took[t] \in 0 .. Len(file)
      /\ cut[Up[t]] \in 0 .. Len(file) /\ took[Down[t]] \in 0 .. Len(file)
  BY <1>2
<1>4. /\ cut[t] \in Nat /\ mid[t] \in Nat /\ took[t] \in Nat /\ cut[Up[t]] \in Nat
      /\ took[Down[t]] \in Nat
  BY <1>2, <1>3
<1>5. /\ Span(file, queue[t], took[t], cut[Up[t]]) /\ Span(file, held[t], cut[t], mid[t])
      /\ Span(file, batch[t], mid[t], took[t])
  BY <1>1, <1>2 DEF Positions
<1>6. held[t] = << >> => cut[t] = mid[t]
  BY <1>5, SpanOfNone
<1>7. UNCHANGED <<made, sent>>
  BY DEF MiddleStep, TakeRecipeHead, TakeChunk, SeeDone, Work, PassOn, NextRound, StageOver,
         senderVars
<1>8. /\ cut["chunker"] = IF made' <= Len(file) THEN made' ELSE Len(file)
      /\ took["sender"] = Len(sent') /\ sent' = SubSeq(file, 1, Len(sent'))
  BY <1>1, <1>7 DEF Positions
<1>9. CASE TakeRecipeHead(t)
  <2>1. held[t] = << >> /\ batch' = batch
    BY <1>9 DEF TakeRecipeHead, Places, Hands
  <2>2. Span(file, <<RecipeHead>>, cut[t], mid[t])
    BY <1>4, <1>6, <2>1, SpanHeadAlone
  <2>3. Span(file, Tail(queue[t]), took[t], cut[Up[t]])
    BY <1>2, <1>4, <1>5, <1>9, SpanTail DEF TakeRecipeHead
  <2>4. \A r \in Stage : queue'[r] = IF r = t THEN Tail(queue[t]) ELSE queue[r]
    BY <1>9 DEF TakeRecipeHead, Types
  <2>5. \A s \in Middle : held'[s] = IF s = t THEN <<RecipeHead>> ELSE held[s]
    BY <1>9 DEF TakeRecipeHead, Types
  <2>6. \A r \in Stage : Span(file, queue'[r], took[r], cut[Up[r]])
    BY <1>1, <2>3, <2>4 DEF Positions
  <2>7. \A s \in Middle : Span(file, held'[s], cut[s], mid[s]) /\ Span(file, batch'[s], mid[s], took[s])
    BY <1>1, <2>1, <2>2, <2>5 DEF Positions
  <2>8. QED BY <1>8, <2>6, <2>7, FlowNext
<1>10. CASE TakeChunk(t)
  <2>1. queue[t] # << >> /\ Head(queue[t]) # RecipeHead /\ held' = held
    BY <1>10 DEF TakeChunk
  <2>2. took[t] < cut[Up[t]] /\ Head(queue[t]) = file[took[t] + 1]
        /\ Span(file, Tail(queue[t]), took[t] + 1, cut[Up[t]])
    BY <1>2, <1>4, <1>5, <2>1, SpanTail
  <2>3. took[t] + 1 \in 0 .. Len(file) /\ took[t] + 1 \in Nat
    BY <1>2, <1>3, <2>2
  <2>4. Head(queue[t]) \in Parts
    BY <1>2, <2>1, HeadTail
  <2>5. Span(file, Append(batch[t], Head(queue[t])), mid[t], took[t] + 1)
    BY <1>2, <1>4, <1>5, <2>1, <2>2, <2>3, <2>4, SpanAppend
  <2>6. PICK new \in [Stage -> 0 .. Len(file)] :
           new[t] = took[t] + 1 /\ \A r \in Stage \ {t} : new[r] = took[r]
    <3>1. [took EXCEPT ![t] = took[t] + 1] \in [Stage -> 0 .. Len(file)]
      BY <2>3
    <3>2. QED BY <1>2, <3>1
  <2>7. \A r \in Stage : queue'[r] = IF r = t THEN Tail(queue[t]) ELSE queue[r]
    BY <1>10 DEF TakeChunk, Types
  <2>8. \A s \in Middle : batch'[s] = IF s = t THEN Append(batch[t], Head(queue[t])) ELSE batch[s]
    BY <1>10 DEF TakeChunk, Types
  <2>9. \A r \in Stage : Span(file, queue'[r], new[r], cut[Up[r]])
    BY <1>1, <2>2, <2>6, <2>7 DEF Positions
  <2>10. ASSUME NEW s \in Middle
         PROVE  Span(file, held'[s], cut[s], mid[s]) /\ Span(file, batch'[s], mid[s], new[s])
    <3>1. s \in Stage
      BY DownFacts
    <3>2. QED BY <1>1, <2>1, <2>5, <2>6, <2>8, <3>1 DEF Positions
  <2>11. new["sender"] = Len(sent') /\ sent' = SubSeq(file, 1, Len(sent'))
    BY <1>2, <1>8, <2>6, DownFacts
  <2>12. QED BY <1>8, <2>9, <2>10, <2>11, FlowNext
<1>11. CASE SeeDone(t) \/ NextRound(t) \/ StageOver(t)
  <2>1. UNCHANGED <<queue, batch, held>>
    BY <1>11 DEF SeeDone, NextRound, StageOver
  <2>2. QED BY <1>7, <2>1, FlowStays
<1>12. CASE Work(t)
  <2>1. held[t] = << >> /\ queue' = queue
    BY <1>12 DEF Work, Places, Hands
  <2>2. PICK new \in [Middle -> 0 .. Len(file)] :
           new[t] = took[t] /\ \A s \in Middle \ {t} : new[s] = mid[s]
    <3>1. [mid EXCEPT ![t] = took[t]] \in [Middle -> 0 .. Len(file)]
      BY <1>3
    <3>2. QED BY <1>2, <3>1
  <2>3. Span(file, batch[t], cut[t], new[t]) /\ Span(file, << >>, new[t], took[t])
    BY <1>4, <1>5, <1>6, <2>1, <2>2, SpanEmpty
  <2>4. \A s \in Middle : /\ held'[s] = IF s = t THEN batch[t] ELSE held[s]
                          /\ batch'[s] = IF s = t THEN << >> ELSE batch[s]
    BY <1>12 DEF Work, Types
  <2>5. \A s \in Middle : Span(file, held'[s], cut[s], new[s]) /\ Span(file, batch'[s], new[s], took[s])
    BY <1>1, <2>2, <2>3, <2>4 DEF Positions
  <2>6. \A r \in Stage : Span(file, queue'[r], took[r], cut[Up[r]])
    BY <1>1, <2>1 DEF Positions
  <2>7. QED BY <1>8, <2>5, <2>6, FlowNext
<1>13. CASE PassOn(t)
  <2>1. held[t] # << >> /\ batch' = batch
    BY <1>13 DEF PassOn
  <2>2. PICK to \in 0 .. Len(file) :
           /\ IF Head(held[t]) = RecipeHead THEN to = cut[t]
              ELSE to = cut[t] + 1 /\ Head(held[t]) = file[cut[t] + 1]
           /\ Span(file, Tail(held[t]), to, mid[t])
    <3>1. CASE Head(held[t]) = RecipeHead
      BY <1>2, <1>3, <1>4, <1>5, <2>1, <3>1, SpanTail
    <3>2. CASE Head(held[t]) # RecipeHead
      <4>1. cut[t] < mid[t] /\ Head(held[t]) = file[cut[t] + 1]
            /\ Span(file, Tail(held[t]), cut[t] + 1, mid[t])
        BY <1>2, <1>4, <1>5, <2>1, <3>2, SpanTail
      <4>2. cut[t] + 1 \in 0 .. Len(file)
        BY <1>2, <1>3, <4>1
      <4>3. QED BY <3>2, <4>1, <4>2
    <3>3. QED BY <3>1, <3>2
  <2>3. Head(held[t]) \in Parts /\ to \in Nat
    BY <1>2, <2>1, HeadTail
  <2>4. Span(file, queue[Down[t]], took[Down[t]], cut[t])
    BY <1>1, <1>2, UpFacts DEF Positions
  <2>5. Span(file, Append(queue[Down[t]], Head(held[t])), took[Down[t]], to)
    BY <1>2, <1>4, <2>2, <2>3, <2>4, SpanAppend
  <2>6. PICK new \in [Thread -> 0 .. Len(file)] :
           new[t] = to /\ \A r \in Thread \ {t} : new[r] = cut[r]
    <3>1. [cut EXCEPT ![t] = to] \in [Thread -> 0 .. Len(file)]
      BY <2>2
    <3>2. QED BY <1>2, <3>1
  <2>7. \A r \in Stage : queue'[r] = IF r = Down[t] THEN Append(queue[r], Head(held[t])) ELSE queue[r]
    BY <1>13 DEF PassOn, Push, Types
  <2>8. \A s \in Middle : held'[s] = IF s = t THEN Tail(held[t]) ELSE held[s]
    BY <1>13 DEF PassOn, Types
  <2>9. ASSUME NEW r \in Stage PROVE Span(file, queue'[r], took[r], new[Up[r]])
    <3>1. CASE r = Down[t]
      BY <2>5, <2>6, <2>7, <3>1, UpFacts
    <3>2. CASE r # Down[t]
      <4>1. new[Up[r]] = cut[Up[r]]
        BY <2>6, <3>2, UpFacts
      <4>2. QED BY <1>1, <2>7, <3>2, <4>1 DEF Positions
    <3>3. QED BY <3>1, <3>2
  <2>10. ASSUME NEW s \in Middle
         PROVE  Span(file, held'[s], new[s], mid[s]) /\ Span(file, batch'[s], mid[s], took[s])
    <3>1. s \in Thread
      BY DownFacts
    <3>2. QED BY <1>1, <2>1, <2>2, <2>6, <2>8, <3>1 DEF Positions
  <2>11. new["chunker"] = IF made' <= Len(file) THEN made' ELSE Len(file)
    BY <1>2, <1>8, <2>6, DownFacts
  <2>12. QED BY <1>8, <2>9, <2>10, <2>11, FlowNext
<1>14. QED
  BY <1>9, <1>10, <1>11, <1>12, <1>13 DEF MiddleStep

LEMMA FilePrefix ==
  ASSUME NEW whole \in Seq(Chunks), NEW n \in Nat, n < Len(whole)
  PROVE  Append(SubSeq(whole, 1, n), whole[n + 1]) = SubSeq(whole, 1, n + 1)
OBVIOUS

\* the sender takes the head, or the next chunk of the file
LEMMA FlowSend ==
  ASSUME Types, Flow, Send, UNCHANGED file
  PROVE  /\ Flow'
         /\ Head(queue["sender"]) # RecipeHead =>
               Len(sent) < Len(file) /\ sent' = Append(sent, file[Len(sent) + 1])
<1>1. PICK cut \in [Thread -> 0 .. Len(file)], mid \in [Middle -> 0 .. Len(file)],
           took \in [Stage -> 0 .. Len(file)] : Positions(cut, mid, took)
  BY DEF Flow
<1>2. /\ Len(file) \in Nat /\ queue["sender"] \in Seq(Parts) /\ "sender" \in Stage
      /\ Up["sender"] \in Thread /\ Len(sent) \in Nat /\ file \in Seq(Chunks)
  BY FlowTypes, DownFacts, UpFacts, EmptyLen DEF Types
<1>3. took["sender"] \in 0 .. Len(file) /\ cut[Up["sender"]] \in 0 .. Len(file)
  BY <1>2
<1>4. took["sender"] \in Nat /\ cut[Up["sender"]] \in Nat
  BY <1>2, <1>3
<1>5. Span(file, queue["sender"], took["sender"], cut[Up["sender"]])
  BY <1>1, <1>2 DEF Positions
<1>6. UNCHANGED <<made, held, batch>> /\ queue["sender"] # << >>
  BY DEF Send
<1>7. \A r \in Stage : queue'[r] = IF r = "sender" THEN Tail(queue["sender"]) ELSE queue[r]
  BY DEF Send, Types
<1>8. cut["chunker"] = IF made' <= Len(file) THEN made' ELSE Len(file)
  BY <1>1, <1>6 DEF Positions
<1>9. CASE Head(queue["sender"]) = RecipeHead
  <2>1. Span(file, Tail(queue["sender"]), took["sender"], cut[Up["sender"]])
    BY <1>2, <1>4, <1>5, <1>6, <1>9, SpanTail
  <2>2. \A r \in Stage : Span(file, queue'[r], took[r], cut[Up[r]])
    BY <1>1, <1>7, <2>1 DEF Positions
  <2>3. sent' = sent
    BY <1>9 DEF Send
  <2>4. took["sender"] = Len(sent') /\ sent' = SubSeq(file, 1, Len(sent'))
    BY <1>1, <2>3 DEF Positions
  <2>5. \A s \in Middle : Span(file, held'[s], cut[s], mid[s]) /\ Span(file, batch'[s], mid[s], took[s])
    BY <1>1, <1>6 DEF Positions
  <2>6. QED BY <1>8, <1>9, <2>2, <2>4, <2>5, FlowNext
<1>10. CASE Head(queue["sender"]) # RecipeHead
  <2>1. took["sender"] < cut[Up["sender"]] /\ Head(queue["sender"]) = file[took["sender"] + 1]
        /\ Span(file, Tail(queue["sender"]), took["sender"] + 1, cut[Up["sender"]])
    BY <1>2, <1>4, <1>5, <1>6, <1>10, SpanTail
  <2>2. took["sender"] + 1 \in 0 .. Len(file)
    BY <1>2, <1>3, <2>1
  <2>3. took["sender"] = Len(sent) /\ sent = SubSeq(file, 1, Len(sent))
    BY <1>1 DEF Positions
  <2>4. sent' = Append(sent, file[Len(sent) + 1]) /\ Len(sent) < Len(file)
    BY <1>2, <1>3, <1>10, <2>1, <2>3 DEF Send
  <2>5. Len(sent') = Len(sent) + 1 /\ sent' = SubSeq(file, 1, Len(sent'))
    <3>1. file[Len(sent) + 1] \in Chunks
      BY <1>2, <2>4
    <3>2. sent \in Seq(Chunks)
      BY DEF Types
    <3>3. Len(sent') = Len(sent) + 1
      BY <2>4, <3>1, <3>2, Appended
    <3>4. Append(SubSeq(file, 1, Len(sent)), file[Len(sent) + 1]) = SubSeq(file, 1, Len(sent) + 1)
      BY <1>2, <2>4, FilePrefix
    <3>5. QED BY <2>3, <2>4, <3>3, <3>4
  <2>6. PICK new \in [Stage -> 0 .. Len(file)] :
           new["sender"] = took["sender"] + 1 /\ \A r \in Stage \ {"sender"} : new[r] = took[r]
    <3>1. [took EXCEPT !["sender"] = took["sender"] + 1] \in [Stage -> 0 .. Len(file)]
      BY <2>2
    <3>2. QED BY <1>2, <3>1
  <2>7. \A r \in Stage : Span(file, queue'[r], new[r], cut[Up[r]])
    BY <1>1, <1>7, <2>1, <2>6 DEF Positions
  <2>8. ASSUME NEW s \in Middle
        PROVE  Span(file, held'[s], cut[s], mid[s]) /\ Span(file, batch'[s], mid[s], new[s])
    <3>1. s \in Stage \ {"sender"}
      BY DownFacts
    <3>2. QED BY <1>1, <1>6, <2>6, <3>1 DEF Positions
  <2>9. new["sender"] = Len(sent') /\ sent' = SubSeq(file, 1, Len(sent'))
    BY <2>3, <2>5, <2>6
  <2>10. Flow'
    BY <1>8, <2>7, <2>8, <2>9, FlowNext
  <2>11. QED BY <2>4, <2>10
<1>11. QED
  BY <1>9, <1>10

LEMMA SpanSums ==
  /\ \A a, b, c, d, q, h, k \in Nat :
        d <= a + q /\ a <= b + k /\ b <= c + h => d <= c + (q + k + h)
  /\ \A c, f, k, p, x, y, z \in Nat :
        c <= f + x /\ f <= k + y /\ k <= p + z => c <= p + (x + y + z)
  /\ \A c, p, m, x, s, n : /\ c \in Nat /\ p \in Nat /\ m \in Nat /\ x \in Nat /\ s \in Nat /\ n \in Nat
                           /\ m <= c + 1 /\ c <= p + x /\ p + 1 <= n /\ m = x + s
                           => s <= n
OBVIOUS

\* a stage and its queue hold at least the chunks between what it was given and what it passed on
LEMMA StageSpan ==
  ASSUME Types, NEW t \in Middle,
         NEW a \in Nat, NEW b \in Nat, NEW c \in Nat, NEW d \in Nat,
         Span(file, queue[t], a, d), Span(file, batch[t], b, a), Span(file, held[t], c, b)
  PROVE  d <= c + Holds(t)
<1>1. queue[t] \in Seq(Parts) /\ batch[t] \in Seq(Parts) /\ held[t] \in Seq(Parts)
  BY FlowTypes
<1>2. d <= a + Len(queue[t]) /\ Len(queue[t]) \in Nat
  BY <1>1, SpanLen
<1>3. a <= b + Len(batch[t]) /\ Len(batch[t]) \in Nat
  BY <1>1, SpanLen
<1>4. b <= c + Len(held[t]) /\ Len(held[t]) \in Nat
  BY <1>1, SpanLen
<1>5. Holds(t) = Len(queue[t]) + Len(batch[t]) + Len(held[t])
  BY HoldsMiddle, DownFacts
<1>6. d <= c + (Len(queue[t]) + Len(batch[t]) + Len(held[t]))
  BY <1>2, <1>3, <1>4, SpanSums
<1>7. QED
  BY <1>5, <1>6

\* there is but one recipe head
LEMMA HeadOnce ==
  ASSUME Types, Flow, Kept, queue["sender"] # << >>, Head(queue["sender"]) = RecipeHead
  PROVE  HeadTaken = 0
<1>1. PICK cut \in [Thread -> 0 .. Len(file)], mid \in [Middle -> 0 .. Len(file)],
           took \in [Stage -> 0 .. Len(file)] : Positions(cut, mid, took)
  BY DEF Flow
<1>2. Len(file) \in Nat /\ made \in 0 .. Len(file) + 1
  BY ItemFacts DEF Types
<1>3. (\A t \in Thread : cut[t] \in Nat) /\ (\A t \in Middle : mid[t] \in Nat)
      /\ \A t \in Stage : took[t] \in Nat
  BY <1>2
<1>4. \A t \in Middle : cut[Up[t]] <= cut[t] + Holds(t)
  <2>1. ASSUME NEW t \in Middle PROVE cut[Up[t]] <= cut[t] + Holds(t)
    <3>1. t \in Stage /\ t \in Thread /\ Up[t] \in Thread
      BY DownFacts, UpFacts
    <3>2. /\ Span(file, queue[t], took[t], cut[Up[t]]) /\ Span(file, batch[t], mid[t], took[t])
          /\ Span(file, held[t], cut[t], mid[t])
      BY <1>1, <3>1 DEF Positions
    <3>3. took[t] \in Nat /\ mid[t] \in Nat /\ cut[t] \in Nat /\ cut[Up[t]] \in Nat
      BY <1>3, <3>1
    <3>4. QED BY <3>2, <3>3, StageSpan
  <2>2. QED BY <2>1
<1>5. Up["powClient"] = "keyClient" /\ Up["keyClient"] = "fingerprinter"
      /\ Up["fingerprinter"] = "chunker" /\ Up["sender"] = "powClient"
  BY DownFacts DEF Up
<1>6. cut["powClient"] + 1 <= Len(sent) + Len(queue["sender"])
  <2>1. queue["sender"] \in Seq(Parts) /\ Span(file, queue["sender"], took["sender"], cut["powClient"])
    BY <1>1, <1>5, FlowTypes, DownFacts DEF Positions
  <2>2. took["sender"] = Len(sent) /\ took["sender"] \in Nat /\ cut["powClient"] \in Nat
    BY <1>1, <1>3, DownFacts DEF Positions
  <2>3. Span(file, Tail(queue["sender"]), took["sender"], cut["powClient"])
    BY <2>1, <2>2, SpanTail
  <2>4. /\ Tail(queue["sender"]) \in Seq(Parts) /\ Len(queue["sender"]) \in Nat \ {0}
        /\ Len(Tail(queue["sender"])) = Len(queue["sender"]) - 1
    BY <2>1, HeadTail
  <2>5. cut["powClient"] <= took["sender"] + Len(Tail(queue["sender"]))
    BY <2>2, <2>3, <2>4, SpanLen
  <2>6. QED BY <2>2, <2>4, <2>5
<1>7. made <= cut["chunker"] + 1
  <2>1. cut["chunker"] = IF made <= Len(file) THEN made ELSE Len(file)
    BY <1>1 DEF Positions
  <2>2. QED BY <1>2, <2>1
<1>8. /\ Holds("fingerprinter") \in Nat /\ Holds("keyClient") \in Nat /\ Holds("powClient") \in Nat
      /\ made = Holds("fingerprinter") + Holds("keyClient") + Holds("powClient") + Holds("sender")
  BY Total, DownFacts DEF Kept
<1>9. /\ cut["chunker"] <= cut["fingerprinter"] + Holds("fingerprinter")
      /\ cut["fingerprinter"] <= cut["keyClient"] + Holds("keyClient")
      /\ cut["keyClient"] <= cut["powClient"] + Holds("powClient")
  BY <1>4, <1>5, DownFacts
<1>10. /\ cut["chunker"] \in Nat /\ cut["fingerprinter"] \in Nat /\ cut["keyClient"] \in Nat
       /\ cut["powClient"] \in Nat
  BY <1>3, DownFacts
<1>11. Holds("sender") <= Len(sent) + Len(queue["sender"])
  <2>1. Holds("sender") \in Nat
    BY Total, DownFacts
  <2>2. Len(sent) \in Nat /\ Len(queue["sender"]) \in Nat
    BY EmptyLen, DownFacts DEF Types
  <2>3. made \in Nat
    BY <1>2
  <2>4. PICK x \in Nat : x = Holds("fingerprinter") + Holds("keyClient") + Holds("powClient")
    BY <1>8
  <2>5. cut["chunker"] <= cut["powClient"] + x
    BY <1>8, <1>9, <1>10, <2>4, SpanSums
  <2>6. PICK n \in Nat : n = Len(sent) + Len(queue["sender"])
    BY <2>2
  <2>7. made = x + Holds("sender") /\ cut["powClient"] + 1 <= n
    BY <1>6, <1>8, <2>1, <2>4, <2>6
  <2>8. Holds("sender") <= n
    BY <1>7, <1>10, <2>1, <2>3, <2>5, <2>7, SpanSums
  <2>9. QED BY <2>6, <2>8
<1>12. Holds("sender") = Len(queue["sender"]) + Len(sent) + HeadTaken /\ HeadTaken \in Nat
  BY HoldsSender DEF HeadTaken
<1>13. QED
  <2>1. Len(sent) \in Nat /\ Len(queue["sender"]) \in Nat
    BY EmptyLen, DownFacts DEF Types
  <2>2. QED BY <1>11, <1>12, <2>1

LEMMA KeptSend ==
  ASSUME Types, Types', Flow, Kept, Send
  PROVE  Kept'
<1>1. queue["sender"] \in Seq(Parts) /\ "sender" \in Stage /\ Len(sent) \in Nat
  BY FlowTypes, DownFacts, EmptyLen DEF Types
<1>2. queue["sender"] # << >> /\ UNCHANGED <<made, held, batch>>
  BY DEF Send
<1>3. /\ Len(queue'["sender"]) = Len(queue["sender"]) - 1 /\ Len(queue["sender"]) \in Nat
      /\ \A s \in Stage \ {"sender"} : queue'[s] = queue[s]
  BY <1>1, TakeLen DEF Send
<1>4. \A s \in Stage \ {"sender"} : Holds(s)' = Holds(s)
  BY <1>2, <1>3 DEF Holds
<1>5. Len(sent') + HeadTaken' = Len(sent) + HeadTaken + 1
  <2>1. CASE Head(queue["sender"]) = RecipeHead
    <3>1. HeadTaken = 0
      BY <1>2, <2>1, HeadOnce
    <3>2. HeadTaken' = 1 /\ sent' = sent
      BY <2>1 DEF Send, HeadTaken
    <3>3. QED BY <1>1, <3>1, <3>2
  <2>2. CASE Head(queue["sender"]) # RecipeHead
    <3>1. Head(queue["sender"]) \in Chunks
      BY <1>1, <1>2, <2>2, HeadTail DEF Parts
    <3>2. sent' = Append(sent, Head(queue["sender"])) /\ fileRecipe' = fileRecipe
      BY <2>2 DEF Send
    <3>3. Len(sent') = Len(sent) + 1
      BY <3>1, <3>2, Appended DEF Types
    <3>4. HeadTaken' = HeadTaken /\ HeadTaken \in Nat
      BY <3>2 DEF HeadTaken
    <3>5. QED BY <1>1, <3>3, <3>4
  <2>3. QED BY <2>1, <2>2
<1>6. Holds("sender")' = Holds("sender")
  <2>1. Holds("sender")' = Len(queue'["sender"]) + Len(sent') + HeadTaken'
    BY DEF Holds
  <2>2. HeadTaken \in Nat /\ HeadTaken' \in Nat /\ Len(sent') \in Nat
    BY EmptyLen DEF HeadTaken, Types
  <2>3. QED BY <1>1, <1>3, <1>5, <2>1, <2>2, HoldsSender
<1>7. (Beyond(1) = Holds("fingerprinter") + Holds("keyClient") + Holds("powClient")
                      + Holds("sender"))'
  BY Total, PTL
<1>8. QED
  BY <1>2, <1>4, <1>6, <1>7, Total, DownFacts DEF Kept

LEMMA KeptStays ==
  ASSUME Kept, UNCHANGED <<made, queue, batch, held, sent, fileRecipe>>
  PROVE  Kept'
<1>1. \A s : Holds(s)' = Holds(s)
  BY DEF Holds, HeadTaken
<1>2. QED
  BY <1>1 DEF Kept, Beyond, HoldsFrom
-----------------------------------------------------------------------------
(* The invariant *)

LEMMA StageInit == Init => StageInv
BY TypesInit, PlacesInit, DeletesInit, FlowInit, KeptInit DEF StageInv

LEMMA FailsStays ==
  Fails \/ ChunkingOver \/ SendOver => UNCHANGED <<made, queue, batch, held, sent, fileRecipe>>
BY DEF Fails, GiveUp, EncryptFails, PowFails, SendFails, ChunkingOver, SendOver, senderVars

LEMMA StageThreads == StageInv /\ ThreadStep => StageInv'
<1> SUFFICES ASSUME StageInv, ThreadStep PROVE StageInv'
  OBVIOUS
<1>1. Types /\ Places /\ Deletes /\ Flow /\ Kept
  BY DEF StageInv
<1>2. UNCHANGED file /\ UNCHANGED <<file, mainVars>>
  BY DEF ThreadStep
<1>3. Deletes'
  BY <1>1, DeletesThreads
<1>4. CASE ChunkerStep
  <2>1. Types' /\ Places'
    BY <1>1, <1>2, <1>4, ChunkerTypes, PlacesChunker
  <2>2. Flow'
    BY <1>1, <1>2, <1>4, FlowChunk, FlowStays, FailsStays DEF ChunkerStep
  <2>3. Kept'
    BY <1>1, <1>4, <2>1, KeptChunker
  <2>4. QED BY <1>3, <2>1, <2>2, <2>3 DEF StageInv
<1>5. ASSUME NEW t \in Middle, MiddleStep(t) PROVE StageInv'
  <2>1. Types'
    BY <1>1, <1>2, <1>5, MiddleTypes
  <2>2. Places'
    BY <1>1, <1>2, <1>5, PlacesMiddle
  <2>3. Flow'
    BY <1>1, <1>2, <1>5, FlowMiddle
  <2>4. Kept'
    BY <1>1, <1>5, <2>1, KeptMiddle
  <2>5. QED BY <1>3, <2>1, <2>2, <2>3, <2>4 DEF StageInv
<1>6. CASE SenderStep
  <2>1. Types' /\ Places'
    BY <1>1, <1>2, <1>6, SenderTypes, PlacesSender
  <2>2. Flow'
    BY <1>1, <1>2, <1>6, FlowSend, FlowStays, FailsStays DEF SenderStep
  <2>3. Kept'
    BY <1>1, <1>6, <2>1, KeptSend, KeptStays, FailsStays DEF SenderStep
  <2>4. QED BY <1>3, <2>1, <2>2, <2>3 DEF StageInv
<1>7. CASE Fails
  <2>1. Types' /\ Places'
    BY <1>1, <1>2, <1>7, FailTypes, PlacesFails
  <2>2. Flow' /\ Kept'
    BY <1>1, <1>2, <1>7, FlowStays, KeptStays, FailsStays
  <2>3. QED BY <1>3, <2>1, <2>2 DEF StageInv
<1>8. QED
  BY <1>4, <1>5, <1>6, <1>7 DEF ThreadStep

LEMMA MainStays ==
  MainStep \/ Interrupt => UNCHANGED <<file, made, queue, batch, held, sent, fileRecipe>>
BY DEF MainStep, Interrupt, StartThreads, NoSessionKey, Join, DeleteNext, Exit, stageVars,
       senderVars

LEMMA StageMain == StageInv /\ (MainStep \/ Interrupt) => StageInv'
<1> SUFFICES ASSUME StageInv, MainStep \/ Interrupt PROVE StageInv'
  OBVIOUS
<1>1. Types /\ Places /\ Deletes /\ Flow /\ Kept
  BY DEF StageInv
<1>2. Types' /\ Places' /\ Deletes'
  BY <1>1, MainTypes, PlacesMain, DeletesMain
<1>3. Flow' /\ Kept'
  BY <1>1, MainStays, FlowStays, KeptStays
<1>4. QED
  BY <1>2, <1>3 DEF StageInv

LEMMA StageStutter == StageInv /\ UNCHANGED vars => StageInv'
<1> SUFFICES ASSUME StageInv, UNCHANGED vars PROVE StageInv'
  OBVIOUS
<1> USE DEF vars, stageVars, mainVars
<1>1. Types'
  BY DEF StageInv, Types, Items
<1>2. Places'
  BY DEF StageInv, Places, Hands, Items
<1>3. Deletes'
  BY DEF StageInv, Deletes, Limit
<1>4. Flow' /\ Kept'
  BY FlowStays, KeptStays DEF StageInv
<1>5. QED
  BY <1>1, <1>2, <1>3, <1>4 DEF StageInv

LEMMA StageAlways == Spec => []StageInv
<1>1. StageInv /\ [Next]_vars => StageInv'
  BY StageThreads, StageMain, StageStutter DEF Next
<1>2. QED
  BY <1>1, StageInit, PTL DEF Spec
-----------------------------------------------------------------------------
(* Theorems *)

\* a stage whose next one has its flag is behind its own, and is empty
LEMMA Emptied ==
  ASSUME Types, Places, NEW t \in Middle, done[Down[t]], t = "powClient" => batch[t] = << >>
  PROVE  done[t] /\ Holds(t) = 0
<1>1. pc[t] = "end" /\ Hands(t)
  BY DEF Places, Hands
<1>2. held[t] = << >> /\ batch[t] = << >> /\ done[t] /\ queue[t] = << >>
  BY <1>1 DEF Hands
<1>3. Holds(t) = Len(queue[t]) + Len(batch[t]) + Len(held[t])
  BY HoldsMiddle, DownFacts
<1>4. QED
  BY <1>2, <1>3, EmptySeq

LEMMA AllThere == Types /\ Places /\ Kept => DoneIsAll
<1> SUFFICES ASSUME Types, Places, Kept PROVE DoneIsAll
  OBVIOUS
<1>1. TypeOK
  BY DEF Types, TypeOK
<1>2. /\ Beyond(1) = Holds("fingerprinter") + Holds("keyClient") + Holds("powClient") + Holds("sender")
      /\ Beyond(2) = Holds("keyClient") + Holds("powClient") + Holds("sender")
      /\ Beyond(3) = Holds("powClient") + Holds("sender")
      /\ Beyond(4) = Holds("sender")
      /\ Holds("fingerprinter") \in Nat /\ Holds("keyClient") \in Nat /\ Holds("powClient") \in Nat
      /\ Holds("sender") \in Nat
  BY Total, DownFacts DEF Beyond, HoldsFrom, Order
<1>3. done["fingerprinter"] => Beyond(1) = Len(Items)
  BY DEF Places, Kept
<1>4. done["keyClient"] => done["fingerprinter"] /\ Holds("fingerprinter") = 0
  BY Emptied, DownFacts
<1>5. done["powClient"] => done["keyClient"] /\ Holds("keyClient") = 0
  BY Emptied, DownFacts
<1>6. done["sender"] /\ batch["powClient"] = << >> => done["powClient"] /\ Holds("powClient") = 0
  BY Emptied, DownFacts
<1>7. ASSUME NEW k \in 1 .. 4, done[Order[k]] /\ (k = 4 => batch["powClient"] = << >>)
      PROVE  Beyond(k) = Len(Items)
  <2>1. CASE k = 1
    BY <1>3, <1>7, <2>1 DEF Order
  <2>2. CASE k = 2
    BY <1>2, <1>3, <1>4, <1>7, <2>2 DEF Order
  <2>3. CASE k = 3
    BY <1>2, <1>3, <1>4, <1>5, <1>7, <2>3 DEF Order
  <2>4. CASE k = 4
    BY <1>2, <1>3, <1>4, <1>5, <1>6, <1>7, <2>4 DEF Order
  <2>5. QED BY <2>1, <2>2, <2>3, <2>4
<1>8. QED
  BY <1>1, <1>7 DEF DoneIsAll

(* Theorem: a stage whose done flag is set has been given the whole file and the recipe head, for
   files, queues and batches of every length and every set of faults; the type invariant is part
   of it (chunker.cpp:478-491, fingerprinter.cpp:51-112, keyClient.cpp:450-583). *)
THEOREM FlagAfterAll == Spec => []DoneIsAll
<1>1. StageInv => DoneIsAll
  BY AllThere DEF StageInv
<1>2. QED
  BY <1>1, StageAlways, PTL

(* Theorem: main deletes no object whose thread still works on it, and none twice, unless its
   signal handler does (clientMain.cpp:279-304). *)
THEOREM DeletedAfter == Spec => []LivesLonger
<1>1. StageInv => LivesLonger
  <2> SUFFICES ASSUME StageInv, main \in {"join", "delete"}, NEW t \in Thread
               PROVE  freed[t] = 0 \/ (freed[t] = 1 /\ pc[t] \in Ended \cup {"new"})
    BY DEF LivesLonger
  <2>1. freed[t] \in 0 .. 2 /\ freed[t] <= 1
    BY DEF StageInv, Types, Deletes, Limit
  <2>2. QED BY <2>1 DEF StageInv, Deletes
<1>2. QED
  BY <1>1, StageAlways, PTL

LEMMA StageCopies == StageInv /\ [Next]_vars => [Copy!Copy]_<<file, sent>>
<1> SUFFICES ASSUME StageInv, [Next]_vars PROVE [Copy!Copy]_<<file, sent>>
  OBVIOUS
<1>1. file' = file
  BY MainStays DEF Next, ThreadStep, vars
<1>2. CASE Send
  <2>1. CASE Head(queue["sender"]) = RecipeHead
    BY <1>1, <1>2, <2>1 DEF Send
  <2>2. CASE Head(queue["sender"]) # RecipeHead
    <3>1. Len(sent) < Len(file) /\ sent' = Append(sent, file[Len(sent) + 1])
      BY <1>1, <1>2, <2>2, FlowSend DEF StageInv
    <3>2. QED BY <1>1, <3>1 DEF Copy!Copy
  <2>3. QED BY <2>1, <2>2
<1>3. CASE ~Send
  <2>1. sent' = sent
    <3>1. MainStep \/ Interrupt => sent' = sent
      BY MainStays
    <3>2. UNCHANGED vars => sent' = sent
      BY DEF vars, stageVars
    <3>3. Fails \/ ChunkerStep \/ SendOver => sent' = sent
      BY FailsStays DEF ChunkerStep, Chunk, senderVars
    <3>4. (\E t \in Middle : MiddleStep(t)) => sent' = sent
      BY DEF MiddleStep, TakeRecipeHead, TakeChunk, SeeDone, Work, PassOn, NextRound, StageOver,
             senderVars
    <3>5. QED BY <1>3, <3>1, <3>2, <3>3, <3>4 DEF Next, ThreadStep, SenderStep
  <2>2. QED BY <1>1, <2>1
<1>4. QED
  BY <1>2, <1>3

(* Theorem: the chunks the sender takes are an ordered copy of the file without a gap, however the
   stages batch them, whichever fails and when main deletes them (sender.cpp:356-447). *)
THEOREM PipelineCopies == Spec => CopiesFile
<1>1. Init => Copy!Init
  BY DEF Init, Copy!Init
<1>2. QED
  BY <1>1, StageCopies, StageAlways, PTL DEF Spec, CopiesFile, Copy!Spec
-----------------------------------------------------------------------------
(***************************************************************************)
(* The accept loop of the server                                           *)
(***************************************************************************)
LEMMA TurnInit == AcceptInit => AcceptTypeOK
<1> SUFFICES ASSUME AcceptInit PROVE AcceptTypeOK
  OBVIOUS
<1>1. dataQueue \in Seq(Client) /\ Len(dataQueue) <= Backlog
  BY EmptySeq, ServerAcceptAssumption DEF AcceptInit
<1>2. powQueue \in Seq(Client) /\ Len(powQueue) <= Backlog
  BY EmptySeq, ServerAcceptAssumption DEF AcceptInit
<1>3. starts \in 0 .. MaxStarts
  BY ServerAcceptAssumption DEF AcceptInit
<1>4. state \in [Client -> {"off", "dataWait", "data", "powWait", "on", "exit", "dead"}]
  BY DEF AcceptInit
<1>5. QED
  BY <1>1, <1>2, <1>3, <1>4 DEF AcceptInit, AcceptTypeOK

LEMMA ClientTurns ==
  ASSUME AcceptTypeOK,
         NEW c \in Client, ConnectData(c) \/ ConnectPow(c) \/ Leave(c) \/ Die(c)
  PROVE  AcceptTypeOK'
<1> USE DEF AcceptTypeOK, serverVars
<1>1. CASE ConnectData(c)
  <2>1. state' \in [Client -> {"off", "dataWait", "data", "powWait", "on", "exit", "dead"}]
    BY <1>1 DEF ConnectData
  <2>2. dataQueue' \in Seq(Client) /\ Len(dataQueue') <= Backlog
    <3>1. CASE port = "down"
      BY <1>1, <3>1 DEF ConnectData
    <3>2. CASE port # "down"
      <4>1. Len(dataQueue) < Backlog /\ dataQueue' = Append(dataQueue, c)
        BY <1>1, <3>2 DEF ConnectData
      <4>2. QED BY <4>1, Appended, ServerAcceptAssumption
    <3>3. QED BY <3>1, <3>2
  <2>3. UNCHANGED <<port, powQueue, dataOf, threads, lingering, starts, lost, shifted>>
    BY <1>1 DEF ConnectData
  <2>4. QED BY <2>1, <2>2, <2>3
<1>2. CASE ConnectPow(c)
  <2>1. powQueue' \in Seq(Client) /\ Len(powQueue') <= Backlog
    <3>1. CASE port = "down"
      BY <1>2, <3>1 DEF ConnectPow
    <3>2. CASE port # "down"
      <4>1. Len(powQueue) < Backlog /\ powQueue' = Append(powQueue, c)
        BY <1>2, <3>2 DEF ConnectPow
      <4>2. QED BY <4>1, Appended, ServerAcceptAssumption
    <3>3. QED BY <3>1, <3>2
  <2>2. state' \in [Client -> {"off", "dataWait", "data", "powWait", "on", "exit", "dead"}]
    BY <1>2 DEF ConnectPow
  <2>3. shifted' \in BOOLEAN
    BY <1>2 DEF ConnectPow
  <2>4. UNCHANGED <<port, dataQueue, dataOf, threads, lingering, starts, lost>>
    BY <1>2 DEF ConnectPow
  <2>5. QED BY <2>1, <2>2, <2>3, <2>4
<1>3. CASE Leave(c)
  BY <1>3 DEF Leave
<1>4. CASE Die(c)
  BY <1>4 DEF Die
<1>5. QED
  BY <1>1, <1>2, <1>3, <1>4

LEMMA HandshakeTypes ==
  ASSUME AcceptTypeOK, NEW c, NEW from, NEW to \in {"data", "on"}, Handshake(c, from, to)
  PROVE  state' \in [Client -> {"off", "dataWait", "data", "powWait", "on", "exit", "dead"}]
BY DEF AcceptTypeOK, Handshake

LEMMA ServerTurns ==
  ASSUME AcceptTypeOK,
         AcceptData \/ AcceptPow \/ AcceptFails \/ Stop \/ StartServer \/ LingerOver
  PROVE  AcceptTypeOK'
<1> USE DEF AcceptTypeOK
<1>1. CASE AcceptData
  <2>1. Head(dataQueue) \in Client /\ dataQueue' \in Seq(Client) /\ Len(dataQueue') <= Backlog
    BY <1>1, HeadTail, ServerAcceptAssumption DEF AcceptData
  <2>2. state' \in [Client -> {"off", "dataWait", "data", "powWait", "on", "exit", "dead"}]
    BY <1>1, HandshakeTypes DEF AcceptData
  <2>3. QED BY <1>1, <2>1, <2>2 DEF AcceptData
<1>2. CASE AcceptPow
  <2>1. Head(powQueue) \in Client /\ powQueue' \in Seq(Client) /\ Len(powQueue') <= Backlog
    BY <1>2, HeadTail, ServerAcceptAssumption DEF AcceptPow
  <2>2. state' \in [Client -> {"off", "dataWait", "data", "powWait", "on", "exit", "dead"}]
    BY <1>2, HandshakeTypes DEF AcceptPow
  <2>3. QED BY <1>2, <2>1, <2>2 DEF AcceptPow
<1>3. CASE AcceptFails
  BY <1>3 DEF AcceptFails
<1>4. CASE Stop
  <2>1. state' \in [Client -> {"off", "dataWait", "data", "powWait", "on", "exit", "dead"}]
    <3>1. \A c \in Client : (CASE state[c] = "dataWait" -> "data"
                             [] state[c] = "powWait" -> "on"
                             [] OTHER -> state[c])
              \in {"off", "dataWait", "data", "powWait", "on", "exit", "dead"}
      OBVIOUS
    <3>2. QED BY <1>4, <3>1 DEF Stop
  <2>2. dataQueue' \in Seq(Client) /\ Len(dataQueue') <= Backlog
    BY <1>4, EmptySeq, ServerAcceptAssumption DEF Stop
  <2>3. powQueue' \in Seq(Client) /\ Len(powQueue') <= Backlog
    BY <1>4, EmptySeq, ServerAcceptAssumption DEF Stop
  <2>4. lost' \subseteq Client /\ lingering' \in BOOLEAN /\ shifted' \in BOOLEAN
    BY <1>4 DEF Stop
  <2>5. QED BY <1>4, <2>1, <2>2, <2>3, <2>4 DEF Stop
<1>5. CASE StartServer
  BY <1>5, ServerAcceptAssumption DEF StartServer
<1>6. CASE LingerOver
  BY <1>6 DEF LingerOver
<1>7. QED
  BY <1>1, <1>2, <1>3, <1>4, <1>5, <1>6

LEMMA TurnStep == AcceptTypeOK /\ [AcceptNext]_acceptVars => AcceptTypeOK'
<1> SUFFICES ASSUME AcceptTypeOK, [AcceptNext]_acceptVars PROVE AcceptTypeOK'
  OBVIOUS
<1>1. CASE UNCHANGED acceptVars
  BY <1>1 DEF AcceptTypeOK, acceptVars
<1>2. QED
  BY <1>1, ClientTurns, ServerTurns DEF AcceptNext

\* Every variable keeps its type: the backlogs of both ports stay within their bound.
THEOREM AcceptTypes == AcceptSpec => []AcceptTypeOK
BY TurnInit, TurnStep, PTL DEF AcceptSpec

-----------------------------------------------------------------------------
(* One client at a time, until the turns shift.                                              *)

\* who has passed the data port of this life of the server and not yet the pow port
OneBetween ==
    ~shifted => \A c \in Client :
        state[c] = "powWait" \/ (state[c] = "data" /\ c \notin lost) => port = "pow" /\ dataOf = c

OwnPow ==
    ~shifted /\ powQueue # << >> =>
        /\ port = "pow" /\ Len(powQueue) = 1 /\ Head(powQueue) = dataOf
        /\ state[dataOf] # "data"

\* a client is in the data port's backlog once, and waits there or has died
QueuedOnce ==
    \A i \in 1 .. Len(dataQueue) :
        /\ state[dataQueue[i]] \in {"dataWait", "dead"}
        /\ \A j \in 1 .. Len(dataQueue) : dataQueue[i] = dataQueue[j] => i = j

\* whom a stop has cut off does not come to the data port again
NotAgain == \A c \in lost : state[c] \notin {"off", "dataWait"}

Waits == port = "pow" /\ ~shifted => dataOf \in Client

TurnInv ==
    AcceptTypeOK /\ Waits /\ OneBetween /\ OwnPow /\ QueuedOnce /\ NotAgain
    /\ OneClientATurn /\ WaitsForOne

TurnParts == Waits /\ OneBetween /\ OwnPow /\ QueuedOnce /\ NotAgain /\ OneClientATurn /\ WaitsForOne

LEMMA TurnInvInit == AcceptInit => TurnInv
BY TurnInit DEF AcceptInit, TurnInv, Waits, OneBetween, OwnPow, QueuedOnce, NotAgain,
                OneClientATurn, WaitsForOne

LEMMA ClientKeeps ==
  ASSUME TurnInv, NEW c \in Client, ConnectData(c) \/ ConnectPow(c) \/ Leave(c) \/ Die(c)
  PROVE  TurnParts'
<1> USE DEF TurnInv, TurnParts, AcceptTypeOK, serverVars
<1>1. CASE ConnectData(c)
  <2>1. QueuedOnce'
    <3>1. CASE port = "down"
      BY <1>1, <3>1 DEF ConnectData, QueuedOnce
    <3>2. CASE port # "down"
      <4>1. /\ Len(dataQueue') = Len(dataQueue) + 1 /\ Len(dataQueue) \in Nat
            /\ dataQueue'[Len(dataQueue) + 1] = c
            /\ \A i \in 1 .. Len(dataQueue) : dataQueue'[i] = dataQueue[i] /\ dataQueue[i] \in Client
        BY <1>1, <3>2 DEF ConnectData
      <4>2. \A i \in 1 .. Len(dataQueue) : dataQueue[i] # c
        BY <1>1 DEF ConnectData, QueuedOnce
      <4>3. /\ state'[c] = "dataWait"
            /\ \A d \in Client : d # c => state'[d] = state[d]
        BY <1>1, <3>2 DEF ConnectData
      <4>4. QED BY <4>1, <4>2, <4>3 DEF QueuedOnce
    <3>3. QED BY <3>1, <3>2
  <2>2. Waits' /\ OneBetween' /\ NotAgain' /\ OneClientATurn'
    BY <1>1 DEF ConnectData, Waits, OneBetween, NotAgain, OneClientATurn
  <2>3. OwnPow' /\ WaitsForOne'
    BY <1>1 DEF ConnectData, OwnPow, WaitsForOne, Waits
  <2>4. QED BY <2>1, <2>2, <2>3
<1>2. CASE ConnectPow(c)
  <2>1. QueuedOnce' /\ NotAgain' /\ Waits' /\ OneClientATurn'
    BY <1>2 DEF ConnectPow, QueuedOnce, NotAgain, Waits, OneClientATurn
  <2>2. CASE port = "down"
    BY <1>2, <2>1, <2>2 DEF ConnectPow, OneBetween, OwnPow, WaitsForOne
  <2>3. CASE port # "down" /\ (shifted \/ c \in lost)
    BY <1>2, <2>1, <2>3 DEF ConnectPow, OneBetween, OwnPow, WaitsForOne
  <2>4. CASE port # "down" /\ ~shifted /\ c \notin lost
    <3>1. port = "pow" /\ dataOf = c /\ powQueue = << >>
      BY <1>2, <2>4 DEF ConnectPow, OneBetween, OwnPow
    <3>2. Len(powQueue') = 1 /\ Head(powQueue') = c
      BY <1>2, <2>4, <3>1 DEF ConnectPow
    <3>3. OneBetween' /\ OwnPow' /\ WaitsForOne'
      BY <1>2, <2>4, <3>1, <3>2 DEF ConnectPow, OneBetween, OwnPow, WaitsForOne
    <3>4. QED BY <2>1, <3>3
  <2>5. QED BY <2>2, <2>3, <2>4
<1>3. CASE Leave(c)
  BY <1>3 DEF Leave, Waits, OneBetween, OwnPow, QueuedOnce, NotAgain, OneClientATurn, WaitsForOne
<1>4. CASE Die(c)
  BY <1>4 DEF Die, Waits, OneBetween, OwnPow, QueuedOnce, NotAgain, OneClientATurn, WaitsForOne
<1>5. QED
  BY <1>1, <1>2, <1>3, <1>4

LEMMA AcceptsData ==
  ASSUME TurnInv, AcceptData
  PROVE  TurnParts'
<1> USE DEF TurnInv, TurnParts, AcceptTypeOK
<1> DEFINE h == Head(dataQueue)
<1>1. /\ h \in Client /\ h = dataQueue[1] /\ Len(dataQueue) \in Nat \ {0}
      /\ Len(dataQueue') = Len(dataQueue) - 1
      /\ \A i \in 1 .. Len(dataQueue') : dataQueue'[i] = dataQueue[i + 1] /\ dataQueue'[i] \in Client
  BY HeadTail DEF AcceptData
<1>2. state[h] \in {"dataWait", "dead"}
  BY <1>1 DEF QueuedOnce
<1>3. /\ state'[h] \in {"data", "dead"}
      /\ state'[h] = "data" => h \notin lost
      /\ \A d \in Client : d # h => state'[d] = state[d]
  BY <1>1, <1>2 DEF AcceptData, Handshake, NotAgain
<1>4. QueuedOnce'
  <2>1. \A i \in 1 .. Len(dataQueue') : i + 1 \in 1 .. Len(dataQueue) /\ i + 1 # 1
    BY <1>1
  <2>2. 1 \in 1 .. Len(dataQueue)
    BY <1>1
  <2>3. \A i \in 1 .. Len(dataQueue') : dataQueue'[i] # h
    BY <1>1, <2>1, <2>2 DEF QueuedOnce
  <2>4. \A i, j \in 1 .. Len(dataQueue') : dataQueue'[i] = dataQueue'[j] => i = j
    <3> SUFFICES ASSUME NEW i \in 1 .. Len(dataQueue'), NEW j \in 1 .. Len(dataQueue'),
                        dataQueue'[i] = dataQueue'[j]
                 PROVE  i = j
      OBVIOUS
    <3>1. i + 1 = j + 1
      BY <1>1, <2>1 DEF QueuedOnce
    <3>2. QED BY <3>1
  <2>5. \A i \in 1 .. Len(dataQueue') : state'[dataQueue'[i]] \in {"dataWait", "dead"}
    BY <1>1, <1>3, <2>1, <2>3 DEF QueuedOnce
  <2>6. QED BY <2>4, <2>5 DEF QueuedOnce
<1>5. ~shifted => powQueue = << >>
  BY DEF OwnPow, AcceptData
<1>6. ~shifted => \A c \in Client : ~(state[c] = "powWait" \/ (state[c] = "data" /\ c \notin lost))
  BY DEF OneBetween, AcceptData
<1>7. OneBetween'
  BY <1>1, <1>3, <1>6 DEF OneBetween, AcceptData
<1>8. NotAgain'
  BY <1>1, <1>3 DEF NotAgain, AcceptData
<1>9. QED
  BY <1>1, <1>3, <1>4, <1>5, <1>7, <1>8 DEF AcceptData, Waits, OwnPow, OneClientATurn, WaitsForOne

LEMMA AcceptsPow ==
  ASSUME TurnInv, AcceptPow
  PROVE  TurnParts'
<1> USE DEF TurnInv, TurnParts, AcceptTypeOK
<1> DEFINE h == Head(powQueue)
<1>1. h \in Client
  BY HeadTail DEF AcceptPow
<1>2. \A d \in Client : state'[d] = IF d = h /\ state[d] = "powWait" THEN "on" ELSE state[d]
  BY <1>1 DEF AcceptPow, Handshake
<1>3. QueuedOnce'
  <2>1. \A i \in 1 .. Len(dataQueue) : dataQueue[i] \in Client
    OBVIOUS
  <2>2. QED BY <1>2, <2>1 DEF AcceptPow, QueuedOnce
<1>4. NotAgain'
  BY <1>2 DEF AcceptPow, NotAgain
<1>5. Waits' /\ WaitsForOne'
  BY DEF AcceptPow, Waits, WaitsForOne
<1>6. CASE shifted
  BY <1>3, <1>4, <1>5, <1>6 DEF AcceptPow, OneBetween, OwnPow, OneClientATurn
<1>7. CASE ~shifted
  <2>1. h = dataOf /\ Len(powQueue) = 1 /\ state[h] # "data"
    BY <1>7 DEF AcceptPow, OwnPow
  <2>2. powQueue' = << >>
    BY <2>1, HeadTail DEF AcceptPow
  <2>3. OneBetween'
    BY <1>2, <1>7, <2>1 DEF AcceptPow, OneBetween
  <2>4. OneClientATurn'
    BY <1>7, <2>1 DEF AcceptPow, OneClientATurn
  <2>5. QED BY <1>3, <1>4, <1>5, <2>2, <2>3, <2>4 DEF OwnPow
<1>8. QED
  BY <1>6, <1>7

LEMMA StopKeeps ==
  ASSUME TurnInv, Stop
  PROVE  TurnParts'
<1> USE DEF TurnInv, TurnParts, AcceptTypeOK
<1>1. \A c \in Client :
        /\ state'[c] \notin {"dataWait", "powWait"}
        /\ state'[c] = "data" => c \in lost'
        /\ state'[c] = "off" => state[c] = "off" /\ c \notin lost'
  BY DEF Stop, NotAgain
<1>2. OneBetween' /\ NotAgain'
  BY <1>1 DEF OneBetween, NotAgain, Stop
<1>3. QueuedOnce' /\ OwnPow'
  BY DEF Stop, QueuedOnce, OwnPow
<1>4. Waits' /\ OneClientATurn' /\ WaitsForOne'
  BY DEF Stop, Waits, OneClientATurn, WaitsForOne
<1>5. QED
  BY <1>2, <1>3, <1>4

LEMMA ServerKeeps ==
  ASSUME TurnInv, AcceptData \/ AcceptPow \/ AcceptFails \/ Stop \/ StartServer \/ LingerOver
  PROVE  TurnParts'
<1> USE DEF TurnInv, TurnParts, AcceptTypeOK
<1>1. CASE AcceptFails
  BY <1>1 DEF AcceptFails, Waits, OneBetween, OwnPow, QueuedOnce, NotAgain, OneClientATurn,
              WaitsForOne
<1>2. CASE StartServer
  BY <1>2 DEF StartServer, Waits, OneBetween, OwnPow, QueuedOnce, NotAgain, OneClientATurn,
              WaitsForOne
<1>3. CASE LingerOver
  BY <1>3 DEF LingerOver, Waits, OneBetween, OwnPow, QueuedOnce, NotAgain, OneClientATurn,
              WaitsForOne
<1>4. QED
  BY <1>1, <1>2, <1>3, AcceptsData, AcceptsPow, StopKeeps

LEMMA TurnInvStep == TurnInv /\ [AcceptNext]_acceptVars => TurnInv'
<1> SUFFICES ASSUME TurnInv, [AcceptNext]_acceptVars PROVE TurnInv'
  OBVIOUS
<1>1. AcceptTypeOK'
  BY TurnStep DEF TurnInv
<1>2. CASE UNCHANGED acceptVars
  BY <1>1, <1>2 DEF acceptVars, TurnInv, Waits, OneBetween, OwnPow, QueuedOnce, NotAgain,
                    OneClientATurn, WaitsForOne
<1>3. CASE AcceptNext
  BY <1>1, <1>3, ClientKeeps, ServerKeeps DEF AcceptNext, TurnInv, TurnParts
<1>4. QED
  BY <1>2, <1>3

LEMMA TurnAlways == AcceptSpec => []TurnInv
BY TurnInvInit, TurnInvStep, PTL DEF AcceptSpec

(* The connections of a turn are one client's, for any number of clients that come, die or fail at
   once and through any stops, until a client that a stop cut off comes to the pow port of the next
   server or an accept fails. *)
THEOREM TurnsAreClients == AcceptSpec => []OneClientATurn
<1>1. TurnInv => OneClientATurn
  BY DEF TurnInv
<1>2. QED
  BY <1>1, TurnAlways, PTL

(* Under the same condition the main thread waits at the pow port only for a client that is on its
   way there or has died. *)
THEOREM WaitsForItsClient == AcceptSpec => []WaitsForOne
<1>1. TurnInv => WaitsForOne
  BY DEF TurnInv
<1>2. QED
  BY <1>1, TurnAlways, PTL
=============================================================================
