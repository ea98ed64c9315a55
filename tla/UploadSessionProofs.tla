-------------------------- MODULE UploadSessionProofs --------------------------
(***************************************************************************)
(* What holds of uploads for any clients, files, lists of chunks and       *)
(* batches: every variable keeps its type, and every chunk of a stored     *)
(* recipe is stored but for what its client has left out, whatever faults; *)
(* and, when no batch is refused, a stored recipe is a whole file's, and   *)
(* who has finished has one.                                               *)
(***************************************************************************)
EXTENDS UploadSession, TLAPS

-----------------------------------------------------------------------------
(* Sequences *)

LEMMA AppendSet ==
  ASSUME NEW S, NEW s \in Seq(S), NEW e \in S
  PROVE  ToSet(Append(s, e)) = ToSet(s) \cup {e}
<1>1. ASSUME NEW x \in ToSet(Append(s, e)) PROVE x \in ToSet(s) \cup {e}
  BY <1>1 DEF ToSet
<1>2. ASSUME NEW x \in ToSet(s) PROVE x \in ToSet(Append(s, e))
  <2>1. PICK i \in DOMAIN s : x = s[i]
    BY <1>2 DEF ToSet
  <2>2. i \in DOMAIN Append(s, e) /\ Append(s, e)[i] = x
    BY <2>1
  <2>3. QED BY <2>2 DEF ToSet
<1>3. e \in ToSet(Append(s, e))
  <2>1. Len(s) + 1 \in DOMAIN Append(s, e) /\ Append(s, e)[Len(s) + 1] = e
    OBVIOUS
  <2>2. QED BY <2>1 DEF ToSet
<1>4. QED
  BY <1>1, <1>2, <1>3

LEMMA TailSet ==
  ASSUME NEW S, NEW s \in Seq(S), s # <<>>
  PROVE  ToSet(s) = {Head(s)} \cup ToSet(Tail(s))
<1>1. ASSUME NEW x \in ToSet(s) PROVE x \in {Head(s)} \cup ToSet(Tail(s))
  <2>1. PICK i \in DOMAIN s : x = s[i]
    BY <1>1 DEF ToSet
  <2>2. CASE i = 1
    BY <2>1, <2>2
  <2>3. CASE i # 1
    <3>1. i - 1 \in DOMAIN Tail(s) /\ Tail(s)[i - 1] = x
      BY <2>1, <2>3
    <3>2. QED BY <3>1 DEF ToSet
  <2>4. QED BY <2>2, <2>3
<1>2. ASSUME NEW x \in ToSet(Tail(s)) PROVE x \in ToSet(s)
  <2>1. PICK i \in DOMAIN Tail(s) : x = Tail(s)[i]
    BY <1>2 DEF ToSet
  <2>2. i + 1 \in DOMAIN s /\ s[i + 1] = x
    BY <2>1
  <2>3. QED BY <2>2 DEF ToSet
<1>3. Head(s) \in ToSet(s)
  <2>1. 1 \in DOMAIN s /\ Head(s) = s[1]
    OBVIOUS
  <2>2. QED BY <2>1 DEF ToSet
<1>4. QED
  BY <1>1, <1>2, <1>3

LEMMA EmptySet == ToSet(<<>>) = {}
BY DEF ToSet

LEMMA SeqFacts ==
  ASSUME NEW S, NEW s \in Seq(S)
  PROVE  Len(s) \in Nat /\ DOMAIN s = 1 .. Len(s)
OBVIOUS

LEMMA EmptyLen ==
  ASSUME NEW S, NEW s \in Seq(S)
  PROVE  s = <<>> <=> Len(s) = 0
OBVIOUS

LEMMA Successor == \A m \in Nat : m # 0 => \E n \in Nat : m = n + 1
<1>1. ASSUME NEW m \in Nat, m # 0 PROVE m - 1 \in Nat /\ m = (m - 1) + 1
  BY <1>1
<1>2. QED
  BY <1>1

LEMMA AppendFacts ==
  ASSUME NEW S, NEW s \in Seq(S), NEW e
  PROVE  /\ Len(Append(s, e)) = Len(s) + 1
         /\ DOMAIN Append(s, e) = 1 .. Len(s) + 1
         /\ Append(s, e)[Len(s) + 1] = e
         /\ \A i \in DOMAIN s : Append(s, e)[i] = s[i]
OBVIOUS

LEMMA EmptySeq == \A S : <<>> \in Seq(S)
OBVIOUS

-----------------------------------------------------------------------------
(* Types *)

LEMMA MsgType ==
  ASSUME NEW type \in {"none", "chunks", "recipeHead", "recipe", "exit"},
         NEW f \in FileNames, NEW s \in Seq(Chunk)
  PROVE  Msg(type, f, s) \in Message
BY DEF Msg, Message

LEMMA NamesKnown == NoFile \in FileNames /\ \A c \in Client : FileName[c] \in FileNames
BY DEF FileNames

LEMMA TypeInit == Init => TypeOK
<1> SUFFICES ASSUME Init PROVE TypeOK
  OBVIOUS
<1>1. ASSUME NEW c \in Client PROVE Append(File[c], Recipe) \in Seq(Chunk \cup {Recipe})
  <2>1. File[c] \in Seq(Chunk \cup {Recipe})
    BY UploadAssumption
  <2>2. QED BY <2>1
<1>2. NoMsg \in Message
  BY MsgType, NamesKnown, EmptySeq DEF NoMsg
<1>3. PowTypes
  <2>1. todo \in [Client -> Seq(Chunk \cup {Recipe})]
    BY <1>1 DEF Init
  <2>2. QED BY <2>1 DEF Init, PowTypes
<1>4. SenderTypes
  BY NamesKnown DEF Init, SenderTypes
<1>5. ServerTypes
  BY <1>2 DEF Init, ServerTypes
<1>6. QED
  BY <1>3, <1>4, <1>5 DEF TypeOK

LEMMA TypeKept ==
  ASSUME TypeOK
  PROVE  /\ UNCHANGED <<powClient, powThread>> => PowTypes'
         /\ UNCHANGED <<queue, done, sender>> => SenderTypes'
         /\ UNCHANGED <<connection, dataThread, server>> => ServerTypes'
BY DEF TypeOK, PowTypes, SenderTypes, ServerTypes, powClient, powThread, sender,
       connection, dataThread, server

LEMMA PowTypeStep ==
  ASSUME TypeOK, NEW c \in Client, PowClientStep(c) \/ RefuseBatch(c)
  PROVE  TypeOK'
<1> USE DEF TypeOK, Step
<1>1. CASE Collect(c)
  <2> DEFINE item(junk) == [chunk |-> Head(todo[c]), type |-> junk]
  <2>1. Head(todo[c]) \in Chunk /\ Tail(todo[c]) \in Seq(Chunk \cup {Recipe})
    BY <1>1 DEF Collect, PowTypes
  <2>2. \A junk \in ChunkType : item(junk) \in Item
    BY <2>1 DEF Item
  <2>3. \A junk \in ChunkType : Append(batch[c], item(junk)) \in Seq(Item)
    <3> HIDE DEF item
    <3>1. QED BY <2>2 DEF PowTypes
  <2>4. PowTypes'
    BY <1>1, <2>1, <2>3 DEF Collect, PowTypes, powThread
  <2>5. QED BY <1>1, <2>4, TypeKept DEF Collect
<1>2. CASE PassRecipe(c)
  <2>1. Append(queue[c], Recipe) \in Seq(Item \cup {Recipe})
    BY DEF SenderTypes
  <2>2. Tail(todo[c]) \in Seq(Chunk \cup {Recipe})
    BY <1>2 DEF PassRecipe, PowTypes
  <2>3. PowTypes'
    BY <1>2, <2>2 DEF PassRecipe, PowTypes, powThread
  <2>4. SenderTypes'
    BY <1>2, <2>1 DEF PassRecipe, SenderTypes, sender
  <2>5. QED BY <1>2, <2>3, <2>4, TypeKept DEF PassRecipe
<1>3. CASE LastBatch(c)
  <2>1. PowTypes'
    BY <1>3 DEF LastBatch, PowTypes, powThread
  <2>2. QED BY <1>3, <2>1, TypeKept DEF LastBatch
<1>4. CASE Ask(c)
  <2>1. PowTypes'
    BY <1>4 DEF Ask, PowTypes
  <2>2. QED BY <1>4, <2>1, TypeKept DEF Ask
<1>5. CASE DedupByHash(c)
  <2>1. \A b \in BOOLEAN : Append(answer[c], b) \in Seq(BOOLEAN)
    BY DEF PowTypes
  <2>2. answer' \in [Client -> Seq(BOOLEAN)]
    <3>1. PICK b \in BOOLEAN : answer' = [answer EXCEPT ![c] = Append(@, b)]
      BY <1>5 DEF DedupByHash
    <3>2. QED BY <2>1, <3>1 DEF PowTypes
  <2>3. PowTypes'
    BY <1>5, <2>2 DEF DedupByHash, PowTypes, powClient
  <2>4. QED BY <1>5, <2>3, TypeKept DEF DedupByHash
<1>6. CASE Forward(c)
  <2>0. LeftOut(c) \subseteq Chunk
    <3>1. \A i \in DOMAIN batch[c] : batch[c][i] \in Item
      BY DEF PowTypes
    <3>2. \A i \in DOMAIN batch[c] : batch[c][i].chunk \in Chunk
      BY <3>1 DEF Item
    <3>3. QED BY <3>2 DEF LeftOut
  <2>1. Marked(c) \in Seq(Item)
    <3>1. \A i \in DOMAIN batch[c] : batch[c][i] \in Item
      BY DEF PowTypes
    <3>2. DOMAIN batch[c] = 1 .. Len(batch[c]) /\ Len(batch[c]) \in Nat
      BY DEF PowTypes
    <3>3. \A i \in DOMAIN batch[c] : Marked(c)[i] \in Item
      BY <3>1 DEF Marked, Item, ChunkType
    <3>4. Marked(c) \in [1 .. Len(batch[c]) -> Item]
      BY <3>2, <3>3 DEF Marked
    <3>5. QED BY <3>2, <3>4
  <2>2. queue[c] \o Marked(c) \in Seq(Item \cup {Recipe})
    BY <2>1 DEF SenderTypes
  <2>3. PowTypes'
    <3>1. \A d \in Client : batch'[d] \in Seq(Item)
      BY <1>6 DEF Forward, PowTypes
    <3>2. skipped' \in [Client -> SUBSET Chunk]
      BY <1>6, <2>0 DEF Forward, PowTypes
    <3>3. QED BY <1>6, <3>1, <3>2 DEF Forward, PowTypes, powThread
  <2>4. SenderTypes'
    BY <1>6, <2>2 DEF Forward, SenderTypes, sender, PowTypes
  <2>5. QED BY <1>6, <2>3, <2>4, TypeKept DEF Forward
<1>7. CASE RefuseBatch(c)
  <2>1. PowTypes'
    BY <1>7 DEF RefuseBatch, PowTypes, powThread
  <2>2. SenderTypes'
    BY <1>7 DEF RefuseBatch, SenderTypes, sender
  <2>3. QED BY <1>7, <2>1, <2>2, TypeKept DEF RefuseBatch
<1>8. QED
  BY <1>1, <1>2, <1>3, <1>4, <1>5, <1>6, <1>7 DEF PowClientStep

LEMMA SendType ==
  ASSUME TypeOK, NEW c \in Client, NEW m \in Message, Send(c, m),
         UNCHANGED <<dataThread, server>>
  PROVE  ServerTypes'
<1>1. Append(wire[c], m) \in Seq(Message)
  BY DEF TypeOK, ServerTypes
<1>2. QED
  BY <1>1 DEF TypeOK, ServerTypes, Send, dataThread, server

LEMMA SenderTypeStep ==
  ASSUME TypeOK, NEW c \in Client, SenderStep(c)
  PROVE  TypeOK'
<1> USE DEF TypeOK, Step
<1>1. CASE TakeRecipe(c)
  <2>1. Tail(queue[c]) \in Seq(Item \cup {Recipe})
    BY <1>1 DEF TakeRecipe, SenderTypes
  <2>2. SenderTypes'
    BY <1>1, <2>1, NamesKnown DEF TakeRecipe, SenderTypes
  <2>3. QED BY <1>1, <2>2, TypeKept DEF TakeRecipe
<1>2. CASE TakeChunk(c)
  <2>1. Head(queue[c]) \in Item /\ Tail(queue[c]) \in Seq(Item \cup {Recipe})
    BY <1>2 DEF TakeChunk, SenderTypes
  <2>2. Head(queue[c]).chunk \in Chunk
    BY <2>1 DEF Item
  <2>3. PICK x \in Seq(Chunk), y \in Seq(Chunk) :
          /\ list' = [list EXCEPT ![c] = x]
          /\ buffer' = [buffer EXCEPT ![c] = y]
    <3>1. /\ Append(list[c], Head(queue[c]).chunk) \in Seq(Chunk)
          /\ Append(buffer[c], Head(queue[c]).chunk) \in Seq(Chunk)
          /\ buffer[c] \in Seq(Chunk) /\ <<>> \in Seq(Chunk)
      BY <2>2 DEF SenderTypes
    <3>2. QED BY <1>2, <3>1 DEF TakeChunk
  <2>4. SenderTypes'
    BY <1>2, <2>1, <2>3 DEF TakeChunk, SenderTypes
  <2>5. ServerTypes'
    <3>1. /\ Append(buffer[c], Head(queue[c]).chunk) \in Seq(Chunk)
          /\ buffer[c] \in Seq(Chunk)
      BY <2>2 DEF SenderTypes
    <3>2. \/ \E m \in Message : Send(c, m)
          \/ UNCHANGED connection
      BY <1>2, <3>1, MsgType, NamesKnown DEF TakeChunk
    <3>3. QED BY <1>2, <3>2, SendType, TypeKept DEF TakeChunk
  <2>6. QED BY <1>2, <2>4, <2>5, TypeKept DEF TakeChunk
<1>3. CASE SendRest(c)
  <2>1. Msg("chunks", NoFile, buffer[c]) \in Message
    BY MsgType, NamesKnown DEF SenderTypes
  <2>2. SenderTypes'
    BY <1>3, EmptySeq DEF SendRest, SenderTypes
  <2>3. QED BY <1>3, <2>1, <2>2, SendType, TypeKept DEF SendRest
<1>4. CASE SendRecipeHead(c)
  <2>1. Msg("recipeHead", NoFile, <<>>) \in Message
    BY MsgType, NamesKnown, EmptySeq
  <2>2. SenderTypes'
    BY <1>4 DEF SendRecipeHead, SenderTypes
  <2>3. QED BY <1>4, <2>1, <2>2, SendType, TypeKept DEF SendRecipeHead
<1>5. CASE SendRecipe(c)
  <2>1. Msg("recipe", head[c], list[c]) \in Message
    BY MsgType DEF SenderTypes
  <2>2. SenderTypes'
    BY <1>5 DEF SendRecipe, SenderTypes
  <2>3. QED BY <1>5, <2>1, <2>2, SendType, TypeKept DEF SendRecipe
<1>6. CASE SendEndFlag(c)
  <2>1. Msg("exit", NoFile, <<>>) \in Message
    BY MsgType, NamesKnown, EmptySeq
  <2>2. SenderTypes'
    BY <1>6 DEF SendEndFlag, SenderTypes
  <2>3. QED BY <1>6, <2>1, <2>2, SendType, TypeKept DEF SendEndFlag
<1>7. CASE Finish(c)
  <2>1. SenderTypes'
    BY <1>7 DEF Finish, SenderTypes
  <2>2. QED BY <1>7, <2>1, TypeKept DEF Finish
<1>8. QED
  BY <1>1, <1>2, <1>3, <1>4, <1>5, <1>6, <1>7 DEF SenderStep

LEMMA DispatchType ==
  ASSUME TypeOK, NEW c \in Client, NEW m \in Message, Dispatch(c, m)
  PROVE  /\ inbox' \in [Client -> Message]
         /\ pending' \in [Client -> Seq(Chunk)]
         /\ dataPc' \in [Client -> {"recv", "store", "recipe", "exited"}]
<1>1. m.chunks \in Seq(Chunk)
  BY DEF Message
<1>2. QED
  BY <1>1 DEF TypeOK, ServerTypes, Dispatch

LEMMA DataTypeStep ==
  ASSUME TypeOK, NEW c \in Client, DataStep(c)
  PROVE  TypeOK'
<1> USE DEF TypeOK, Step
<1>1. CASE Receive(c)
  <2>1. Head(wire[c]) \in Message /\ Tail(wire[c]) \in Seq(Message)
    BY <1>1 DEF Receive, ServerTypes
  <2>2. ServerTypes'
    BY <1>1, <2>1, DispatchType DEF Receive, ServerTypes, server
  <2>3. QED BY <1>1, <2>2, TypeKept DEF Receive
<1>2. CASE ReadReset(c)
  <2>1. inbox[c] \in Message
    BY DEF ServerTypes
  <2>2. ServerTypes'
    BY <1>2, <2>1, DispatchType DEF ReadReset, ServerTypes, server, connection
  <2>3. QED BY <1>2, <2>2, TypeKept DEF ReadReset
<1>3. CASE StoreOne(c)
  <2>1. Head(pending[c]) \in Chunk /\ Tail(pending[c]) \in Seq(Chunk)
    BY <1>3 DEF StoreOne, ServerTypes
  <2>2. ServerTypes'
    BY <1>3, <2>1 DEF StoreOne, ServerTypes, connection
  <2>3. QED BY <1>3, <2>2, TypeKept DEF StoreOne
<1>4. CASE Stored(c)
  <2>1. ServerTypes'
    BY <1>4 DEF Stored, ServerTypes, connection, server
  <2>2. QED BY <1>4, <2>1, TypeKept DEF Stored
<1>5. CASE StoreRecipe(c)
  <2>1. Head(wire[c]) \in Message /\ Tail(wire[c]) \in Seq(Message)
    BY <1>5 DEF StoreRecipe, ServerTypes
  <2>2. Head(wire[c]).name \in FileNames /\ Head(wire[c]).chunks \in Seq(Chunk)
    BY <2>1 DEF Message
  <2>3. Append(recipes[Head(wire[c]).name], Head(wire[c]).chunks) \in Seq(Seq(Chunk))
    BY <2>2 DEF ServerTypes
  <2>4. ServerTypes'
    BY <1>5, <2>1, <2>2, <2>3 DEF StoreRecipe, ServerTypes
  <2>5. QED BY <1>5, <2>4, TypeKept DEF StoreRecipe
<1>6. CASE HangUp(c)
  <2>1. ServerTypes'
    BY <1>6 DEF HangUp, ServerTypes, connection, server
  <2>2. QED BY <1>6, <2>1, TypeKept DEF HangUp
<1>7. CASE StoreJunkRecipe(c)
  <2>1. recipes' \in [FileNames -> Seq(Seq(Chunk))]
    <3>1. \A f \in FileNames : \A i \in DOMAIN recipes[f] :
            Append(recipes[f], recipes[f][i]) \in Seq(Seq(Chunk))
      BY DEF ServerTypes
    <3>2. QED BY <1>7, <3>1 DEF StoreJunkRecipe, ServerTypes
  <2>2. ServerTypes'
    BY <1>7, <2>1 DEF StoreJunkRecipe, ServerTypes, connection
  <2>3. QED BY <1>7, <2>2, TypeKept DEF StoreJunkRecipe
<1>8. QED
  BY <1>1, <1>2, <1>3, <1>4, <1>5, <1>6, <1>7 DEF DataStep

LEMMA DieTypeStep ==
  ASSUME TypeOK, NEW c \in Client, Die(c)
  PROVE  TypeOK'
<1> USE DEF TypeOK
<1>1. PowTypes'
  BY DEF Die, PowTypes, powThread
<1>2. SenderTypes'
  BY DEF Die, SenderTypes
<1>3. PICK n \in 0 .. Len(wire[c]) : wire' = [wire EXCEPT ![c] = SubSeq(@, 1, n)]
  BY DEF Die
<1>4. SubSeq(wire[c], 1, n) \in Seq(Message)
  BY DEF ServerTypes
<1>5. PICK state \in {"closed", "reset"} : link' = [link EXCEPT ![c] = state]
  BY DEF Die
<1>6. ServerTypes'
  BY <1>3, <1>4, <1>5 DEF Die, ServerTypes, dataThread, server
<1>7. QED
  BY <1>1, <1>2, <1>6

LEMMA TypeStep ==
  ASSUME TypeOK, [Next]_vars
  PROVE  TypeOK'
<1>1. CASE UNCHANGED vars
  BY <1>1, TypeKept DEF vars, TypeOK
<1>2. QED
  BY <1>1, PowTypeStep, SenderTypeStep, DataTypeStep, DieTypeStep DEF Next

\* Every variable has the values its comment describes, in every upload.
THEOREM UploadTypeCorrect == Spec => []TypeOK
<1>1. TypeOK /\ [Next]_vars => TypeOK'
  BY TypeStep
<1>2. QED
  BY <1>1, TypeInit, PTL DEF Spec

-----------------------------------------------------------------------------
(* What a step leaves alone *)

Right(c) == BatchRight(c) /\ QueueRight(c) /\ ListRight(c) /\ WireRight(c)

LEMMA BatchKept ==
  ASSUME IndInv, NEW c \in Client, index \subseteq index',
         UNCHANGED <<batch[c], powPc[c], answer[c], needed[c]>>
  PROVE  BatchRight(c)'
BY DEF IndInv, BatchRight

LEMMA QueueKept ==
  ASSUME IndInv, NEW c \in Client, index \subseteq index', skipped[c] \subseteq skipped'[c],
         UNCHANGED queue[c]
  PROVE  QueueRight(c)'
BY DEF IndInv, QueueRight

\* What is covered stays covered when the wire grows, or loses what comes later.
LEMMA CoverGrows ==
  ASSUME NEW c \in Client, NEW k, NEW x,
         index \cup ToSet(pending[c]) \subseteq index' \cup ToSet(pending'[c]),
         skipped[c] \subseteq skipped'[c],
         \A j \in DOMAIN wire[c] :
           j < k => j \in DOMAIN wire'[c] /\ wire'[c][j] = wire[c][j],
         Covered(c, x, k)
  PROVE  Covered(c, x, k)'
BY DEF Covered

\* It stays covered when the message before it is taken off the wire.
LEMMA CoverShift ==
  ASSUME NEW c \in Client, NEW k \in Nat, NEW x,
         wire[c] \in Seq(Message), wire[c] # <<>>, wire'[c] = Tail(wire[c]),
         index \cup ToSet(pending[c]) \subseteq index' \cup ToSet(pending'[c]),
         skipped[c] \subseteq skipped'[c],
         Head(wire[c]).type = "chunks" =>
           ToSet(Head(wire[c]).chunks) \subseteq ToSet(pending'[c]),
         Covered(c, x, k + 1)
  PROVE  Covered(c, x, k)'
<1>1. CASE x \in index \cup ToSet(pending[c]) \cup skipped[c]
  BY <1>1 DEF Covered
<1>2. ASSUME NEW j \in DOMAIN wire[c], j < k + 1, wire[c][j].type = "chunks",
             x \in ToSet(wire[c][j].chunks)
      PROVE  Covered(c, x, k)'
  <2>1. CASE j = 1
    BY <1>2, <2>1 DEF Covered
  <2>2. CASE j # 1
    <3>1. j - 1 \in DOMAIN Tail(wire[c]) /\ Tail(wire[c])[j - 1] = wire[c][j] /\ j - 1 < k
      BY <1>2, <2>2
    <3>2. QED BY <1>2, <3>1 DEF Covered
  <2>3. QED BY <2>1, <2>2
<1>3. QED
  BY <1>1, <1>2 DEF Covered

LEMMA ListKept ==
  ASSUME IndInv, NEW c \in Client,
         index \cup ToSet(pending[c]) \subseteq index' \cup ToSet(pending'[c]),
         skipped[c] \subseteq skipped'[c],
         UNCHANGED <<list[c], buffer[c], wire[c], sendPc[c]>>
  PROVE  ListRight(c)'
<1>1. ASSUME NEW x, Covered(c, x, Len(wire[c]) + 1)
      PROVE  Covered(c, x, Len(wire[c]) + 1)'
  BY <1>1, CoverGrows
<1>2. QED
  BY <1>1 DEF IndInv, ListRight

LEMMA WireKept ==
  ASSUME IndInv, NEW c \in Client,
         index \cup ToSet(pending[c]) \subseteq index' \cup ToSet(pending'[c]),
         skipped[c] \subseteq skipped'[c],
         UNCHANGED <<wire[c], link[c], sendPc[c]>>,
         dataPc'[c] # "store" => pending'[c] = <<>>,
         dataPc'[c] = "recipe" => dataPc[c] = "recipe" \/ (wire[c] = <<>> /\ link[c] # "open")
  PROVE  WireRight(c)'
<1>1. ASSUME NEW x, NEW k \in DOMAIN wire[c], Covered(c, x, k)
      PROVE  Covered(c, x, k)'
  BY <1>1, CoverGrows
<1>2. QED
  BY <1>1 DEF IndInv, WireRight

\* The steps of one client take nothing from another.
LEMMA OtherKept ==
  ASSUME IndInv, NEW d \in Client, index \subseteq index',
         UNCHANGED <<batch[d], powPc[d], answer[d], needed[d], queue[d], list[d],
                     buffer[d], sendPc[d], wire[d], link[d], pending[d], dataPc[d], skipped[d]>>
  PROVE  Right(d)'
<1>1. index \cup ToSet(pending[d]) \subseteq index' \cup ToSet(pending'[d])
  OBVIOUS
<1>2. dataPc'[d] # "store" => pending'[d] = <<>>
  BY DEF IndInv, WireRight
<1>3. QED
  BY <1>1, <1>2, BatchKept, QueueKept, ListKept, WireKept DEF Right

LEMMA RestorableKept ==
  ASSUME IndInv, index \subseteq index', \A c \in Client : skipped[c] \subseteq skipped'[c],
         UNCHANGED recipes
  PROVE  Restorable'
<1> SUFFICES ASSUME NEW f \in FileNames, NEW i \in DOMAIN recipes[f]
             PROVE  \E c \in Client : ToSet(recipes[f][i]) \subseteq index' \cup skipped'[c]
  BY DEF Restorable, FileNames
<1>1. PICK c \in Client : ToSet(recipes[f][i]) \subseteq index \cup skipped[c]
  BY DEF IndInv, Restorable
<1>2. QED
  BY <1>1

-----------------------------------------------------------------------------
(* powClient and the pow thread *)

LEMMA PowStep ==
  ASSUME IndInv, TypeOK', NEW c \in Client, PowClientStep(c) \/ RefuseBatch(c)
  PROVE  IndInv'
<1> USE DEF Step
<1>1. /\ UNCHANGED <<list, buffer, sendPc, wire, link, pending, dataPc, index, recipes>>
      /\ \A d \in Client \ {c} :
           UNCHANGED <<batch[d], powPc[d], answer[d], needed[d], queue[d], skipped[d]>>
      /\ skipped[c] \subseteq skipped'[c]
  <2>1. UNCHANGED <<sender, connection, dataThread, server>>
    BY DEF PowClientStep, Collect, PassRecipe, LastBatch, Ask, DedupByHash, Forward,
           RefuseBatch
  <2>2. /\ batch \in [Client -> Seq(Item)] /\ DOMAIN powPc = Client
        /\ DOMAIN answer = Client /\ DOMAIN needed = Client /\ DOMAIN queue = Client
        /\ DOMAIN skipped = Client
    BY DEF IndInv, TypeOK, PowTypes, SenderTypes
  <2>3. ASSUME NEW d \in Client \ {c}
        PROVE  UNCHANGED <<batch[d], powPc[d], answer[d], needed[d], queue[d], skipped[d]>>
    BY <2>2 DEF PowClientStep, Collect, PassRecipe, LastBatch, Ask, DedupByHash, Forward,
           RefuseBatch, powClient, powThread
  <2>4. skipped[c] \subseteq skipped'[c]
    <3>1. \/ UNCHANGED skipped
          \/ skipped' = [skipped EXCEPT ![c] = @ \cup LeftOut(c)]
      BY DEF PowClientStep, Collect, PassRecipe, LastBatch, Ask, DedupByHash, Forward,
             RefuseBatch, powClient
    <3>2. QED BY <2>2, <3>1
  <2>5. QED BY <2>1, <2>3, <2>4 DEF sender, connection, dataThread, server
<1>2. ListRight(c)' /\ WireRight(c)' /\ Restorable'
  <2>1. dataPc'[c] # "store" => pending'[c] = <<>>
    BY <1>1 DEF IndInv, WireRight
  <2>2. Restorable'
    BY <1>1, RestorableKept
  <2>3. QED
    BY <1>1, <2>1, <2>2, ListKept, WireKept
<1>3. SUFFICES BatchRight(c)' /\ QueueRight(c)'
  BY <1>1, <1>2, OtherKept DEF IndInv, Right
<1>4. batch[c] \in Seq(Item) /\ answer[c] \in Seq(BOOLEAN) /\ queue[c] \in Seq(Item \cup {Recipe})
  BY DEF IndInv, TypeOK, PowTypes, SenderTypes
<1>5. BatchRight(c)
  BY DEF IndInv
<1>6. CASE Collect(c) \/ LastBatch(c) \/ RefuseBatch(c)
  <2>1. UNCHANGED queue /\ powPc'[c] # "asked"
    BY <1>6 DEF Collect, LastBatch, RefuseBatch, IndInv, TypeOK, PowTypes
  <2>2. QED
    BY <1>1, <2>1, QueueKept DEF BatchRight
<1>7. CASE PassRecipe(c)
  <2>1. queue'[c] = Append(queue[c], Recipe) /\ UNCHANGED skipped
    BY <1>7 DEF PassRecipe, IndInv, TypeOK, SenderTypes
  <2>2. QueueRight(c)'
    BY <1>1, <1>4, <2>1 DEF IndInv, QueueRight
  <2>3. QED
    BY <1>1, <1>7, <2>2, BatchKept DEF PassRecipe, powThread
<1>8. CASE Ask(c)
  <2>1. UNCHANGED <<queue, batch>> /\ answer'[c] = <<>> /\ Len(<<>>) = 0 /\ DOMAIN <<>> = {}
    BY <1>8 DEF Ask, IndInv, TypeOK, PowTypes
  <2>2. BatchRight(c)'
    BY <1>4, <2>1 DEF BatchRight
  <2>3. QED BY <1>1, <2>1, <2>2, QueueKept
<1>9. CASE DedupByHash(c)
  <2>1. PICK n \in Nat : n = Len(answer[c])
    BY <1>4
  <2>2. PICK required \in BOOLEAN :
          /\ answer'[c] = Append(answer[c], required)
          /\ batch[c][n + 1].chunk \notin index => required = TRUE
    <3>1. \E required \in IF batch[c][n + 1].chunk \notin index THEN {TRUE} ELSE BOOLEAN :
            answer' = [answer EXCEPT ![c] = Append(@, required)]
      BY <1>9, <2>1 DEF DedupByHash
    <3>2. QED BY <3>1 DEF IndInv, TypeOK, PowTypes
  <2>3. UNCHANGED <<batch, powPc, queue>> /\ powPc[c] = "asked" /\ n < Len(batch[c])
    BY <1>9, <2>1 DEF DedupByHash, powClient
  <2>4. /\ Len(answer'[c]) = n + 1 /\ DOMAIN answer'[c] = 1 .. n + 1
        /\ DOMAIN answer[c] = 1 .. n
        /\ answer'[c][n + 1] = required /\ \A i \in 1 .. n : answer'[c][i] = answer[c][i]
    BY <1>4, <2>1, <2>2, AppendFacts, SeqFacts
  <2>5. \A i \in 1 .. n + 1 : batch[c][i].chunk \in index \/ answer'[c][i] = TRUE
    <3>1. \A i \in 1 .. n : batch[c][i].chunk \in index \/ answer'[c][i] = TRUE
      BY <1>5, <2>3, <2>4 DEF BatchRight
    <3>2. batch[c][n + 1].chunk \in index \/ answer'[c][n + 1] = TRUE
      BY <2>2, <2>4
    <3>3. \A i \in 1 .. n + 1 : i \in 1 .. n \/ i = n + 1
      OBVIOUS
    <3>4. QED BY <3>1, <3>2, <3>3
  <2>6. Len(answer'[c]) <= Len(batch'[c])
    BY <1>4, <2>1, <2>3, <2>4
  <2>7. BatchRight(c)'
    BY <1>1, <2>3, <2>4, <2>5, <2>6 DEF BatchRight
  <2>8. QED
    BY <1>1, <2>3, <2>7, QueueKept
<1>10. CASE Forward(c)
  <2>1. /\ powPc'[c] # "asked" /\ queue'[c] = queue[c] \o Marked(c)
        /\ skipped'[c] = skipped[c] \cup LeftOut(c)
    BY <1>10 DEF Forward, IndInv, TypeOK, PowTypes, SenderTypes
  <2>2. BatchRight(c)'
    BY <2>1 DEF BatchRight
  <2>3. DOMAIN batch[c] = 1 .. Len(batch[c]) /\ DOMAIN answer[c] = DOMAIN batch[c]
    <3>1. Len(answer[c]) = Len(batch[c])
      BY <1>10 DEF Forward
    <3>2. QED BY <1>4, <3>1, SeqFacts
  <2>4. DOMAIN Marked(c) = DOMAIN batch[c] /\ Len(Marked(c)) = Len(batch[c])
        /\ Marked(c) \in Seq(Item)
    <3>1. \A i \in DOMAIN batch[c] : batch[c][i] \in Item
      BY <1>4
    <3>2. \A i \in DOMAIN batch[c] : Marked(c)[i] \in Item
      BY <3>1 DEF Marked, Item, ChunkType
    <3>3. Marked(c) \in [1 .. Len(batch[c]) -> Item]
      BY <2>3, <3>2 DEF Marked
    <3>4. QED BY <1>4, <2>3, <3>3
  <2>5. ASSUME NEW i \in DOMAIN Marked(c)
        PROVE  \/ Marked(c)[i].type = "needUpload"
               \/ Marked(c)[i].chunk \in index \cup skipped'[c]
    <3>1. batch[c][i].chunk \in index \/ answer[c][i] = TRUE
      BY <1>5, <1>10, <2>3, <2>4 DEF Forward, BatchRight
    <3>2. batch[c][i] \in Item
      BY <1>4, <2>4
    <3>3. /\ Marked(c)[i].chunk = batch[c][i].chunk
          /\ i <= needed[c] /\ answer[c][i] = TRUE => Marked(c)[i].type = "needUpload"
          /\ batch[c][i].type = "needUpload" => Marked(c)[i].type = "needUpload"
      BY <2>4, <3>2 DEF Marked, Item, ChunkType
    <3>4. i \in Nat /\ needed[c] \in Nat /\ (i <= needed[c] \/ i > needed[c])
      BY <2>3, <2>4 DEF IndInv, TypeOK, PowTypes
    <3>5. CASE /\ batch[c][i].chunk \notin index /\ i > needed[c]
               /\ batch[c][i].type # "needUpload"
      <4>1. batch[c][i].chunk \in LeftOut(c)
        BY <2>4, <3>1, <3>5 DEF LeftOut
      <4>2. QED BY <2>1, <3>3, <4>1
    <3>6. QED BY <3>1, <3>3, <3>4, <3>5
  <2>6. ASSUME NEW i \in DOMAIN queue'[c], queue'[c][i] # Recipe
        PROVE  queue'[c][i].type = "needUpload" \/ queue'[c][i].chunk \in index \cup skipped'[c]
    <3>1. CASE i <= Len(queue[c])
      <4>1. i \in DOMAIN queue[c] /\ queue'[c][i] = queue[c][i]
        BY <1>4, <2>1, <2>4, <2>6, <3>1
      <4>2. QED BY <1>1, <2>6, <4>1 DEF IndInv, QueueRight
    <3>2. CASE i > Len(queue[c])
      <4>1. i - Len(queue[c]) \in DOMAIN Marked(c)
            /\ queue'[c][i] = Marked(c)[i - Len(queue[c])]
        BY <1>4, <2>1, <2>4, <2>6, <3>2
      <4>2. QED BY <2>5, <4>1
    <3>3. QED
      BY <1>4, <2>1, <2>4, <3>1, <3>2
  <2>7. QED BY <1>1, <2>2, <2>6 DEF QueueRight
<1>11. QED
  BY <1>6, <1>7, <1>8, <1>9, <1>10 DEF PowClientStep

-----------------------------------------------------------------------------
(* The sender *)

\* A message sent covers its chunks and uncovers none.
LEMMA SendCover ==
  ASSUME NEW c \in Client, wire[c] \in Seq(Message), NEW m,
         wire'[c] = Append(wire[c], m), UNCHANGED <<index, pending[c], skipped[c]>>, NEW x
  PROVE  /\ \A k : Covered(c, x, k) => Covered(c, x, k)'
         /\ Covered(c, x, Len(wire[c]) + 1) => Covered(c, x, Len(wire[c]) + 1)'
         /\ m.type = "chunks" /\ x \in ToSet(m.chunks) =>
              Covered(c, x, Len(wire[c]) + 1)'
<1>1. /\ Len(wire[c]) \in Nat /\ DOMAIN wire[c] = 1 .. Len(wire[c])
      /\ DOMAIN wire'[c] = 1 .. Len(wire[c]) + 1
      /\ Len(wire'[c]) = Len(wire[c]) + 1
      /\ wire'[c][Len(wire[c]) + 1] = m
      /\ \A i \in DOMAIN wire[c] : wire'[c][i] = wire[c][i]
  BY SeqFacts, AppendFacts
<1>2. \A k : Covered(c, x, k) => Covered(c, x, k)'
  BY <1>1 DEF Covered
<1>3. Covered(c, x, Len(wire[c]) + 1) => Covered(c, x, Len(wire[c]) + 1)'
  BY <1>1 DEF Covered
<1>4. m.type = "chunks" /\ x \in ToSet(m.chunks) => Covered(c, x, Len(wire[c]) + 1)'
  BY <1>1 DEF Covered
<1>5. QED
  BY <1>2, <1>3, <1>4

LEMMA SendWire ==
  ASSUME IndInv, NEW c \in Client, NEW m,
         wire'[c] = Append(wire[c], m),
         UNCHANGED <<index, pending[c], dataPc[c], link[c], skipped[c]>>,
         sendPc[c] # "dead",
         sendPc[c] = "recipe" => m.type = "recipe",
         m.type = "recipeHead" => sendPc'[c] = "recipe",
         m.type = "recipe" => \A x \in ToSet(m.chunks) : Covered(c, x, Len(wire[c]) + 1)
  PROVE  WireRight(c)'
<1>1. wire[c] \in Seq(Message) /\ WireRight(c)
  BY DEF IndInv, TypeOK, ServerTypes
<1>2. /\ Len(wire[c]) \in Nat /\ DOMAIN wire[c] = 1 .. Len(wire[c])
      /\ DOMAIN wire'[c] = 1 .. Len(wire[c]) + 1
      /\ Len(wire'[c]) = Len(wire[c]) + 1
      /\ wire'[c][Len(wire[c]) + 1] = m
      /\ \A i \in DOMAIN wire[c] : wire'[c][i] = wire[c][i]
  BY <1>1, SeqFacts, AppendFacts
<1>3. link'[c] = "open" /\ (dataPc'[c] # "store" => pending'[c] = <<>>)
  BY <1>1 DEF WireRight
<1>4. ASSUME NEW k \in DOMAIN wire'[c], wire'[c][k].type = "recipe"
      PROVE  \A x \in ToSet(wire'[c][k].chunks) : Covered(c, x, k)'
  <2>1. CASE k = Len(wire[c]) + 1
    BY <1>1, <1>2, <1>4, <2>1, SendCover
  <2>2. CASE k \in DOMAIN wire[c]
    BY <1>1, <1>2, <1>4, <2>2, SendCover DEF WireRight
  <2>3. QED BY <1>2, <2>1, <2>2
<1>5. ASSUME NEW k \in DOMAIN wire'[c], wire'[c][k].type = "recipeHead"
      PROVE  IF k = Len(wire'[c]) THEN sendPc'[c] \in {"recipe", "dead"}
                                  ELSE wire'[c][k + 1].type = "recipe"
  <2>1. CASE k = Len(wire[c]) + 1
    BY <1>2, <1>5, <2>1
  <2>2. CASE k \in DOMAIN wire[c] /\ k = Len(wire[c])
    <3>1. sendPc[c] = "recipe"
      BY <1>1, <1>2, <1>5, <2>2 DEF WireRight
    <3>2. QED BY <1>2, <2>2, <3>1
  <2>3. CASE k \in DOMAIN wire[c] /\ k # Len(wire[c])
    <3>1. k + 1 \in DOMAIN wire[c] /\ wire[c][k + 1].type = "recipe"
      BY <1>1, <1>2, <1>5, <2>3 DEF WireRight
    <3>2. QED BY <1>2, <2>3, <3>1
  <2>4. QED BY <1>2, <2>1, <2>2, <2>3
<1>6. dataPc'[c] = "recipe" => wire'[c] # <<>> /\ wire'[c][1].type = "recipe"
  <2> SUFFICES ASSUME dataPc[c] = "recipe"
               PROVE  wire'[c] # <<>> /\ wire'[c][1].type = "recipe"
    OBVIOUS
  <2>1. wire'[c] # <<>>
    BY <1>1
  <2>2. CASE wire[c] = <<>>
    <3>1. sendPc[c] = "recipe" /\ Len(wire[c]) = 0
      BY <1>1, <2>2 DEF WireRight
    <3>2. QED BY <1>2, <2>1, <3>1
  <2>3. CASE wire[c] # <<>>
    <3>1. wire[c][1].type = "recipe" /\ 1 \in DOMAIN wire[c]
      BY <1>1, <2>3 DEF WireRight
    <3>2. QED BY <1>2, <2>1, <3>1
  <2>4. QED BY <2>2, <2>3
<1>7. QED
  BY <1>3, <1>4, <1>5, <1>6 DEF WireRight

LEMMA SenderInd ==
  ASSUME IndInv, TypeOK', NEW c \in Client, SenderStep(c)
  PROVE  IndInv'
<1> USE DEF Step
<1>1. /\ UNCHANGED <<batch, powPc, answer, needed, link, pending, dataPc, index, recipes, skipped>>
      /\ \A d \in Client \ {c} :
           UNCHANGED <<queue[d], list[d], buffer[d], sendPc[d], wire[d]>>
  <2>1. UNCHANGED <<powClient, powThread, dataThread, server, link>>
    BY DEF SenderStep, TakeRecipe, TakeChunk, SendRest, SendRecipeHead, SendRecipe,
           SendEndFlag, Finish, Send, connection
  <2>2. /\ DOMAIN queue = Client /\ DOMAIN list = Client /\ DOMAIN buffer = Client
        /\ DOMAIN sendPc = Client /\ DOMAIN wire = Client
    BY DEF IndInv, TypeOK, SenderTypes, ServerTypes
  <2>3. ASSUME NEW d \in Client \ {c}
        PROVE  UNCHANGED <<queue[d], list[d], buffer[d], sendPc[d], wire[d]>>
    BY <2>2 DEF SenderStep, TakeRecipe, TakeChunk, SendRest, SendRecipeHead, SendRecipe,
                SendEndFlag, Finish, Send, connection, sender
  <2>4. QED BY <2>1, <2>3 DEF powClient, powThread, dataThread, server
<1>2. BatchRight(c)' /\ Restorable'
  BY <1>1, BatchKept, RestorableKept
<1>3. SUFFICES QueueRight(c)' /\ ListRight(c)' /\ WireRight(c)'
  BY <1>1, <1>2, OtherKept DEF IndInv, Right
<1>4. /\ queue[c] \in Seq(Item \cup {Recipe}) /\ wire[c] \in Seq(Message)
      /\ list[c] \in Seq(Chunk) /\ buffer[c] \in Seq(Chunk)
  BY DEF IndInv, TypeOK, SenderTypes, ServerTypes
<1>5. QueueRight(c) /\ ListRight(c) /\ WireRight(c)
  BY DEF IndInv
<1>6. CASE TakeRecipe(c) \/ TakeChunk(c)
  <2>1. queue'[c] = Tail(queue[c]) /\ queue[c] # <<>> /\ sendPc[c] = "run" /\ sendPc'[c] = "run"
    BY <1>6 DEF TakeRecipe, TakeChunk, IndInv, TypeOK, SenderTypes
  <2>2. QueueRight(c)'
    <3> SUFFICES ASSUME NEW i \in DOMAIN Tail(queue[c]), Tail(queue[c])[i] # Recipe
                 PROVE  \/ Tail(queue[c])[i].type = "needUpload"
                        \/ Tail(queue[c])[i].chunk \in index \cup skipped[c]
      BY <1>1, <2>1 DEF QueueRight
    <3>1. i + 1 \in DOMAIN queue[c] /\ queue[c][i + 1] = Tail(queue[c])[i]
      BY <1>4, <2>1
    <3>2. QED BY <1>5, <3>1 DEF QueueRight
  <2>3. CASE TakeRecipe(c)
    <3>1. UNCHANGED <<list, buffer, wire>>
      BY <2>3 DEF TakeRecipe, connection
    <3>2. dataPc'[c] # "store" => pending'[c] = <<>>
      BY <1>1, <1>5 DEF WireRight
    <3>3. QED
      BY <1>1, <2>1, <2>2, <3>1, <3>2, ListKept, WireKept
  <2>4. CASE TakeChunk(c)
    <3> DEFINE item == Head(queue[c])
               chunks == IF item.type = "needUpload" THEN Append(buffer[c], item.chunk)
                                                     ELSE buffer[c]
    <3>1. item \in Item /\ item.chunk \in Chunk
      <4>1. item \in Item
        BY <1>4, <2>4 DEF TakeChunk
      <4>2. QED BY <4>1 DEF Item
    <3>2. item.type = "needUpload" \/ item.chunk \in index \cup skipped[c]
      <4>1. 1 \in DOMAIN queue[c] /\ queue[c][1] = item /\ item # Recipe
        BY <1>4, <2>4 DEF TakeChunk
      <4>2. QED BY <1>5, <4>1 DEF QueueRight
    <3>3. ToSet(list'[c]) = ToSet(list[c]) \cup {item.chunk}
      <4>1. list'[c] = Append(list[c], item.chunk)
        BY <2>4 DEF TakeChunk, IndInv, TypeOK, SenderTypes
      <4>2. QED BY <1>4, <3>1, <4>1, AppendSet
    <3>4. /\ ToSet(buffer[c]) \subseteq ToSet(chunks)
          /\ item.type = "needUpload" => item.chunk \in ToSet(chunks)
      BY <1>4, <3>1, AppendSet
    <3>5. ASSUME NEW x \in ToSet(list'[c])
          PROVE  x \in ToSet(chunks) \/ Covered(c, x, Len(wire[c]) + 1)
      <4>1. CASE x \in ToSet(list[c])
        BY <1>5, <2>1, <3>4, <4>1 DEF ListRight
      <4>2. CASE x = item.chunk
        BY <3>2, <3>4, <4>2 DEF Covered
      <4>3. QED BY <3>3, <4>1, <4>2
    <3>6. CASE Len(chunks) = SendBatchSize
      <4> DEFINE m == Msg("chunks", NoFile, chunks)
      <4>1. wire'[c] = Append(wire[c], m) /\ buffer'[c] = <<>>
        BY <2>4, <3>6 DEF TakeChunk, Send, IndInv, TypeOK, SenderTypes, ServerTypes
      <4>2. m.type = "chunks" /\ m.chunks = chunks
        BY DEF Msg
      <4> HIDE DEF m, chunks
      <4>4. \A x \in ToSet(list'[c]) : Covered(c, x, Len(wire[c]) + 1)'
        BY <1>1, <1>4, <3>5, <4>1, <4>2, SendCover
      <4>5. ListRight(c)'
        BY <2>1, <4>1, <4>4 DEF ListRight
      <4>6. WireRight(c)'
        BY <1>1, <2>1, <4>1, <4>2, SendWire
      <4>7. QED BY <2>2, <4>5, <4>6
    <3>7. CASE Len(chunks) # SendBatchSize
      <4>1. UNCHANGED wire /\ buffer'[c] = chunks
        BY <2>4, <3>7 DEF TakeChunk, connection, IndInv, TypeOK, SenderTypes
      <4> HIDE DEF chunks
      <4>2. \A x \in ToSet(list'[c]) :
              x \in ToSet(buffer'[c]) \/ Covered(c, x, Len(wire[c]) + 1)'
        BY <1>1, <3>5, <4>1 DEF Covered
      <4>3. ListRight(c)'
        BY <2>1, <4>2 DEF ListRight
      <4>4. dataPc'[c] # "store" => pending'[c] = <<>>
        BY <1>1, <1>5 DEF WireRight
      <4>5. WireRight(c)'
        BY <1>1, <2>1, <4>1, <4>4, WireKept
      <4>6. QED BY <2>2, <4>3, <4>5
    <3>8. QED BY <3>6, <3>7
  <2>5. QED BY <1>6, <2>3, <2>4
<1>7. CASE SendRest(c)
  <2> DEFINE m == Msg("chunks", NoFile, buffer[c])
  <2>1. /\ sendPc[c] = "run" /\ sendPc'[c] = "recipeHead" /\ list' = list /\ queue' = queue
        /\ buffer'[c] = <<>> /\ wire'[c] = Append(wire[c], m)
    BY <1>7 DEF SendRest, Send, IndInv, TypeOK, SenderTypes, ServerTypes
  <2>2. m.type = "chunks" /\ m.chunks = buffer[c]
    BY DEF Msg
  <2> HIDE DEF m
  <2>4. \A x \in ToSet(list'[c]) : Covered(c, x, Len(wire[c]) + 1)'
    BY <1>1, <1>4, <1>5, <2>1, <2>2, SendCover DEF ListRight
  <2>5. ListRight(c)'
    BY <2>1, <2>4 DEF ListRight
  <2>6. WireRight(c)'
    BY <1>1, <2>1, <2>2, SendWire
  <2>7. QED BY <1>1, <2>1, <2>5, <2>6, QueueKept
<1>8. CASE SendRecipeHead(c)
  <2> DEFINE m == Msg("recipeHead", NoFile, <<>>)
  <2>1. /\ sendPc[c] = "recipeHead" /\ sendPc'[c] = "recipe"
        /\ UNCHANGED <<list, queue, buffer>> /\ wire'[c] = Append(wire[c], m)
    BY <1>8 DEF SendRecipeHead, Send, IndInv, TypeOK, SenderTypes, ServerTypes
  <2>2. m.type = "recipeHead"
    BY DEF Msg
  <2> HIDE DEF m
  <2>4. buffer'[c] = <<>>
    BY <1>5, <2>1 DEF ListRight
  <2>5. \A x \in ToSet(list'[c]) : Covered(c, x, Len(wire[c]) + 1)'
    BY <1>1, <1>4, <1>5, <2>1, <2>4, EmptySet, SendCover DEF ListRight
  <2>6. ListRight(c)'
    BY <2>1, <2>4, <2>5 DEF ListRight
  <2>7. WireRight(c)'
    BY <1>1, <2>1, <2>2, SendWire
  <2>8. QED BY <1>1, <2>1, <2>6, <2>7, QueueKept
<1>9. CASE SendRecipe(c)
  <2> DEFINE m == Msg("recipe", head[c], list[c])
  <2>1. /\ sendPc[c] = "recipe" /\ sendPc'[c] = "end"
        /\ UNCHANGED <<list, queue, buffer>> /\ wire'[c] = Append(wire[c], m)
    BY <1>9 DEF SendRecipe, Send, IndInv, TypeOK, SenderTypes, ServerTypes
  <2>2. m.type = "recipe" /\ m.chunks = list[c]
    BY DEF Msg
  <2> HIDE DEF m
  <2>3. \A x \in ToSet(m.chunks) : Covered(c, x, Len(wire[c]) + 1)
    BY <1>5, <2>1, <2>2, EmptySet DEF ListRight
  <2>4. WireRight(c)'
    BY <1>1, <2>1, <2>2, <2>3, SendWire
  <2>5. ListRight(c)'
    BY <2>1 DEF ListRight
  <2>6. QED BY <1>1, <2>1, <2>4, <2>5, QueueKept
<1>10. CASE SendEndFlag(c)
  <2> DEFINE m == Msg("exit", NoFile, <<>>)
  <2>1. /\ sendPc[c] = "end" /\ sendPc'[c] = "permit"
        /\ UNCHANGED <<list, queue, buffer>> /\ wire'[c] = Append(wire[c], m)
    BY <1>10 DEF SendEndFlag, Send, IndInv, TypeOK, SenderTypes, ServerTypes
  <2>2. m.type = "exit"
    BY DEF Msg
  <2> HIDE DEF m
  <2>3. WireRight(c)'
    BY <1>1, <2>1, <2>2, SendWire
  <2>4. ListRight(c)'
    BY <2>1 DEF ListRight
  <2>5. QED BY <1>1, <2>1, <2>3, <2>4, QueueKept
<1>11. CASE Finish(c)
  <2>1. /\ sendPc[c] = "permit" /\ sendPc'[c] = "finished"
        /\ UNCHANGED <<list, queue, buffer, wire>>
    BY <1>11 DEF Finish, connection, IndInv, TypeOK, SenderTypes
  <2>2. ListRight(c)'
    BY <2>1 DEF ListRight
  <2>3. WireRight(c)'
    BY <1>1, <1>5, <2>1 DEF WireRight, Covered
  <2>4. QED BY <1>1, <2>1, <2>2, <2>3, QueueKept
<1>12. QED
  BY <1>6, <1>7, <1>8, <1>9, <1>10, <1>11 DEF SenderStep

-----------------------------------------------------------------------------
(* The data thread *)

\* A recipe whose chunks are stored may be appended.
LEMMA RestorableGrows ==
  ASSUME recipes \in [FileNames -> Seq(Seq(Chunk))], Restorable, UNCHANGED <<index, skipped>>,
         NEW n \in FileNames, NEW r \in Seq(Chunk),
         NEW c \in Client, ToSet(r) \subseteq index \cup skipped[c],
         recipes' = [recipes EXCEPT ![n] = Append(@, r)]
  PROVE  Restorable'
<1>1. ASSUME NEW f \in FileNames, NEW i \in DOMAIN recipes'[f]
      PROVE  \E d \in Client : ToSet(recipes'[f][i]) \subseteq index \cup skipped[d]
  <2>1. recipes[f] \in Seq(Seq(Chunk))
    OBVIOUS
  <2>2. CASE f # n
    BY <1>1, <2>2 DEF Restorable
  <2>3. CASE f = n
    <3>1. recipes'[f] = Append(recipes[f], r)
      BY <2>3
    <3>2. i \in DOMAIN recipes[f] => recipes'[f][i] = recipes[f][i]
      BY <2>1, <3>1, AppendFacts
    <3>3. i \notin DOMAIN recipes[f] => recipes'[f][i] = r
      BY <1>1, <2>1, <3>1
    <3>4. QED BY <3>2, <3>3 DEF Restorable
  <2>4. QED BY <2>2, <2>3
<1>2. QED
  BY <1>1 DEF Restorable, FileNames

LEMMA DataFrame ==
  ASSUME IndInv, NEW c \in Client, DataStep(c)
  PROVE  /\ UNCHANGED <<batch, powPc, answer, needed, queue, list, buffer, sendPc, link, skipped>>
         /\ index \subseteq index'
         /\ \A d \in Client \ {c} : UNCHANGED <<wire[d], pending[d], dataPc[d]>>
<1> USE DEF DataStep, Receive, StoreOne, Stored, StoreRecipe, HangUp, ReadReset,
            StoreJunkRecipe, Step
<1>1. UNCHANGED <<powClient, powThread, queue, sender, link>>
  BY DEF connection
<1>2. index \subseteq index'
  BY DEF server
<1>3. DOMAIN wire = Client /\ DOMAIN pending = Client /\ DOMAIN dataPc = Client
  BY DEF IndInv, TypeOK, ServerTypes
<1>4. ASSUME NEW d \in Client \ {c}
      PROVE  UNCHANGED <<wire[d], pending[d], dataPc[d]>>
  BY <1>3 DEF Dispatch, connection
<1>5. QED
  BY <1>1, <1>2, <1>4 DEF powClient, powThread, sender

\* Taking the first message off the wire.
LEMMA TailRight ==
  ASSUME IndInv, NEW c \in Client, wire[c] # <<>>, wire'[c] = Tail(wire[c]),
         UNCHANGED <<link[c], sendPc[c], list[c], buffer[c]>>,
         index \cup ToSet(pending[c]) \subseteq index' \cup ToSet(pending'[c]),
         skipped[c] \subseteq skipped'[c],
         Head(wire[c]).type = "chunks" =>
           ToSet(Head(wire[c]).chunks) \subseteq ToSet(pending'[c]),
         dataPc'[c] # "store" => pending'[c] = <<>>,
         dataPc'[c] = "recipe" => Head(wire[c]).type = "recipeHead"
  PROVE  ListRight(c)' /\ WireRight(c)'
<1>1. wire[c] \in Seq(Message) /\ WireRight(c) /\ ListRight(c)
  BY DEF IndInv, TypeOK, ServerTypes
<1>2. PICK n \in Nat : Len(wire[c]) = n + 1
  <2>1. Len(wire[c]) \in Nat /\ Len(wire[c]) # 0
    BY <1>1
  <2>2. QED BY <2>1, Successor
<1>3. /\ DOMAIN wire[c] = 1 .. n + 1 /\ Len(wire'[c]) = n /\ DOMAIN wire'[c] = 1 .. n
      /\ \A k \in 1 .. n : wire'[c][k] = wire[c][k + 1]
      /\ Head(wire[c]) = wire[c][1]
  BY <1>1, <1>2
<1>4. \A k \in Nat : \A x : Covered(c, x, k + 1) => Covered(c, x, k)'
  BY <1>1, CoverShift
<1>5. ListRight(c)'
  <2>1. n + 1 \in Nat
    OBVIOUS
  <2>2. \A x : Covered(c, x, (n + 1) + 1) => Covered(c, x, n + 1)'
    BY <1>4, <2>1
  <2>3. QED BY <1>1, <1>2, <1>3, <2>2 DEF ListRight
<1>6. ASSUME NEW k \in 1 .. n, wire'[c][k].type = "recipe"
      PROVE  \A x \in ToSet(wire'[c][k].chunks) : Covered(c, x, k)'
  <2>1. k \in Nat /\ k + 1 \in 1 .. n + 1
    OBVIOUS
  <2>2. QED BY <1>1, <1>3, <1>4, <1>6, <2>1 DEF WireRight
<1>7. ASSUME NEW k \in 0 .. n, wire[c][k + 1].type = "recipeHead"
      PROVE  IF k = n THEN sendPc'[c] \in {"recipe", "dead"}
                      ELSE wire'[c][k + 1].type = "recipe"
  <2>1. k + 1 \in 1 .. n + 1 /\ (k + 1 = n + 1 <=> k = n)
    OBVIOUS
  <2>2. IF k = n THEN sendPc[c] \in {"recipe", "dead"}
                 ELSE wire[c][(k + 1) + 1].type = "recipe"
    BY <1>1, <1>2, <1>3, <1>7, <2>1 DEF WireRight
  <2>3. k # n => k + 1 \in 1 .. n
    OBVIOUS
  <2>4. QED BY <1>3, <2>2, <2>3
<1>8. dataPc'[c] = "recipe" => IF wire'[c] = <<>> THEN sendPc'[c] \in {"recipe", "dead"}
                                                 ELSE wire'[c][1].type = "recipe"
  <2>1. wire'[c] = <<>> <=> n = 0
    <3>1. Tail(wire[c]) \in Seq(Message)
      BY <1>1
    <3>2. QED BY <1>3, <3>1, EmptyLen
  <2>2. 0 \in 0 .. n /\ 0 + 1 = 1
    OBVIOUS
  <2>3. QED BY <1>3, <1>7, <2>1, <2>2
<1>9. \A k \in 1 .. n : k \in 0 .. n /\ (wire'[c][k].type = "recipeHead" =>
        IF k = n THEN sendPc'[c] \in {"recipe", "dead"} ELSE wire'[c][k + 1].type = "recipe")
  BY <1>3, <1>7
<1>10. link'[c] # "open" => sendPc'[c] = "dead"
  BY <1>1 DEF WireRight
<1>11. QED
  BY <1>3, <1>5, <1>6, <1>8, <1>9, <1>10 DEF WireRight

LEMMA DataInd ==
  ASSUME IndInv, TypeOK', NEW c \in Client, DataStep(c)
  PROVE  IndInv'
<1> USE DEF Step
<1>1. /\ UNCHANGED <<batch, powPc, answer, needed, queue, list, buffer, sendPc, link, skipped>>
      /\ index \subseteq index'
      /\ \A d \in Client \ {c} : UNCHANGED <<wire[d], pending[d], dataPc[d]>>
  BY DataFrame
<1>2. BatchRight(c)' /\ QueueRight(c)'
  BY <1>1, BatchKept, QueueKept
<1>3. SUFFICES Restorable' /\ ListRight(c)' /\ WireRight(c)'
  BY <1>1, <1>2, OtherKept DEF IndInv, Right
<1>4. /\ wire[c] \in Seq(Message) /\ pending[c] \in Seq(Chunk)
      /\ pending \in [Client -> Seq(Chunk)] /\ DOMAIN dataPc = Client /\ DOMAIN wire = Client
  BY DEF IndInv, TypeOK, ServerTypes
<1>5. WireRight(c)
  BY DEF IndInv
<1>6. CASE Receive(c)
  <2>1. /\ wire[c] # <<>> /\ wire'[c] = Tail(wire[c]) /\ pending[c] = <<>>
        /\ UNCHANGED <<index, recipes>>
    BY <1>4, <1>5, <1>6 DEF Receive, server, WireRight
  <2>2. /\ Head(wire[c]).type = "chunks" => pending'[c] = Head(wire[c]).chunks
        /\ dataPc'[c] # "store" => pending'[c] = <<>>
        /\ dataPc'[c] = "recipe" => Head(wire[c]).type = "recipeHead"
    BY <1>4, <1>6 DEF Receive, Dispatch
  <2>3. index \cup ToSet(pending[c]) \subseteq index' \cup ToSet(pending'[c])
    BY <2>1, EmptySet
  <2>4. QED
    BY <1>1, <2>1, <2>2, <2>3, TailRight, RestorableKept
<1>7. CASE ReadReset(c)
  <2>1. /\ UNCHANGED <<wire, index, recipes>> /\ pending[c] = <<>>
        /\ wire[c] = <<>> /\ link[c] # "open"
    BY <1>5, <1>7 DEF ReadReset, server, connection, WireRight
  <2>2. dataPc'[c] # "store" => pending'[c] = <<>>
    BY <1>4, <1>7 DEF ReadReset, Dispatch
  <2>3. index \cup ToSet(pending[c]) \subseteq index' \cup ToSet(pending'[c])
    BY <2>1, EmptySet
  <2>4. QED
    BY <1>1, <2>1, <2>2, <2>3, ListKept, WireKept, RestorableKept
<1>8. CASE StoreOne(c)
  <2>1. /\ UNCHANGED <<wire, dataPc, recipes>> /\ dataPc[c] = "store" /\ pending[c] # <<>>
        /\ index' = index \cup {Head(pending[c])} /\ pending'[c] = Tail(pending[c])
    BY <1>4, <1>8 DEF StoreOne, connection
  <2>2. index \cup ToSet(pending[c]) \subseteq index' \cup ToSet(pending'[c])
    BY <1>4, <2>1, TailSet
  <2>3. QED
    BY <1>1, <2>1, <2>2, ListKept, WireKept, RestorableKept
<1>9. CASE Stored(c) \/ HangUp(c) \/ StoreJunkRecipe(c)
  <2>1. /\ UNCHANGED <<wire, pending, index>> /\ pending[c] = <<>>
        /\ dataPc'[c] # "recipe"
    BY <1>4, <1>5, <1>9 DEF Stored, HangUp, StoreJunkRecipe, server, connection, WireRight
  <2>2. Restorable'
    <3>1. CASE UNCHANGED recipes
      BY <1>1, <2>1, <3>1, RestorableKept
    <3>2. ASSUME NEW f \in FileNames, NEW i \in DOMAIN recipes[f],
                 recipes' = [recipes EXCEPT ![f] = Append(@, recipes[f][i])]
          PROVE  Restorable'
      <4>1. recipes \in [FileNames -> Seq(Seq(Chunk))] /\ Restorable
        BY DEF IndInv, TypeOK, ServerTypes
      <4>2. PICK d \in Client : ToSet(recipes[f][i]) \subseteq index \cup skipped[d]
        BY <4>1 DEF Restorable
      <4>3. recipes[f][i] \in Seq(Chunk)
        BY <4>1
      <4>4. QED BY <1>1, <2>1, <3>2, <4>1, <4>2, <4>3, RestorableGrows
    <3>3. QED BY <1>9, <3>1, <3>2 DEF Stored, HangUp, StoreJunkRecipe, server
  <2>3. QED
    BY <1>1, <2>1, <2>2, ListKept, WireKept
<1>10. CASE StoreRecipe(c)
  <2> DEFINE m == Head(wire[c])
  <2>1. /\ wire[c] # <<>> /\ wire'[c] = Tail(wire[c]) /\ dataPc[c] = "recipe"
        /\ pending[c] = <<>> /\ UNCHANGED <<pending, index>> /\ dataPc'[c] = "recv"
        /\ recipes' = [recipes EXCEPT ![m.name] = Append(@, m.chunks)]
    BY <1>4, <1>5, <1>10 DEF StoreRecipe, WireRight
  <2>2. m.type = "recipe" /\ m = wire[c][1] /\ 1 \in DOMAIN wire[c] /\ m \in Message
    BY <1>4, <1>5, <2>1 DEF WireRight
  <2>3. ToSet(m.chunks) \subseteq index \cup skipped[c]
    <3>1. \A x \in ToSet(m.chunks) : Covered(c, x, 1)
      BY <1>5, <2>2 DEF WireRight
    <3>2. ASSUME NEW x, Covered(c, x, 1) PROVE x \in index \cup skipped[c]
      BY <1>4, <2>1, <3>2, EmptySet DEF Covered
    <3>3. QED BY <3>1, <3>2
  <2>4. Restorable'
    <3>1. m.chunks \in Seq(Chunk) /\ m.name \in FileNames
      BY <2>2 DEF Message
    <3>2. recipes \in [FileNames -> Seq(Seq(Chunk))] /\ Restorable
      BY DEF IndInv, TypeOK, ServerTypes
    <3> HIDE DEF m
    <3>3. QED BY <1>1, <2>1, <2>3, <3>1, <3>2, RestorableGrows
  <2>5. QED
    BY <1>1, <2>1, <2>2, <2>4, TailRight
<1>11. QED
  BY <1>6, <1>7, <1>8, <1>9, <1>10 DEF DataStep

LEMMA DieInd ==
  ASSUME IndInv, TypeOK', NEW c \in Client, Die(c)
  PROVE  IndInv'
<1>1. /\ UNCHANGED <<batch, answer, needed, queue, list, buffer, pending, dataPc, index, recipes,
                      skipped>>
      /\ \A d \in Client \ {c} : UNCHANGED <<powPc[d], sendPc[d], wire[d], link[d]>>
  <2>1. /\ DOMAIN powPc = Client /\ DOMAIN sendPc = Client /\ DOMAIN wire = Client
        /\ DOMAIN link = Client
    BY DEF IndInv, TypeOK, PowTypes, SenderTypes, ServerTypes
  <2>2. QED BY <2>1 DEF Die, powThread, dataThread, server
<1>2. powPc'[c] = "dead" /\ sendPc'[c] = "dead"
  BY DEF Die, IndInv, TypeOK, PowTypes, SenderTypes
<1>3. BatchRight(c)' /\ QueueRight(c)' /\ ListRight(c)' /\ Restorable'
  BY <1>1, <1>2, QueueKept, RestorableKept DEF IndInv, BatchRight, ListRight
<1>4. WireRight(c)'
  <2>1. wire[c] \in Seq(Message) /\ WireRight(c)
    BY DEF IndInv, TypeOK, ServerTypes
  <2>2. PICK n \in 0 .. Len(wire[c]) : wire'[c] = SubSeq(wire[c], 1, n)
    BY DEF Die, IndInv, TypeOK, ServerTypes
  <2>3. /\ n \in Nat /\ DOMAIN wire'[c] = 1 .. n /\ Len(wire'[c]) = n
        /\ DOMAIN wire[c] = 1 .. Len(wire[c]) /\ Len(wire[c]) \in Nat
        /\ \A k \in 1 .. n : k \in DOMAIN wire[c] /\ wire'[c][k] = wire[c][k]
    BY <2>1, <2>2
  <2>4. ASSUME NEW k \in DOMAIN wire'[c], NEW x, Covered(c, x, k)
        PROVE  Covered(c, x, k)'
    <3>1. \A j \in DOMAIN wire[c] : j < k => j \in DOMAIN wire'[c] /\ wire'[c][j] = wire[c][j]
      BY <2>3
    <3>2. QED BY <1>1, <2>4, <3>1, CoverGrows
  <2>5. ASSUME NEW k \in DOMAIN wire'[c], wire'[c][k].type = "recipeHead", k # Len(wire'[c])
        PROVE  wire'[c][k + 1].type = "recipe"
    <3>1. /\ k \in DOMAIN wire[c] /\ k # Len(wire[c]) /\ wire'[c][k] = wire[c][k]
          /\ k + 1 \in 1 .. n
      BY <2>3, <2>5
    <3>2. wire[c][k + 1].type = "recipe"
      BY <2>1, <2>5, <3>1 DEF WireRight
    <3>3. QED BY <2>3, <3>1, <3>2
  <2>6. wire'[c] # <<>> => wire[c] # <<>> /\ wire'[c][1] = wire[c][1]
    BY <2>1, <2>2
  <2>7. QED
    BY <1>1, <1>2, <2>1, <2>3, <2>4, <2>5, <2>6 DEF WireRight
<1>5. QED
  BY <1>1, <1>3, <1>4, OtherKept DEF IndInv, Right

-----------------------------------------------------------------------------
LEMMA IndInit ==
  ASSUME Init
  PROVE  IndInv
<1>1. TypeOK /\ Restorable
  BY TypeInit DEF Init, Restorable
<1>2. ASSUME NEW c \in Client
      PROVE  BatchRight(c) /\ QueueRight(c) /\ ListRight(c) /\ WireRight(c)
  <2>1. Len(<<>>) = 0 /\ DOMAIN <<>> = {} /\ ToSet(<<>>) = {}
    BY EmptySet
  <2>2. QED
    BY <2>1 DEF Init, BatchRight, QueueRight, ListRight, WireRight, NoMsg, Msg
<1>3. QED
  BY <1>1, <1>2 DEF IndInv

LEMMA IndStep ==
  ASSUME IndInv, [Next]_vars
  PROVE  IndInv'
<1>1. TypeOK'
  BY TypeStep DEF IndInv
<1>2. CASE UNCHANGED vars
  <2>1. UNCHANGED <<batch, powPc, answer, needed, queue, list, buffer, sendPc, wire, link,
                    pending, dataPc, index, recipes, skipped>>
    BY <1>2 DEF vars, powClient, powThread, sender, connection, dataThread, server
  <2>2. QED
    BY <1>1, <2>1, OtherKept, RestorableKept DEF IndInv, Right
<1>3. QED
  BY <1>1, <1>2, PowStep, SenderInd, DataInd, DieInd DEF Next

\* The inductive invariant, for batches of any size: the batch and its answer, the recipe under way,
\* the chunks on their way and those stored or left out fit together at every moment.
THEOREM SessionsInOrder == Spec => []IndInv
<1>1. IndInv /\ [Next]_vars => IndInv'
  BY IndStep
<1>2. QED
  BY <1>1, IndInit, PTL DEF Spec

\* Every chunk of a stored recipe is stored or is one that its client's marking loop left out,
\* whatever clients, files, batches, faults and interleavings.
THEOREM RecipesRestorable == Spec => []Restorable
<1>1. IndInv => Restorable
  BY DEF IndInv
<1>2. QED
  BY <1>1, SessionsInOrder, PTL

-----------------------------------------------------------------------------
(* Whole recipes: no batch is refused, and a batch has any size. *)

\* The place among the chunks of item i of a queue whose recipe head is at r (0: it has none).
Place(r, i) == IF r # 0 /\ r < i THEN i - 1 ELSE i

\* What is listed, queued, in the batch and still to come is the file, and the recipe head is at
\* its end, in the queue, or has been taken.
Carried(c, r) ==
  LET n == Len(list[c])
      m == n + Place(r, Len(queue[c]) + 1) - 1
      k == m + Len(batch[c])
  IN
  /\ \A i \in DOMAIN list[c] : list[c][i] = File[c][i]
  /\ \A i \in DOMAIN queue[c] :
       /\ queue[c][i] = Recipe <=> i = r
       /\ i # r => queue[c][i].chunk = File[c][n + Place(r, i)]
  /\ \A i \in DOMAIN batch[c] : batch[c][i].chunk = File[c][m + i]
  /\ \A i \in DOMAIN todo[c] :
       todo[c][i] = IF i = Len(todo[c]) THEN Recipe ELSE File[c][k + i]
  /\ IF todo[c] = <<>>
       THEN Len(File[c]) = k /\ (r # 0 \/ head[c] = FileName[c])
       ELSE Len(File[c]) = k + Len(todo[c]) - 1 /\ r = 0

\* While the sender runs nothing of the file gets lost, and powClient is done when it has passed
\* everything on.
Going(c) ==
  sendPc[c] = "run" =>
    /\ \E r \in 0 .. Len(queue[c]) : Carried(c, r)
    /\ last[c] => todo[c] = <<>>
    /\ done[c] => powPc[c] = "over"
    /\ powPc[c] = "over" => todo[c] = <<>> /\ batch[c] = <<>>

\* So what it then has is the recipe.
Listed(c) ==
  sendPc[c] \in {"recipeHead", "recipe"} => head[c] = FileName[c] /\ list[c] = File[c]

\* The recipe comes right after its head, and the exit last.
InOrder(c) ==
  /\ link[c] # "open" => sendPc[c] = "dead"
  /\ \A k \in DOMAIN wire[c] :
       /\ wire[c][k].type = "recipe" =>
            /\ wire[c][k].name = FileName[c] /\ wire[c][k].chunks = File[c]
            /\ IF k = 1 THEN dataPc[c] = "recipe" ELSE wire[c][k - 1].type = "recipeHead"
       /\ wire[c][k].type = "recipeHead" =>
            IF k = Len(wire[c]) THEN sendPc[c] \in {"recipe", "dead"}
                                ELSE wire[c][k + 1].type = "recipe"
       /\ wire[c][k].type = "exit" => k = Len(wire[c]) /\ sendPc[c] \in {"permit", "dead"}
  /\ dataPc[c] = "recipe" =>
       IF wire[c] = <<>> THEN sendPc[c] \in {"recipe", "dead"}
                         ELSE wire[c][1].type = "recipe"
  /\ sendPc[c] = "recipe" =>
       IF wire[c] = <<>> THEN dataPc[c] = "recipe"
                         ELSE wire[c][Len(wire[c])].type = "recipeHead"

\* The recipe of client c is at the server.
Kept(c) == \E i \in DOMAIN recipes[FileName[c]] : recipes[FileName[c]][i] = File[c]

\* The server thread exits when it has the recipe, and then the client.
Leaving(c) ==
  /\ dataPc[c] = "exited" /\ sendPc[c] # "dead" =>
       wire[c] = <<>> /\ sendPc[c] \in {"permit", "finished"}
  /\ sendPc[c] \in {"end", "permit"} =>
       Kept(c) \/ \E k \in DOMAIN wire[c] : wire[c][k].type = "recipe"
  /\ sendPc[c] = "finished" => Kept(c)

\* The strengthening of WholeRecipe and of FinishedIsStored.
WholeInv ==
  /\ TypeOK /\ WholeRecipe
  /\ \A c \in Client : Going(c) /\ Listed(c) /\ InOrder(c) /\ Leaving(c)

LEMMA GoingKept ==
  ASSUME NEW c \in Client, Going(c), sendPc'[c] = sendPc[c],
         UNCHANGED <<list[c], queue[c], batch[c], todo[c], head[c], last[c], done[c], powPc[c]>>
  PROVE  Going(c)'
BY DEF Going, Carried

LEMMA ListedKept ==
  ASSUME NEW c \in Client, Listed(c), UNCHANGED <<list[c], head[c], sendPc[c]>>
  PROVE  Listed(c)'
BY DEF Listed

LEMMA OrderKept ==
  ASSUME NEW c \in Client, InOrder(c), UNCHANGED <<wire[c], link[c], sendPc[c], dataPc[c]>>
  PROVE  InOrder(c)'
BY DEF InOrder

LEMMA LeavingKept ==
  ASSUME NEW c \in Client, Leaving(c), UNCHANGED <<wire[c], sendPc[c], dataPc[c]>>,
         Kept(c) => Kept(c)'
  PROVE  Leaving(c)'
<1> HIDE DEF Kept
<1>1. QED
  BY DEF Leaving

Whole(c) == Going(c) /\ Listed(c) /\ InOrder(c) /\ Leaving(c)

LEMMA WholeKept ==
  ASSUME NEW c \in Client, Whole(c), Kept(c) => Kept(c)',
         UNCHANGED <<list[c], queue[c], batch[c], todo[c], head[c], last[c], done[c], powPc[c],
                     sendPc[c], wire[c], link[c], dataPc[c]>>
  PROVE  Whole(c)'
BY GoingKept, ListedKept, OrderKept, LeavingKept DEF Whole

LEMMA WholeSame ==
  ASSUME UNCHANGED recipes
  PROVE  /\ WholeRecipe => WholeRecipe'
         /\ \A c \in Client : Kept(c) => Kept(c)'
BY DEF WholeRecipe, Kept

-----------------------------------------------------------------------------
LEMMA SessionTypes ==
  ASSUME TypeOK, NEW c \in Client
  PROVE  /\ list[c] \in Seq(Chunk) /\ queue[c] \in Seq(Item \cup {Recipe})
         /\ batch[c] \in Seq(Item) /\ todo[c] \in Seq(Chunk \cup {Recipe})
         /\ File[c] \in Seq(Chunk) /\ Recipe \notin Chunk /\ Recipe \notin Item
         /\ wire[c] \in Seq(Message)
BY UploadAssumption DEF TypeOK, PowTypes, SenderTypes, ServerTypes

LEMMA SessionLens ==
  ASSUME TypeOK, NEW c \in Client
  PROVE  /\ Len(list[c]) \in Nat /\ DOMAIN list[c] = 1 .. Len(list[c])
         /\ Len(queue[c]) \in Nat /\ DOMAIN queue[c] = 1 .. Len(queue[c])
         /\ Len(batch[c]) \in Nat /\ DOMAIN batch[c] = 1 .. Len(batch[c])
         /\ Len(todo[c]) \in Nat /\ DOMAIN todo[c] = 1 .. Len(todo[c])
         /\ Len(File[c]) \in Nat /\ DOMAIN File[c] = 1 .. Len(File[c])
         /\ Len(wire[c]) \in Nat /\ DOMAIN wire[c] = 1 .. Len(wire[c])
BY SessionTypes, SeqFacts

LEMMA TailFacts ==
  ASSUME NEW S, NEW s \in Seq(S), s # <<>>
  PROVE  /\ Len(s) \in Nat \ {0} /\ Head(s) = s[1] /\ 1 \in DOMAIN s
         /\ Tail(s) \in Seq(S) /\ Len(Tail(s)) = Len(s) - 1
         /\ DOMAIN Tail(s) = 1 .. Len(s) - 1
         /\ \A i \in DOMAIN Tail(s) : i + 1 \in DOMAIN s /\ Tail(s)[i] = s[i + 1]
OBVIOUS

LEMMA MoreThanOne == \A n \in Nat : n # 0 /\ n # 1 => n > 1
OBVIOUS

LEMMA Within == \A i, j, k, n \in Nat : n > 1 => i + j + k + 1 \in 1 .. i + j + k + n - 1
OBVIOUS

LEMMA Shift == \A m \in Int, k, i \in Nat : m + k + (i + 1) = m + (k + 1) + i
OBVIOUS

\* Powclient's steps carry the file on.
LEMMA CollectGoing ==
  ASSUME TypeOK, NEW c \in Client, Collect(c), Going(c), sendPc[c] = "run"
  PROVE  Going(c)'
<1>1. PICK r \in 0 .. Len(queue[c]) : Carried(c, r)
  BY DEF Going
<1>2. PICK junk \in ChunkType :
        batch'[c] = Append(batch[c], [chunk |-> Head(todo[c]), type |-> junk])
  BY DEF Collect, TypeOK, PowTypes
<1>3. PICK e : e = [chunk |-> Head(todo[c]), type |-> junk]
  OBVIOUS
<1>4. /\ UNCHANGED <<list[c], queue[c], head[c], last[c], done[c], sendPc[c]>>
      /\ todo'[c] = Tail(todo[c]) /\ todo[c] # <<>> /\ Head(todo[c]) # Recipe
      /\ batch'[c] = Append(batch[c], e) /\ e.chunk = Head(todo[c])
      /\ powPc[c] = "collect" /\ powPc'[c] \in {"collect", "ask"}
  BY <1>2, <1>3 DEF Collect, sender, TypeOK, PowTypes
<1>5. /\ Len(todo[c]) \in Nat /\ Len(todo[c]) > 1 /\ r = 0 /\ Head(todo[c]) = todo[c][1]
      /\ Len(todo'[c]) = Len(todo[c]) - 1 /\ todo'[c] # <<>>
      /\ DOMAIN todo'[c] = 1 .. Len(todo[c]) - 1
      /\ \A i \in DOMAIN todo'[c] : i + 1 \in DOMAIN todo[c] /\ todo'[c][i] = todo[c][i + 1]
  <2>1. r = 0
    BY <1>1, <1>4 DEF Carried
  <2>2. todo[c] \in Seq(Chunk \cup {Recipe})
    BY SessionTypes
  <2>3. /\ Len(todo[c]) \in Nat \ {0} /\ Head(todo[c]) = todo[c][1] /\ 1 \in DOMAIN todo[c]
        /\ Len(todo'[c]) = Len(todo[c]) - 1 /\ DOMAIN todo'[c] = 1 .. Len(todo[c]) - 1
        /\ todo'[c] \in Seq(Chunk \cup {Recipe})
        /\ \A i \in DOMAIN todo'[c] : i + 1 \in DOMAIN todo[c] /\ todo'[c][i] = todo[c][i + 1]
    BY <1>4, <2>2, TailFacts
  <2>4. Len(todo[c]) # 1
    BY <1>1, <1>4, <2>3 DEF Carried
  <2>5. todo'[c] # <<>>
    <3>1. Len(todo'[c]) # 0 /\ Len(<<>>) = 0
      BY <2>3, <2>4
    <3>2. QED BY <3>1
  <2>6. QED BY <2>1, <2>3, <2>4, <2>5
<1>6. /\ Len(batch[c]) \in Nat /\ Len(batch'[c]) = Len(batch[c]) + 1
      /\ DOMAIN batch'[c] = 1 .. Len(batch[c]) + 1 /\ DOMAIN batch[c] = 1 .. Len(batch[c])
      /\ batch'[c][Len(batch[c]) + 1] = e
      /\ \A i \in DOMAIN batch[c] : batch'[c][i] = batch[c][i]
  BY <1>4, SessionTypes, AppendFacts, SeqFacts
<1>7. PICK m \in Int : m = Len(list[c]) + Place(r, Len(queue[c]) + 1) - 1
  <2>1. Len(list[c]) + Place(r, Len(queue[c]) + 1) - 1 \in Int
    BY <1>1, SessionLens DEF Place
  <2>2. QED BY <2>1
<1>8. Carried(c, r)'
  <2>1. todo[c][1] = File[c][m + Len(batch[c]) + 1]
    BY <1>1, <1>5, <1>7 DEF Carried
  <2>2. \A i \in DOMAIN batch'[c] : batch'[c][i].chunk = File[c][m + i]
    <3>1. \A i \in DOMAIN batch[c] : batch[c][i].chunk = File[c][m + i]
      BY <1>1, <1>7 DEF Carried
    <3>2. e.chunk = File[c][m + (Len(batch[c]) + 1)]
      <4>1. m + Len(batch[c]) + 1 = m + (Len(batch[c]) + 1)
        BY <1>6, <1>7
      <4>2. QED BY <1>4, <1>5, <2>1, <4>1
    <3>3. \A i \in DOMAIN batch'[c] : i \in DOMAIN batch[c] \/ i = Len(batch[c]) + 1
      BY <1>6
    <3>4. QED BY <1>6, <3>1, <3>2, <3>3
  <2>3. \A i \in DOMAIN todo'[c] :
          todo'[c][i] = IF i = Len(todo'[c]) THEN Recipe
                                             ELSE File[c][m + Len(batch'[c]) + i]
    <3>1. ASSUME NEW i \in DOMAIN todo'[c]
          PROVE  todo'[c][i] = IF i = Len(todo'[c]) THEN Recipe
                                             ELSE File[c][m + Len(batch'[c]) + i]
      <4>1. todo[c][i + 1] = IF i + 1 = Len(todo[c]) THEN Recipe
                                             ELSE File[c][m + Len(batch[c]) + (i + 1)]
        BY <1>1, <1>5, <1>7 DEF Carried
      <4>2. i \in Nat /\ (i = Len(todo'[c]) <=> i + 1 = Len(todo[c]))
        BY <1>5
      <4>3. m + Len(batch[c]) + (i + 1) = m + Len(batch'[c]) + i
        BY <1>6, <1>7, <4>2, Shift
      <4>4. QED BY <1>5, <4>1, <4>2, <4>3
    <3>2. QED BY <3>1
  <2>4. Len(File[c]) = m + Len(batch'[c]) + Len(todo'[c]) - 1
    <3>1. Len(File[c]) = m + Len(batch[c]) + Len(todo[c]) - 1
      BY <1>1, <1>4, <1>7 DEF Carried
    <3>2. QED BY <1>5, <1>6, <1>7, <3>1
  <2>5. /\ \A i \in DOMAIN list[c] : list[c][i] = File[c][i]
        /\ \A i \in DOMAIN queue[c] :
             /\ queue[c][i] = Recipe <=> i = r
             /\ i # r => queue[c][i].chunk = File[c][Len(list[c]) + Place(r, i)]
    BY <1>1 DEF Carried
  <2>6. QED
    BY <1>4, <1>5, <1>7, <2>2, <2>3, <2>4, <2>5 DEF Carried
<1>9. QED
  BY <1>4, <1>5, <1>8 DEF Going

LEMMA RecipeGoing ==
  ASSUME TypeOK, NEW c \in Client, PassRecipe(c), Going(c), sendPc[c] = "run"
  PROVE  Going(c)'
<1>1. PICK r \in 0 .. Len(queue[c]) : Carried(c, r)
  BY DEF Going
<1>2. /\ UNCHANGED <<list[c], batch[c], head[c], last[c], done[c], sendPc[c], powPc[c]>>
      /\ todo'[c] = Tail(todo[c]) /\ todo[c] # <<>> /\ Head(todo[c]) = Recipe
      /\ queue'[c] = Append(queue[c], Recipe) /\ powPc[c] = "collect"
  BY DEF PassRecipe, sender, TypeOK, PowTypes, SenderTypes
<1>3. /\ r = 0 /\ Len(todo[c]) = 1 /\ todo'[c] = <<>>
  <2>1. Len(todo[c]) \in Nat \ {0} /\ todo[c][1] = Recipe /\ 1 \in DOMAIN todo[c]
    BY <1>2, SessionTypes
  <2>2. /\ r = 0
        /\ Len(File[c]) = Len(list[c]) + Len(queue[c]) + Len(batch[c]) + Len(todo[c]) - 1
    <3>1. r = 0
      BY <1>1, <1>2 DEF Carried
    <3>2. Place(0, Len(queue[c]) + 1) = Len(queue[c]) + 1
      BY DEF Place
    <3>3. Len(File[c]) = Len(list[c]) + (Len(queue[c]) + 1) - 1 + Len(batch[c]) + Len(todo[c]) - 1
      BY <1>1, <1>2, <3>1, <3>2 DEF Carried
    <3>4. QED BY <3>1, <3>3, SessionLens
  <2>3. Len(todo[c]) = 1
    <3>1. SUFFICES ASSUME Len(todo[c]) # 1 PROVE FALSE
      OBVIOUS
    <3>2. PICK k : k = Len(list[c]) + Len(queue[c]) + Len(batch[c]) + 1
      OBVIOUS
    <3>3. todo[c][1] = File[c][k]
      <4>1. Place(0, Len(queue[c]) + 1) = Len(queue[c]) + 1
        BY DEF Place
      <4>2. todo[c][1] = File[c][Len(list[c]) + (Len(queue[c]) + 1) - 1 + Len(batch[c]) + 1]
        BY <1>1, <2>1, <2>2, <3>1, <4>1 DEF Carried
      <4>3. k = Len(list[c]) + (Len(queue[c]) + 1) - 1 + Len(batch[c]) + 1
        BY <3>2, SessionLens
      <4>4. QED BY <4>2, <4>3
    <3>4. k \in 1 .. Len(File[c])
      <4>1. /\ Len(list[c]) \in Nat /\ Len(queue[c]) \in Nat /\ Len(batch[c]) \in Nat
            /\ Len(todo[c]) \in Nat
        BY SessionLens
      <4>2. Len(todo[c]) > 1
        BY <2>1, <3>1, MoreThanOne
      <4>3. QED BY <2>2, <3>2, <4>1, <4>2, Within
    <3>5. File[c][k] \in Chunk
      BY <3>4, SessionTypes
    <3>6. QED BY <2>1, <3>3, <3>5, SessionTypes
  <2>4. todo'[c] = <<>>
    <3>1. todo[c] \in Seq(Chunk \cup {Recipe})
      BY SessionTypes
    <3>2. Tail(todo[c]) \in Seq(Chunk \cup {Recipe}) /\ Len(Tail(todo[c])) = 0
      BY <1>2, <2>3, <3>1, TailFacts
    <3>3. Tail(todo[c]) = <<>>
      BY <3>2, EmptyLen
    <3>4. QED BY <1>2, <3>3
  <2>5. QED BY <2>2, <2>3, <2>4
<1>4. /\ Len(queue[c]) \in Nat /\ DOMAIN queue[c] = 1 .. Len(queue[c])
      /\ Len(queue'[c]) = Len(queue[c]) + 1 /\ DOMAIN queue'[c] = 1 .. Len(queue[c]) + 1
      /\ queue'[c][Len(queue[c]) + 1] = Recipe
      /\ \A i \in DOMAIN queue[c] : queue'[c][i] = queue[c][i]
  BY <1>2, SessionTypes, AppendFacts, SeqFacts
<1>5. PICK q : q = Len(queue[c]) + 1
  OBVIOUS
<1>6. Carried(c, q)'
  <2>1. ASSUME NEW i \in DOMAIN queue'[c]
        PROVE  /\ queue'[c][i] = Recipe <=> i = q
               /\ i # q => queue'[c][i].chunk = File[c][Len(list[c]) + Place(q, i)]
    <3>1. CASE i = q
      BY <1>4, <1>5, <3>1
    <3>2. CASE i # q
      <4>1. i \in DOMAIN queue[c] /\ Place(q, i) = i /\ Place(r, i) = i /\ i # r
        BY <1>3, <1>4, <1>5, <3>2 DEF Place
      <4>2. QED BY <1>1, <1>4, <3>2, <4>1 DEF Carried
    <3>3. QED BY <3>1, <3>2
  <2>2. Place(q, Len(queue'[c]) + 1) = Place(r, Len(queue[c]) + 1)
    BY <1>3, <1>4, <1>5 DEF Place
  <2>3. QED
    <3>1. DOMAIN todo'[c] = {} /\ todo[c] # <<>> /\ q # 0
      <4>1. DOMAIN <<>> = {} /\ \A n \in Nat : n + 1 # 0
        OBVIOUS
      <4>2. DOMAIN todo'[c] = {} /\ todo[c] # <<>>
        BY <1>2, <1>3, <4>1
      <4>3. QED BY <1>4, <1>5, <4>1, <4>2
    <3>2. PICK k \in Int : k = Len(list[c]) + Place(r, Len(queue[c]) + 1) - 1 + Len(batch[c])
      <4>1. Len(list[c]) + Place(r, Len(queue[c]) + 1) - 1 + Len(batch[c]) \in Int
        BY <1>1, SessionLens DEF Place
      <4>2. QED BY <4>1
    <3>3. Len(File[c]) = k
      <4>1. Len(File[c]) = k + 1 - 1
        BY <1>1, <1>3, <3>1, <3>2 DEF Carried
      <4>2. QED BY <3>2, <4>1
    <3>4. /\ \A i \in DOMAIN list[c] : list[c][i] = File[c][i]
          /\ \A i \in DOMAIN batch[c] :
               batch[c][i].chunk = File[c][Len(list[c]) + Place(r, Len(queue[c]) + 1) - 1 + i]
      BY <1>1 DEF Carried
    <3>5. QED
      BY <1>2, <1>3, <2>1, <2>2, <3>1, <3>2, <3>3, <3>4 DEF Carried
<1>7. q \in 0 .. Len(queue'[c])
  BY <1>4, <1>5
<1>8. QED
  BY <1>2, <1>3, <1>6, <1>7 DEF Going

LEMMA ConcatFacts ==
  ASSUME NEW S, NEW s \in Seq(S), NEW t \in Seq(S)
  PROVE  /\ Len(s) \in Nat /\ Len(t) \in Nat /\ Len(s \o t) = Len(s) + Len(t)
         /\ DOMAIN (s \o t) = 1 .. Len(s) + Len(t)
         /\ \A i \in 1 .. Len(s) : (s \o t)[i] = s[i]
         /\ \A j \in 1 .. Len(t) : (s \o t)[Len(s) + j] = t[j]
OBVIOUS

LEMMA Beyond == \A m, n \in Nat : \A i \in 1 .. m + n :
                  i \in 1 .. m \/ \E j \in 1 .. n : i = m + j
<1>1. ASSUME NEW m \in Nat, NEW n \in Nat, NEW i \in 1 .. m + n, i \notin 1 .. m
      PROVE  i - m \in 1 .. n /\ i = m + (i - m)
  BY <1>1
<1>2. QED
  BY <1>1

LEMMA PlaceShift ==
  ASSUME NEW q \in Nat, NEW r \in 0 .. q
  PROVE  /\ Place(r, q + 1) \in Nat
         /\ \A j \in Nat \ {0} : Place(r, q + j) = Place(r, q + 1) - 1 + j
         /\ \A j \in Nat : Place(r, q + j + 1) = Place(r, q + 1) + j
BY DEF Place

LEMMA Sums == \A a, b, d, j \in Int : a + b - 1 + j = a + (b - 1 + j)
                                      /\ a + (b + j) - 1 = a + b - 1 + j
OBVIOUS

LEMMA MarkedFacts ==
  ASSUME TypeOK, NEW c \in Client
  PROVE  /\ Marked(c) \in Seq(Item) /\ Len(Marked(c)) = Len(batch[c])
         /\ \A i \in DOMAIN batch[c] : Marked(c)[i].chunk = batch[c][i].chunk
<1>1. \A i \in DOMAIN batch[c] : batch[c][i] \in Item
  BY DEF TypeOK, PowTypes
<1>2. DOMAIN batch[c] = 1 .. Len(batch[c]) /\ Len(batch[c]) \in Nat
  BY SessionLens
<1>3. \A i \in DOMAIN batch[c] : Marked(c)[i] \in Item /\ Marked(c)[i].chunk = batch[c][i].chunk
  BY <1>1 DEF Marked, Item, ChunkType
<1>4. Marked(c) \in [1 .. Len(batch[c]) -> Item]
  BY <1>2, <1>3 DEF Marked
<1>5. QED
  BY <1>2, <1>3, <1>4

LEMMA ForwardGoing ==
  ASSUME TypeOK, NEW c \in Client, Forward(c), Going(c), sendPc[c] = "run"
  PROVE  Going(c)'
<1>1. PICK r \in 0 .. Len(queue[c]) : Carried(c, r)
  BY DEF Going
<1>2. PICK n : n = Len(queue[c])
  OBVIOUS
<1>3. PICK l : l = Len(list[c])
  OBVIOUS
<1>4. PICK b : b = Len(batch[c])
  OBVIOUS
<1>5. n \in Nat /\ l \in Nat /\ b \in Nat /\ r \in 0 .. n
  BY <1>1, <1>2, <1>3, <1>4, SessionLens
<1>6. /\ UNCHANGED <<list[c], todo[c], head[c], last[c], sendPc[c]>>
      /\ batch'[c] = <<>> /\ queue'[c] = queue[c] \o Marked(c)
      /\ done'[c] = last[c] /\ powPc'[c] = IF last[c] THEN "over" ELSE "collect"
  BY DEF Forward, Step, sender, TypeOK, PowTypes, SenderTypes
<1>7. /\ Len(queue'[c]) = n + b /\ DOMAIN queue'[c] = 1 .. n + b
      /\ \A i \in 1 .. n : queue'[c][i] = queue[c][i]
      /\ \A j \in 1 .. b : queue'[c][n + j] = Marked(c)[j]
  <2>1. /\ queue[c] \in Seq(Item \cup {Recipe}) /\ Marked(c) \in Seq(Item \cup {Recipe})
        /\ Len(Marked(c)) = b
    BY <1>4, MarkedFacts, SessionTypes
  <2>2. QED BY <1>2, <1>6, <2>1, ConcatFacts
<1>8. \A j \in 1 .. b : Marked(c)[j] \in Item /\ Marked(c)[j].chunk = batch[c][j].chunk
  BY <1>4, MarkedFacts, SessionLens
<1>9. DOMAIN queue[c] = 1 .. n /\ DOMAIN batch[c] = 1 .. b
  BY <1>2, <1>4, SessionLens
<1>10. Place(r, n + 1) \in Nat /\ Place(r, n + b + 1) = Place(r, n + 1) + b
  BY <1>5, PlaceShift
<1>11. PICK p \in Nat : p = Place(r, n + 1)
  BY <1>10
<1>12. Carried(c, r)'
  <2>1. ASSUME NEW i \in DOMAIN queue'[c]
        PROVE  /\ queue'[c][i] = Recipe <=> i = r
               /\ i # r => queue'[c][i].chunk = File[c][l + Place(r, i)]
    <3>1. CASE i \in 1 .. n
      BY <1>1, <1>3, <1>7, <1>9, <3>1 DEF Carried
    <3>2. CASE i \notin 1 .. n
      <4>1. PICK j \in 1 .. b : i = n + j
        <5>1. i \in 1 .. n + b
          BY <1>7
        <5>2. QED BY <1>5, <3>2, <5>1, Beyond
      <4>2. queue'[c][i] # Recipe /\ i # r
        <5>1. i # r
          <6>1. i \in 1 .. n + b
            BY <1>7
          <6>2. QED BY <1>5, <3>2, <6>1
        <5>2. Marked(c)[j] \in Item /\ queue'[c][i] = Marked(c)[j] /\ Recipe \notin Item
          BY <1>7, <1>8, <4>1, SessionTypes
        <5>3. QED BY <5>1, <5>2
      <4>3. queue'[c][i].chunk = File[c][l + p - 1 + j]
        BY <1>1, <1>2, <1>3, <1>7, <1>8, <1>9, <1>11, <4>1 DEF Carried
      <4>4. Place(r, i) = p - 1 + j /\ j \in Int /\ l \in Int /\ p \in Int
        BY <1>5, <1>11, <4>1, PlaceShift
      <4>5. QED BY <4>2, <4>3, <4>4, Sums
    <3>3. QED BY <3>1, <3>2
  <2>2. Place(r, Len(queue'[c]) + 1) = p + b /\ l + (p + b) - 1 = l + p - 1 + b
    BY <1>5, <1>7, <1>10, <1>11, Sums
  <2>3. DOMAIN batch'[c] = {} /\ Len(batch'[c]) = 0
    BY <1>6
  <2>4. l + p - 1 + b + 0 = l + p - 1 + b
    BY <1>5, <1>11
  <2>5. /\ \A i \in DOMAIN list[c] : list[c][i] = File[c][i]
        /\ \A i \in DOMAIN todo[c] :
             todo[c][i] = IF i = Len(todo[c]) THEN Recipe ELSE File[c][l + p - 1 + b + i]
        /\ IF todo[c] = <<>>
             THEN Len(File[c]) = l + p - 1 + b /\ (r # 0 \/ head[c] = FileName[c])
             ELSE Len(File[c]) = l + p - 1 + b + Len(todo[c]) - 1 /\ r = 0
    BY <1>1, <1>2, <1>3, <1>4, <1>11 DEF Carried
  <2>6. QED
    BY <1>3, <1>6, <2>1, <2>2, <2>3, <2>4, <2>5 DEF Carried
<1>13. r \in 0 .. Len(queue'[c])
  BY <1>5, <1>7
<1>14. QED
  BY <1>6, <1>12, <1>13 DEF Going

LEMMA PowGoing ==
  ASSUME TypeOK, NEW c \in Client, PowClientStep(c), Going(c)
  PROVE  Going(c)'
<1>1. sendPc'[c] = sendPc[c]
  BY DEF PowClientStep, Collect, PassRecipe, LastBatch, Ask, DedupByHash, Forward, sender
<1>2. CASE sendPc[c] # "run"
  BY <1>1, <1>2 DEF Going
<1>3. CASE sendPc[c] = "run"
  <2>1. CASE LastBatch(c)
    <3>1. PICK r \in 0 .. Len(queue[c]) : Carried(c, r)
      BY <1>3 DEF Going
    <3>2. /\ UNCHANGED <<list[c], queue[c], batch[c], todo[c], head[c], done[c], sendPc[c]>>
          /\ todo[c] = <<>> /\ powPc[c] = "collect" /\ powPc'[c] = "ask"
      BY <2>1 DEF LastBatch, Step, sender, TypeOK, PowTypes
    <3>3. Carried(c, r)'
      BY <3>1, <3>2 DEF Carried
    <3>4. QED BY <1>3, <3>2, <3>3 DEF Going
  <2>2. CASE Ask(c) \/ DedupByHash(c)
    <3>1. /\ UNCHANGED <<list, queue, batch, todo, head, last, done, sendPc>>
          /\ powPc[c] \in {"ask", "asked"} /\ powPc'[c] = "asked"
      BY <2>2 DEF Ask, DedupByHash, Step, sender, powClient, TypeOK, PowTypes
    <3>2. \A r : Carried(c, r) => Carried(c, r)'
      BY <3>1 DEF Carried
    <3>3. QED BY <1>3, <3>1, <3>2 DEF Going
  <2>3. QED
    BY <1>3, <2>1, <2>2, CollectGoing, RecipeGoing, ForwardGoing DEF PowClientStep
<1>4. QED
  BY <1>2, <1>3

-----------------------------------------------------------------------------
(* The sender's steps. *)

LEMMA PlaceDown ==
  ASSUME NEW i \in Nat \ {0}, NEW r \in Nat, r # 1
  PROVE  /\ Place(r, 1) = 1 /\ Place(r, i + 1) \in Nat
         /\ Place(r, i + 1) = Place(IF r = 0 THEN 0 ELSE r - 1, i) + 1
         /\ Place(IF r = 0 THEN 0 ELSE r - 1, i) \in Nat
BY DEF Place

LEMMA OneMore == \A a, b \in Int : a + (b + 1) = a + 1 + b
OBVIOUS

LEMMA TakeRecipeGoing ==
  ASSUME TypeOK, NEW c \in Client, TakeRecipe(c), Going(c)
  PROVE  Going(c)'
<1>1. /\ UNCHANGED <<list[c], batch[c], todo[c], last[c], done[c], powPc[c], sendPc[c]>>
      /\ queue[c] # <<>> /\ Head(queue[c]) = Recipe /\ queue'[c] = Tail(queue[c])
      /\ sendPc[c] = "run" /\ head'[c] = FileName[c]
  BY DEF TakeRecipe, powClient, TypeOK, SenderTypes
<1>2. PICK r \in 0 .. Len(queue[c]) : Carried(c, r)
  BY <1>1 DEF Going
<1>3. queue[c] \in Seq(Item \cup {Recipe})
  BY SessionTypes
<1>4. /\ Len(queue[c]) \in Nat \ {0} /\ Head(queue[c]) = queue[c][1] /\ 1 \in DOMAIN queue[c]
      /\ Len(queue'[c]) = Len(queue[c]) - 1 /\ DOMAIN queue'[c] = 1 .. Len(queue[c]) - 1
      /\ \A i \in DOMAIN queue'[c] : i + 1 \in DOMAIN queue[c] /\ queue'[c][i] = queue[c][i + 1]
  BY <1>1, <1>3, TailFacts
<1>5. r = 1
  BY <1>1, <1>2, <1>4 DEF Carried
<1>6. todo[c] = <<>>
  BY <1>2, <1>5 DEF Carried
<1>7. ASSUME NEW i \in DOMAIN queue'[c]
      PROVE  queue'[c][i] # Recipe /\ queue'[c][i].chunk = File[c][Len(list[c]) + Place(0, i)]
  <2>1. i \in Nat \ {0}
    BY <1>4
  <2>2. i + 1 # 1 /\ Place(1, i + 1) = Place(0, i)
    BY <2>1 DEF Place
  <2>3. QED BY <1>2, <1>4, <1>5, <2>2 DEF Carried
<1>8. Place(1, Len(queue[c]) + 1) = Place(0, Len(queue'[c]) + 1)
  BY <1>4 DEF Place
<1>9. Carried(c, 0)'
  <2>1. \A i \in DOMAIN queue'[c] : i # 0
    BY <1>4
  <2>2. QED BY <1>1, <1>2, <1>5, <1>6, <1>7, <1>8, <2>1 DEF Carried
<1>10. 0 \in 0 .. Len(queue'[c])
  BY <1>4
<1>11. QED
  BY <1>1, <1>2, <1>9, <1>10 DEF Going

LEMMA TakeChunkGoing ==
  ASSUME TypeOK, NEW c \in Client, TakeChunk(c), Going(c)
  PROVE  Going(c)'
<1>1. /\ UNCHANGED <<head[c], batch[c], todo[c], last[c], done[c], powPc[c], sendPc[c]>>
      /\ queue[c] # <<>> /\ Head(queue[c]) # Recipe /\ queue'[c] = Tail(queue[c])
      /\ sendPc[c] = "run" /\ list'[c] = Append(list[c], Head(queue[c]).chunk)
  BY DEF TakeChunk, powClient, TypeOK, SenderTypes
<1>2. PICK r \in 0 .. Len(queue[c]) : Carried(c, r)
  BY <1>1 DEF Going
<1>3. queue[c] \in Seq(Item \cup {Recipe})
  BY SessionTypes
<1>4. /\ Len(queue[c]) \in Nat \ {0} /\ Head(queue[c]) = queue[c][1] /\ 1 \in DOMAIN queue[c]
      /\ Len(queue'[c]) = Len(queue[c]) - 1 /\ DOMAIN queue'[c] = 1 .. Len(queue[c]) - 1
      /\ \A i \in DOMAIN queue'[c] : i + 1 \in DOMAIN queue[c] /\ queue'[c][i] = queue[c][i + 1]
  BY <1>1, <1>3, TailFacts
<1>5. r # 1 /\ r \in Nat
  BY <1>1, <1>2, <1>4 DEF Carried
<1>6. PICK n \in Nat : n = Len(list[c])
  BY SessionLens
<1>7. PICK s : s = IF r = 0 THEN 0 ELSE r - 1
  OBVIOUS
<1>8. /\ Len(list'[c]) = n + 1 /\ DOMAIN list[c] = 1 .. n /\ DOMAIN list'[c] = 1 .. n + 1
      /\ list'[c][n + 1] = Head(queue[c]).chunk
      /\ \A i \in DOMAIN list[c] : list'[c][i] = list[c][i]
  <2>1. list[c] \in Seq(Chunk)
    BY SessionTypes
  <2>2. QED BY <1>1, <1>6, <2>1, AppendFacts, SeqFacts
<1>9. \A i \in DOMAIN list'[c] : list'[c][i] = File[c][i]
  <2>1. list'[c][n + 1] = File[c][n + 1]
    <3>1. Place(r, 1) = 1
      BY <1>5 DEF Place
    <3>2. queue[c][1].chunk = File[c][n + Place(r, 1)]
      BY <1>2, <1>4, <1>5, <1>6 DEF Carried
    <3>3. QED BY <1>4, <1>8, <3>1, <3>2
  <2>2. \A i \in DOMAIN list'[c] : i \in DOMAIN list[c] \/ i = n + 1
    BY <1>6, <1>8
  <2>3. \A i \in DOMAIN list[c] : list[c][i] = File[c][i]
    BY <1>2 DEF Carried
  <2>4. QED BY <1>8, <2>1, <2>2, <2>3
<1>10. ASSUME NEW i \in Nat \ {0}
       PROVE  /\ n + Place(r, i + 1) = n + 1 + Place(s, i)
              /\ Place(s, i) \in Nat /\ Place(r, i + 1) \in Nat
  <2>1. PICK p \in Nat : p = Place(s, i)
    BY <1>5, <1>7, PlaceDown
  <2>2. Place(r, i + 1) = p + 1
    BY <1>5, <1>7, <2>1, PlaceDown
  <2>3. n + (p + 1) = n + 1 + p
    BY <1>6, <2>1, OneMore
  <2>4. QED BY <1>5, <2>1, <2>2, <2>3, PlaceDown
<1>11. ASSUME NEW i \in DOMAIN queue'[c]
       PROVE  /\ queue'[c][i] = Recipe <=> i = s
              /\ i # s => queue'[c][i].chunk = File[c][n + 1 + Place(s, i)]
  <2>1. i \in Nat \ {0} /\ (i = s <=> i + 1 = r)
    BY <1>4, <1>5, <1>7
  <2>2. /\ queue[c][i + 1] = Recipe <=> i + 1 = r
        /\ i + 1 # r => queue[c][i + 1].chunk = File[c][n + Place(r, i + 1)]
    BY <1>2, <1>4, <1>6 DEF Carried
  <2>3. QED BY <1>4, <1>10, <2>1, <2>2
<1>12. n + Place(r, Len(queue[c]) + 1) - 1 = n + 1 + Place(s, Len(queue'[c]) + 1) - 1
  <2>1. Len(queue'[c]) + 1 = Len(queue[c]) /\ Len(queue[c]) \in Nat \ {0}
    BY <1>4
  <2>2. n + Place(r, Len(queue[c]) + 1) = n + 1 + Place(s, Len(queue[c]))
    BY <1>10, <2>1
  <2>3. Place(s, Len(queue'[c]) + 1) = Place(s, Len(queue[c]))
    BY <2>1
  <2>4. PICK p \in Nat : p = Place(s, Len(queue[c]))
    BY <1>10, <2>1
  <2>5. PICK o \in Nat : o = Place(r, Len(queue[c]) + 1)
    BY <1>10, <2>1
  <2>6. n + o - 1 = n + 1 + p - 1
    <3>1. n + o = n + 1 + p
      BY <2>2, <2>4, <2>5
    <3>2. QED BY <1>6, <3>1
  <2>7. QED BY <2>3, <2>4, <2>5, <2>6
<1>13. r # 0 => s # 0
  BY <1>5, <1>7
<1>14. Carried(c, s)'
  <2>1. PICK m : m = n + Place(r, Len(queue[c]) + 1) - 1
    OBVIOUS
  <2>2. /\ \A i \in DOMAIN batch[c] : batch[c][i].chunk = File[c][m + i]
        /\ \A i \in DOMAIN todo[c] :
             todo[c][i] = IF i = Len(todo[c]) THEN Recipe ELSE File[c][m + Len(batch[c]) + i]
        /\ IF todo[c] = <<>>
             THEN Len(File[c]) = m + Len(batch[c]) /\ (r # 0 \/ head[c] = FileName[c])
             ELSE Len(File[c]) = m + Len(batch[c]) + Len(todo[c]) - 1 /\ r = 0
    BY <1>2, <1>6, <2>1 DEF Carried
  <2>3. r = 0 => s = 0
    BY <1>7
  <2>4. QED
    BY <1>1, <1>8, <1>9, <1>11, <1>12, <1>13, <2>1, <2>2, <2>3 DEF Carried
<1>15. s \in 0 .. Len(queue'[c])
  BY <1>2, <1>4, <1>5, <1>7
<1>16. QED
  BY <1>1, <1>2, <1>14, <1>15 DEF Going

\* What the sender has when powClient is done and the queue is empty.
LEMMA AllListed ==
  ASSUME TypeOK, NEW c \in Client, Going(c), sendPc[c] = "run", done[c], queue[c] = <<>>
  PROVE  head[c] = FileName[c] /\ list[c] = File[c]
<1>1. PICK r \in 0 .. Len(queue[c]) : Carried(c, r)
  BY DEF Going
<1>2. todo[c] = <<>> /\ batch[c] = <<>>
  BY DEF Going
<1>3. Len(<<>>) = 0 /\ 0 + 1 = 1 /\ Place(0, 1) = 1
  BY DEF Place
<1>4. r = 0
  BY <1>1, <1>3
<1>5. head[c] = FileName[c] /\ Len(File[c]) = Len(list[c]) + 1 - 1 + 0
  BY <1>1, <1>2, <1>3, <1>4 DEF Carried
<1>6. list[c] \in Seq(Chunk) /\ File[c] \in Seq(Chunk)
  BY SessionTypes
<1>7. Len(File[c]) = Len(list[c])
  BY <1>5, <1>6
<1>8. \A i \in DOMAIN list[c] : list[c][i] = File[c][i]
  BY <1>1 DEF Carried
<1>9. QED
  BY <1>5, <1>6, <1>7, <1>8

\* A message sent in its turn keeps the order.
LEMMA SendOrder ==
  ASSUME TypeOK, NEW c \in Client, NEW m \in Message, Send(c, m), InOrder(c),
         dataPc'[c] = dataPc[c],
         \/ m.type = "chunks" /\ sendPc[c] = "run" /\ sendPc'[c] \in {"run", "recipeHead"}
         \/ m.type = "recipeHead" /\ sendPc[c] = "recipeHead" /\ sendPc'[c] = "recipe"
         \/ /\ m.type = "recipe" /\ sendPc[c] = "recipe" /\ sendPc'[c] = "end"
            /\ m.name = FileName[c] /\ m.chunks = File[c]
         \/ m.type = "exit" /\ sendPc[c] = "end" /\ sendPc'[c] = "permit"
  PROVE  InOrder(c)'
<1>1. wire[c] \in Seq(Message) /\ wire'[c] = Append(wire[c], m) /\ UNCHANGED link[c]
  BY DEF Send, TypeOK, ServerTypes
<1>2. PICK n \in Nat : n = Len(wire[c])
  BY <1>1
<1>3. /\ Len(wire'[c]) = n + 1 /\ DOMAIN wire'[c] = 1 .. n + 1 /\ DOMAIN wire[c] = 1 .. n
      /\ wire'[c][n + 1] = m /\ \A k \in 1 .. n : wire'[c][k] = wire[c][k]
  BY <1>1, <1>2, AppendFacts, SeqFacts
<1>4. n = 0 <=> wire[c] = <<>>
  BY <1>1, <1>2, EmptyLen
<1>5. wire'[c] # <<>>
  <2>1. n + 1 # 0 /\ Len(<<>>) = 0
    BY <1>2
  <2>2. QED BY <1>3, <2>1
<1>6. n # 0 => 1 \in 1 .. n /\ n \in 1 .. n /\ wire'[c][1] = wire[c][1] /\ wire'[c][n] = wire[c][n]
  BY <1>2, <1>3
<1>7. ASSUME NEW k \in 1 .. n
      PROVE  /\ wire[c][k].type # "exit"
             /\ wire[c][k].type = "recipe" =>
                  /\ wire[c][k].name = FileName[c] /\ wire[c][k].chunks = File[c]
                  /\ IF k = 1 THEN dataPc'[c] = "recipe" ELSE wire'[c][k - 1].type = "recipeHead"
             /\ wire[c][k].type = "recipeHead" => wire'[c][k + 1].type = "recipe"
  <2>1. k \in DOMAIN wire[c] /\ (k # 1 => k - 1 \in 1 .. n) /\ (k # n => k + 1 \in 1 .. n)
    BY <1>2, <1>3
  <2>2. wire[c][k].type # "exit"
    BY <2>1 DEF InOrder
  <2>3. wire[c][k].type = "recipe" =>
          /\ wire[c][k].name = FileName[c] /\ wire[c][k].chunks = File[c]
          /\ IF k = 1 THEN dataPc'[c] = "recipe" ELSE wire'[c][k - 1].type = "recipeHead"
    BY <1>3, <2>1 DEF InOrder
  <2>4. wire[c][k].type = "recipeHead" => wire'[c][k + 1].type = "recipe"
    <3>1. SUFFICES ASSUME wire[c][k].type = "recipeHead" PROVE wire'[c][k + 1].type = "recipe"
      OBVIOUS
    <3>2. CASE k = n
      BY <1>2, <1>3, <2>1, <3>1, <3>2 DEF InOrder
    <3>3. CASE k # n
      BY <1>2, <1>3, <2>1, <3>1, <3>3 DEF InOrder
    <3>4. QED BY <3>2, <3>3
  <2>5. QED BY <2>2, <2>3, <2>4
<1>8. /\ m.type = "recipe" =>
           /\ m.name = FileName[c] /\ m.chunks = File[c]
           /\ IF n + 1 = 1 THEN dataPc'[c] = "recipe" ELSE wire'[c][n].type = "recipeHead"
      /\ m.type = "recipeHead" => sendPc'[c] = "recipe"
      /\ m.type = "exit" => sendPc'[c] = "permit"
  <2>1. n + 1 = 1 <=> n = 0
    BY <1>2
  <2>2. QED BY <1>2, <1>4, <1>6, <2>1 DEF InOrder
<1>9. ASSUME NEW k \in DOMAIN wire'[c]
      PROVE  /\ wire'[c][k].type = "recipe" =>
                  /\ wire'[c][k].name = FileName[c] /\ wire'[c][k].chunks = File[c]
                  /\ IF k = 1 THEN dataPc'[c] = "recipe" ELSE wire'[c][k - 1].type = "recipeHead"
             /\ wire'[c][k].type = "recipeHead" =>
                  IF k = Len(wire'[c]) THEN sendPc'[c] \in {"recipe", "dead"}
                                       ELSE wire'[c][k + 1].type = "recipe"
             /\ wire'[c][k].type = "exit" =>
                  k = Len(wire'[c]) /\ sendPc'[c] \in {"permit", "dead"}
  <2>1. CASE k \in 1 .. n
    <3>1. k # n + 1
      BY <1>2, <2>1
    <3>2. QED BY <1>3, <1>7, <2>1, <3>1
  <2>2. CASE k = n + 1
    <3>1. (n + 1) - 1 = n
      BY <1>2
    <3>2. QED BY <1>3, <1>8, <2>2, <3>1
  <2>3. QED BY <1>2, <1>3, <2>1, <2>2
<1>10. dataPc'[c] = "recipe" => wire'[c][1].type = "recipe"
  <2>1. CASE n = 0
    BY <1>3, <1>4, <2>1 DEF InOrder
  <2>2. CASE n # 0
    BY <1>4, <1>6, <2>2 DEF InOrder
  <2>3. QED BY <2>1, <2>2
<1>11. sendPc'[c] = "recipe" => wire'[c][Len(wire'[c])].type = "recipeHead"
  BY <1>3
<1>12. link'[c] = "open"
  BY <1>1 DEF InOrder
<1>13. QED
  BY <1>5, <1>9, <1>10, <1>11, <1>12 DEF InOrder

LEMMA SendLeaving ==
  ASSUME TypeOK, NEW c \in Client, NEW m \in Message, Send(c, m), Leaving(c),
         UNCHANGED <<dataPc[c], recipes>>,
         sendPc[c] \in {"run", "recipeHead", "recipe", "end"},
         sendPc'[c] \in {"run", "recipeHead", "recipe", "end", "permit"},
         sendPc'[c] = "end" => m.type = "recipe",
         sendPc'[c] = "permit" => sendPc[c] = "end"
  PROVE  Leaving(c)'
<1>1. wire[c] \in Seq(Message) /\ wire'[c] = Append(wire[c], m)
  BY DEF Send, TypeOK, ServerTypes
<1>2. /\ Len(wire[c]) \in Nat /\ DOMAIN wire[c] = 1 .. Len(wire[c])
      /\ DOMAIN wire'[c] = 1 .. Len(wire[c]) + 1 /\ wire'[c][Len(wire[c]) + 1] = m
      /\ \A k \in DOMAIN wire[c] : wire'[c][k] = wire[c][k]
  BY <1>1, AppendFacts, SeqFacts
<1>3. Len(wire[c]) + 1 \in DOMAIN wire'[c] /\ \A k \in DOMAIN wire[c] : k \in DOMAIN wire'[c]
  BY <1>2
<1>4. dataPc[c] # "exited"
  BY DEF Leaving
<1>5. Kept(c) => Kept(c)'
  BY DEF Kept
<1>6. sendPc'[c] \in {"end", "permit"} =>
        Kept(c)' \/ \E k \in DOMAIN wire'[c] : wire'[c][k].type = "recipe"
  <2>1. CASE sendPc'[c] = "end"
    BY <1>2, <1>3, <2>1
  <2>2. CASE sendPc'[c] = "permit"
    <3>1. Kept(c) \/ \E k \in DOMAIN wire[c] : wire[c][k].type = "recipe"
      BY <2>2 DEF Leaving
    <3>2. QED BY <1>2, <1>3, <1>5, <3>1
  <2>3. QED BY <2>1, <2>2
<1> HIDE DEF Kept
<1>7. QED
  BY <1>4, <1>6 DEF Leaving

LEMMA SenderWhole ==
  ASSUME TypeOK, NEW c \in Client, SenderStep(c), Whole(c)
  PROVE  Whole(c)'
<1>1. /\ UNCHANGED <<dataPc, recipes, todo, batch, last, done, powPc>>
      /\ Kept(c) => Kept(c)'
  <2>1. UNCHANGED <<dataPc, recipes, todo, batch, last, done, powPc>>
    BY DEF SenderStep, TakeRecipe, TakeChunk, SendRest, SendRecipeHead, SendRecipe, SendEndFlag,
           Finish, powClient, dataThread, server
  <2>2. QED BY <2>1 DEF Kept
<1>2. Going(c) /\ Listed(c) /\ InOrder(c) /\ Leaving(c)
  BY DEF Whole
<1>3. CASE TakeRecipe(c)
  <2>1. UNCHANGED <<wire, link, sendPc>> /\ sendPc[c] = "run"
    BY <1>3 DEF TakeRecipe, connection
  <2>2. Listed(c)'
    BY <2>1 DEF Listed
  <2>3. QED
    BY <1>1, <1>2, <1>3, <2>1, <2>2, TakeRecipeGoing, OrderKept, LeavingKept DEF Whole
<1>4. CASE TakeChunk(c)
  <2>1. UNCHANGED sendPc /\ sendPc[c] = "run"
    BY <1>4 DEF TakeChunk
  <2>2. Listed(c)'
    BY <2>1 DEF Listed
  <2>3. Going(c)'
    BY <1>2, <1>4, TakeChunkGoing
  <2>4. UNCHANGED <<wire, link>> \/ \E m \in Message : Send(c, m) /\ m.type = "chunks"
    <3>1. /\ Append(buffer[c], Head(queue[c]).chunk) \in Seq(Chunk)
          /\ buffer[c] \in Seq(Chunk)
      <4>1. queue[c] \in Seq(Item \cup {Recipe}) /\ queue[c] # <<>> /\ Head(queue[c]) # Recipe
        BY <1>4, SessionTypes DEF TakeChunk
      <4>2. Head(queue[c]) \in Item
        BY <4>1
      <4>3. Head(queue[c]).chunk \in Chunk /\ buffer[c] \in Seq(Chunk)
        BY <4>2 DEF Item, TypeOK, SenderTypes
      <4>4. QED BY <4>3
    <3>2. \A s \in Seq(Chunk) : /\ Msg("chunks", NoFile, s) \in Message
                                /\ Msg("chunks", NoFile, s).type = "chunks"
      BY MsgType, NamesKnown DEF Msg
    <3>3. QED BY <1>4, <3>1, <3>2 DEF TakeChunk, connection
  <2>5. CASE UNCHANGED <<wire, link>>
    BY <1>1, <1>2, <2>1, <2>2, <2>3, <2>5, OrderKept, LeavingKept DEF Whole
  <2>6. CASE \E m \in Message : Send(c, m) /\ m.type = "chunks"
    <3>1. PICK m \in Message : Send(c, m) /\ m.type = "chunks"
      BY <2>6
    <3>2. InOrder(c)' /\ Leaving(c)'
      BY <1>1, <1>2, <2>1, <3>1, SendOrder, SendLeaving
    <3>3. QED BY <2>2, <2>3, <3>2 DEF Whole
  <2>7. QED BY <2>4, <2>5, <2>6
<1>5. CASE SendRest(c)
  <2>1. /\ sendPc[c] = "run" /\ sendPc'[c] = "recipeHead" /\ done[c] /\ queue[c] = <<>>
        /\ UNCHANGED <<list, head>> /\ Send(c, Msg("chunks", NoFile, buffer[c]))
    BY <1>5 DEF SendRest, Step, TypeOK, SenderTypes
  <2>2. Going(c)' /\ Listed(c)'
    BY <1>2, <2>1, AllListed DEF Going, Listed
  <2>3. Msg("chunks", NoFile, buffer[c]) \in Message
        /\ Msg("chunks", NoFile, buffer[c]).type = "chunks"
    BY MsgType, NamesKnown DEF Msg, TypeOK, SenderTypes
  <2>4. InOrder(c)' /\ Leaving(c)'
    BY <1>1, <1>2, <2>1, <2>3, SendOrder, SendLeaving
  <2>5. QED BY <2>2, <2>4 DEF Whole
<1>6. CASE SendRecipeHead(c)
  <2>1. /\ sendPc[c] = "recipeHead" /\ sendPc'[c] = "recipe"
        /\ UNCHANGED <<list, head>> /\ Send(c, Msg("recipeHead", NoFile, <<>>))
    BY <1>6 DEF SendRecipeHead, Step, TypeOK, SenderTypes
  <2>2. Going(c)' /\ Listed(c)'
    BY <1>2, <2>1 DEF Going, Listed
  <2>3. Msg("recipeHead", NoFile, <<>>) \in Message
        /\ Msg("recipeHead", NoFile, <<>>).type = "recipeHead"
    BY MsgType, NamesKnown, EmptySeq DEF Msg
  <2>4. InOrder(c)' /\ Leaving(c)'
    BY <1>1, <1>2, <2>1, <2>3, SendOrder, SendLeaving
  <2>5. QED BY <2>2, <2>4 DEF Whole
<1>7. CASE SendRecipe(c)
  <2>1. /\ sendPc[c] = "recipe" /\ sendPc'[c] = "end"
        /\ UNCHANGED <<list, head>> /\ Send(c, Msg("recipe", head[c], list[c]))
    BY <1>7 DEF SendRecipe, Step, TypeOK, SenderTypes
  <2>2. Going(c)' /\ Listed(c)'
    BY <1>2, <2>1 DEF Going, Listed
  <2>3. /\ Msg("recipe", head[c], list[c]) \in Message
        /\ Msg("recipe", head[c], list[c]).type = "recipe"
        /\ Msg("recipe", head[c], list[c]).name = FileName[c]
        /\ Msg("recipe", head[c], list[c]).chunks = File[c]
    <3>1. head[c] \in FileNames /\ list[c] \in Seq(Chunk)
      BY DEF TypeOK, SenderTypes
    <3>2. Msg("recipe", head[c], list[c]) \in Message
      BY <3>1, MsgType
    <3>3. QED BY <1>2, <2>1, <3>2 DEF Msg, Listed
  <2>4. InOrder(c)' /\ Leaving(c)'
    BY <1>1, <1>2, <2>1, <2>3, SendOrder, SendLeaving
  <2>5. QED BY <2>2, <2>4 DEF Whole
<1>8. CASE SendEndFlag(c)
  <2>1. /\ sendPc[c] = "end" /\ sendPc'[c] = "permit" /\ Send(c, Msg("exit", NoFile, <<>>))
    BY <1>8 DEF SendEndFlag, Step, TypeOK, SenderTypes
  <2>2. Going(c)' /\ Listed(c)'
    BY <2>1 DEF Going, Listed
  <2>3. Msg("exit", NoFile, <<>>) \in Message /\ Msg("exit", NoFile, <<>>).type = "exit"
    BY MsgType, NamesKnown, EmptySeq DEF Msg
  <2>4. InOrder(c)' /\ Leaving(c)'
    BY <1>1, <1>2, <2>1, <2>3, SendOrder, SendLeaving
  <2>5. QED BY <2>2, <2>4 DEF Whole
<1>9. CASE Finish(c)
  <2>1. /\ dataPc[c] = "exited" /\ sendPc[c] = "permit" /\ sendPc'[c] = "finished"
        /\ UNCHANGED <<wire, link>>
    BY <1>9 DEF Finish, Step, connection, TypeOK, SenderTypes
  <2>2. Going(c)' /\ Listed(c)'
    BY <2>1 DEF Going, Listed
  <2>3. wire[c] = <<>> /\ DOMAIN <<>> = {} /\ link[c] = "open"
    BY <1>2, <2>1 DEF Leaving, InOrder
  <2>4. InOrder(c)'
    BY <1>1, <2>1, <2>3 DEF InOrder
  <2>5. Leaving(c)'
    <3> HIDE DEF Kept
    <3>1. Kept(c)
      BY <1>2, <2>1, <2>3 DEF Leaving
    <3>2. QED BY <1>1, <2>1, <2>3, <3>1 DEF Leaving
  <2>6. QED BY <2>2, <2>4, <2>5 DEF Whole
<1>10. QED
  BY <1>3, <1>4, <1>5, <1>6, <1>7, <1>8, <1>9 DEF SenderStep

-----------------------------------------------------------------------------
(* The server's steps, and the death of a client. *)

LEMMA RecipesGrow ==
  ASSUME TypeOK, WholeRecipe, NEW f \in FileNames, NEW e \in Seq(Chunk),
         recipes' = [recipes EXCEPT ![f] = Append(@, e)],
         f # NoFile => \E d \in Client : FileName[d] = f /\ e = File[d]
  PROVE  /\ WholeRecipe'
         /\ \A d \in Client : Kept(d) => Kept(d)'
         /\ \A d \in Client : FileName[d] = f /\ e = File[d] => Kept(d)'
<1>1. /\ recipes'[f] = Append(recipes[f], e) /\ recipes[f] \in Seq(Seq(Chunk))
      /\ \A g \in FileNames \ {f} : recipes'[g] = recipes[g]
  BY DEF TypeOK, ServerTypes
<1>2. /\ Len(recipes[f]) \in Nat /\ DOMAIN recipes[f] = 1 .. Len(recipes[f])
      /\ DOMAIN recipes'[f] = 1 .. Len(recipes[f]) + 1
      /\ recipes'[f][Len(recipes[f]) + 1] = e
      /\ \A i \in DOMAIN recipes[f] : recipes'[f][i] = recipes[f][i]
  BY <1>1, AppendFacts, SeqFacts
<1>3. /\ \A i \in DOMAIN recipes[f] : i \in DOMAIN recipes'[f]
      /\ \A i \in DOMAIN recipes'[f] : i \in DOMAIN recipes[f] \/ i = Len(recipes[f]) + 1
      /\ Len(recipes[f]) + 1 \in DOMAIN recipes'[f]
  BY <1>2
<1>4. WholeRecipe'
  <2>1. ASSUME NEW g \in FileNames \ {NoFile}, NEW i \in DOMAIN recipes'[g]
        PROVE  \E d \in Client : FileName[d] = g /\ recipes'[g][i] = File[d]
    <3>1. CASE g # f
      BY <1>1, <2>1, <3>1 DEF WholeRecipe
    <3>2. CASE g = f /\ i \in DOMAIN recipes[f]
      BY <1>2, <2>1, <3>2 DEF WholeRecipe
    <3>3. CASE g = f /\ i = Len(recipes[f]) + 1
      BY <1>2, <2>1, <3>3
    <3>4. QED BY <1>3, <2>1, <3>1, <3>2, <3>3
  <2>2. QED BY <2>1 DEF WholeRecipe
<1>5. ASSUME NEW d \in Client, Kept(d) PROVE Kept(d)'
  <2>1. FileName[d] \in FileNames
    BY NamesKnown
  <2>2. QED BY <1>1, <1>2, <1>3, <1>5, <2>1 DEF Kept
<1>6. ASSUME NEW d \in Client, FileName[d] = f, e = File[d] PROVE Kept(d)'
  BY <1>2, <1>3, <1>6 DEF Kept
<1>7. QED
  BY <1>4, <1>5, <1>6

LEMMA FirstAndLast ==
  \A n \in Nat : n # 0 /\ n # 1 => 1 \in 1 .. n - 1 /\ n - 1 \in 1 .. n - 1 /\ (n - 1) + 1 = n
OBVIOUS

\* The message at the head of the connection is taken off it.
LEMMA TailOrder ==
  ASSUME TypeOK, NEW c \in Client, InOrder(c), wire[c] # <<>>, wire'[c] = Tail(wire[c]),
         UNCHANGED <<link[c], sendPc[c]>>,
         dataPc'[c] = "recipe" <=> wire[c][1].type = "recipeHead"
  PROVE  InOrder(c)'
<1>1. wire[c] \in Seq(Message)
  BY SessionTypes
<1>2. PICK n \in Nat : n = Len(wire[c])
  BY <1>1
<1>3. /\ n # 0 /\ 1 \in DOMAIN wire[c] /\ DOMAIN wire[c] = 1 .. n
      /\ Len(wire'[c]) = n - 1 /\ DOMAIN wire'[c] = 1 .. n - 1
      /\ wire'[c] \in Seq(Message)
      /\ \A k \in DOMAIN wire'[c] : k + 1 \in DOMAIN wire[c] /\ wire'[c][k] = wire[c][k + 1]
  BY <1>1, <1>2, TailFacts, SeqFacts
<1>4. wire'[c] = <<>> <=> n = 1
  <2>1. wire'[c] = <<>> <=> Len(wire'[c]) = 0
    BY <1>3, EmptyLen
  <2>2. QED BY <1>2, <1>3, <2>1
<1>5. ASSUME NEW k \in DOMAIN wire'[c]
      PROVE  /\ wire'[c][k].type = "recipe" =>
                  /\ wire'[c][k].name = FileName[c] /\ wire'[c][k].chunks = File[c]
                  /\ IF k = 1 THEN dataPc'[c] = "recipe" ELSE wire'[c][k - 1].type = "recipeHead"
             /\ wire'[c][k].type = "recipeHead" =>
                  IF k = Len(wire'[c]) THEN sendPc'[c] \in {"recipe", "dead"}
                                       ELSE wire'[c][k + 1].type = "recipe"
             /\ wire'[c][k].type = "exit" =>
                  k = Len(wire'[c]) /\ sendPc'[c] \in {"permit", "dead"}
  <2>1. k \in Nat \ {0}
    BY <1>2, <1>3
  <2>2. /\ (k + 1) - 1 = k /\ k + 1 # 1 /\ (k = n - 1 <=> k + 1 = n)
        /\ (k # 1 => (k - 1) + 1 = k) /\ (k + 1) + 1 \in Nat
    BY <1>2, <2>1
  <2>3. /\ k # 1 => k - 1 \in DOMAIN wire'[c]
        /\ k # n - 1 => k + 1 \in DOMAIN wire'[c]
    BY <1>2, <1>3, <2>1
  <2>4. k + 1 \in DOMAIN wire[c] /\ wire'[c][k] = wire[c][k + 1]
    BY <1>3
  <2>5. /\ wire[c][k + 1].type = "recipe" =>
             /\ wire[c][k + 1].name = FileName[c] /\ wire[c][k + 1].chunks = File[c]
             /\ wire[c][k].type = "recipeHead"
        /\ wire[c][k + 1].type = "recipeHead" =>
             IF k + 1 = n THEN sendPc[c] \in {"recipe", "dead"}
                          ELSE wire[c][k + 1 + 1].type = "recipe"
        /\ wire[c][k + 1].type = "exit" => k + 1 = n /\ sendPc[c] \in {"permit", "dead"}
    BY <1>2, <2>2, <2>4 DEF InOrder
  <2>6. wire'[c][k].type = "recipe" =>
          /\ wire'[c][k].name = FileName[c] /\ wire'[c][k].chunks = File[c]
          /\ IF k = 1 THEN dataPc'[c] = "recipe" ELSE wire'[c][k - 1].type = "recipeHead"
    BY <1>3, <2>2, <2>3, <2>4, <2>5
  <2>7. wire'[c][k].type = "recipeHead" =>
          IF k = Len(wire'[c]) THEN sendPc'[c] \in {"recipe", "dead"}
                               ELSE wire'[c][k + 1].type = "recipe"
    BY <1>3, <2>2, <2>3, <2>4, <2>5
  <2>8. wire'[c][k].type = "exit" =>
          k = Len(wire'[c]) /\ sendPc'[c] \in {"permit", "dead"}
    BY <1>3, <2>2, <2>4, <2>5
  <2>9. QED BY <2>6, <2>7, <2>8
<1>6. dataPc'[c] = "recipe" =>
        IF wire'[c] = <<>> THEN sendPc'[c] \in {"recipe", "dead"}
                           ELSE wire'[c][1].type = "recipe"
  <2>1. SUFFICES ASSUME wire[c][1].type = "recipeHead"
                 PROVE  IF wire'[c] = <<>> THEN sendPc'[c] \in {"recipe", "dead"}
                                           ELSE wire'[c][1].type = "recipe"
    OBVIOUS
  <2>2. IF n = 1 THEN sendPc[c] \in {"recipe", "dead"} ELSE wire[c][1 + 1].type = "recipe"
    BY <1>2, <1>3, <2>1 DEF InOrder
  <2>3. n # 1 => 1 \in DOMAIN wire'[c]
    BY <1>3, FirstAndLast
  <2>4. QED BY <1>3, <1>4, <2>2, <2>3
<1>7. sendPc'[c] = "recipe" =>
        IF wire'[c] = <<>> THEN dataPc'[c] = "recipe"
                           ELSE wire'[c][Len(wire'[c])].type = "recipeHead"
  <2>1. sendPc[c] = "recipe" => wire[c][n].type = "recipeHead"
    BY <1>2 DEF InOrder
  <2>2. n # 1 => n - 1 \in DOMAIN wire'[c] /\ (n - 1) + 1 = n
    BY <1>3, FirstAndLast
  <2>3. QED BY <1>3, <1>4, <2>1, <2>2
<1>8. link'[c] # "open" => sendPc'[c] = "dead"
  BY DEF InOrder
<1>9. QED
  BY <1>5, <1>6, <1>7, <1>8 DEF InOrder

LEMMA ReceiveWhole ==
  ASSUME TypeOK, NEW c \in Client, Receive(c), InOrder(c), Leaving(c)
  PROVE  InOrder(c)' /\ Leaving(c)'
<1>1. /\ wire[c] # <<>> /\ wire'[c] = Tail(wire[c]) /\ dataPc[c] = "recv"
      /\ UNCHANGED <<link, sendPc, recipes>> /\ Dispatch(c, Head(wire[c]))
  BY DEF Receive, TypeOK, ServerTypes, sender, server
<1>2. wire[c] \in Seq(Message)
  BY SessionTypes
<1>3. /\ Head(wire[c]) = wire[c][1] /\ 1 \in DOMAIN wire[c] /\ DOMAIN wire[c] = 1 .. Len(wire[c])
      /\ Len(wire[c]) \in Nat \ {0} /\ Len(Tail(wire[c])) = Len(wire[c]) - 1
      /\ Tail(wire[c]) \in Seq(Message) /\ DOMAIN Tail(wire[c]) = 1 .. Len(wire[c]) - 1
      /\ \A k \in DOMAIN Tail(wire[c]) : Tail(wire[c])[k] = wire[c][k + 1]
  BY <1>1, <1>2, TailFacts, SeqFacts
<1>4. /\ dataPc'[c] = "recipe" <=> wire[c][1].type = "recipeHead"
      /\ dataPc'[c] = "exited" <=> wire[c][1].type = "exit"
  BY <1>1, <1>3 DEF Dispatch, TypeOK, ServerTypes
<1>5. InOrder(c)'
  BY <1>1, <1>4, TailOrder
<1>6. wire[c][1].type # "recipe"
  BY <1>1, <1>3 DEF InOrder
<1>7. dataPc'[c] = "exited" /\ sendPc'[c] # "dead" =>
        wire'[c] = <<>> /\ sendPc'[c] \in {"permit", "finished"}
  <2>1. SUFFICES ASSUME wire[c][1].type = "exit", sendPc[c] # "dead"
                 PROVE  Tail(wire[c]) = <<>> /\ sendPc[c] \in {"permit", "finished"}
    BY <1>1, <1>4
  <2>2. 1 = Len(wire[c]) /\ sendPc[c] \in {"permit", "dead"}
    BY <1>3, <2>1 DEF InOrder
  <2>3. Len(Tail(wire[c])) = 0
    BY <1>3, <2>2
  <2>4. Tail(wire[c]) = <<>>
    BY <1>3, <2>3, EmptyLen
  <2>5. QED BY <2>1, <2>2, <2>4
<1>8. ASSUME NEW k \in DOMAIN wire[c], wire[c][k].type = "recipe"
      PROVE  \E j \in DOMAIN wire'[c] : wire'[c][j].type = "recipe"
  <2>1. k # 1
    BY <1>6, <1>8
  <2>2. k - 1 \in DOMAIN wire'[c] /\ (k - 1) + 1 = k
    BY <1>1, <1>3, <2>1
  <2>3. wire'[c][k - 1] = wire[c][k]
    BY <1>1, <1>3, <2>2
  <2>4. QED BY <1>8, <2>2, <2>3
<1>9. Kept(c) <=> Kept(c)'
  BY <1>1 DEF Kept
<1> HIDE DEF Kept
<1>10. Leaving(c)'
  BY <1>1, <1>7, <1>8, <1>9 DEF Leaving
<1>11. QED
  BY <1>5, <1>10

LEMMA StoreRecipeWhole ==
  ASSUME TypeOK, NEW c \in Client, StoreRecipe(c), InOrder(c), Leaving(c), WholeRecipe
  PROVE  /\ InOrder(c)' /\ Leaving(c)' /\ WholeRecipe'
         /\ \A d \in Client : Kept(d) => Kept(d)'
<1>1. PICK m : m = Head(wire[c])
  OBVIOUS
<1>2. /\ wire[c] # <<>> /\ wire'[c] = Tail(wire[c])
      /\ dataPc[c] = "recipe" /\ dataPc'[c] = "recv" /\ UNCHANGED <<link, sendPc>>
      /\ recipes' = [recipes EXCEPT ![m.name] = Append(@, m.chunks)]
  BY <1>1 DEF StoreRecipe, Step, sender, TypeOK, ServerTypes
<1>3. wire[c] \in Seq(Message)
  BY SessionTypes
<1>4. m = wire[c][1] /\ 1 \in DOMAIN wire[c]
  BY <1>1, <1>2, <1>3, TailFacts
<1>5. m.type = "recipe" /\ m.name = FileName[c] /\ m.chunks = File[c]
  BY <1>2, <1>4 DEF InOrder
<1>6. WholeRecipe' /\ Kept(c)' /\ \A d \in Client : Kept(d) => Kept(d)'
  <2>1. FileName[c] \in FileNames /\ File[c] \in Seq(Chunk)
    BY NamesKnown, SessionTypes
  <2>2. recipes' = [recipes EXCEPT ![FileName[c]] = Append(@, File[c])]
    BY <1>2, <1>5
  <2> HIDE DEF Kept
  <2>3. QED BY <2>1, <2>2, RecipesGrow
<1>7. InOrder(c)'
  BY <1>2, <1>4, <1>5, TailOrder
<1>8. Leaving(c)'
  BY <1>2, <1>6 DEF Leaving
<1>9. QED
  BY <1>6, <1>7, <1>8

LEMMA DataWhole ==
  ASSUME TypeOK, NEW c \in Client, DataStep(c), Whole(c), WholeRecipe
  PROVE  /\ Whole(c)' /\ WholeRecipe'
         /\ \A d \in Client : Kept(d) => Kept(d)'
<1>1. UNCHANGED <<todo, batch, last, powPc, queue, done, head, list, sendPc>>
  BY DEF DataStep, Receive, StoreOne, Stored, StoreRecipe, HangUp, ReadReset, StoreJunkRecipe,
         powClient, sender
<1>2. Going(c)' /\ Listed(c)'
  BY <1>1, GoingKept, ListedKept DEF Whole
<1>3. InOrder(c) /\ Leaving(c)
  BY DEF Whole
<1>4. CASE Receive(c)
  BY <1>2, <1>3, <1>4, ReceiveWhole, WholeSame DEF Whole, Receive, server
<1>5. CASE StoreRecipe(c)
  BY <1>2, <1>3, <1>5, StoreRecipeWhole DEF Whole
<1>6. CASE StoreOne(c)
  <2>1. UNCHANGED <<wire, link, dataPc, recipes>>
    BY <1>6 DEF StoreOne, connection
  <2>2. QED
    BY <1>1, <1>2, <1>3, <2>1, WholeSame, OrderKept, LeavingKept DEF Whole
<1>7. CASE Stored(c)
  <2>1. UNCHANGED <<wire, link, recipes>> /\ dataPc[c] = "store" /\ dataPc'[c] = "recv"
    BY <1>7 DEF Stored, Step, connection, server, TypeOK, ServerTypes
  <2>2. InOrder(c)'
    BY <1>1, <1>3, <2>1 DEF InOrder
  <2>3. Kept(c) => Kept(c)'
    BY <2>1, WholeSame
  <2>4. Leaving(c)'
    <3> HIDE DEF Kept
    <3>1. QED BY <1>1, <1>3, <2>1, <2>3 DEF Leaving
  <2>5. QED BY <1>2, <2>1, <2>2, <2>4, WholeSame DEF Whole
<1>8. CASE HangUp(c) \/ ReadReset(c)
  <2>1. /\ UNCHANGED <<wire, link, recipes>> /\ link[c] # "open" /\ wire[c] = <<>>
        /\ DOMAIN <<>> = {}
    BY <1>8 DEF HangUp, ReadReset, connection, server
  <2>2. sendPc[c] = "dead"
    BY <1>3, <2>1 DEF InOrder
  <2>3. InOrder(c)' /\ Leaving(c)'
    BY <1>1, <2>1, <2>2 DEF InOrder, Leaving
  <2>4. QED BY <1>2, <2>1, <2>3, WholeSame DEF Whole
<1>9. CASE StoreJunkRecipe(c)
  <2>1. /\ UNCHANGED <<wire, link>> /\ link[c] # "open" /\ wire[c] = <<>> /\ DOMAIN <<>> = {}
    BY <1>9 DEF StoreJunkRecipe, connection
  <2>2. sendPc[c] = "dead"
    BY <1>3, <2>1 DEF InOrder
  <2>3. InOrder(c)' /\ Leaving(c)'
    BY <1>1, <2>1, <2>2 DEF InOrder, Leaving
  <2>4. WholeRecipe' /\ \A d \in Client : Kept(d) => Kept(d)'
    <3>1. CASE UNCHANGED recipes
      BY <3>1, WholeSame
    <3>2. CASE \E f \in FileNames : \E i \in DOMAIN recipes[f] :
                 recipes' = [recipes EXCEPT ![f] = Append(@, recipes[f][i])]
      <4>1. PICK f \in FileNames : \E i \in DOMAIN recipes[f] :
              recipes' = [recipes EXCEPT ![f] = Append(@, recipes[f][i])]
        BY <3>2
      <4>2. PICK i \in DOMAIN recipes[f] :
              recipes' = [recipes EXCEPT ![f] = Append(@, recipes[f][i])]
        BY <4>1
      <4>3. recipes[f] \in Seq(Seq(Chunk))
        BY DEF TypeOK, ServerTypes
      <4>4. recipes[f][i] \in Seq(Chunk)
        BY <4>2, <4>3
      <4>5. f # NoFile => \E d \in Client : FileName[d] = f /\ recipes[f][i] = File[d]
        BY <4>2 DEF WholeRecipe
      <4> HIDE DEF Kept
      <4>6. QED BY <4>2, <4>4, <4>5, RecipesGrow
    <3>3. QED BY <1>9, <3>1, <3>2 DEF StoreJunkRecipe
  <2>5. QED BY <1>2, <2>3, <2>4 DEF Whole
<1>10. QED
  BY <1>4, <1>5, <1>6, <1>7, <1>8, <1>9 DEF DataStep

LEMMA DieWhole ==
  ASSUME TypeOK, NEW c \in Client, Die(c), Whole(c)
  PROVE  Whole(c)'
<1>1. sendPc'[c] = "dead" /\ dataPc'[c] = dataPc[c] /\ InOrder(c)
  BY DEF Die, TypeOK, SenderTypes, dataThread, Whole
<1>2. wire[c] \in Seq(Message)
  BY SessionTypes
<1>3. PICK n \in 0 .. Len(wire[c]) : wire'[c] = SubSeq(wire[c], 1, n)
  BY DEF Die, TypeOK, ServerTypes
<1>4. /\ n \in Nat /\ DOMAIN wire'[c] = 1 .. n /\ Len(wire'[c]) = n
      /\ DOMAIN wire[c] = 1 .. Len(wire[c]) /\ Len(wire[c]) \in Nat
      /\ \A k \in 1 .. n : k \in DOMAIN wire[c] /\ wire'[c][k] = wire[c][k]
  BY <1>2, <1>3
<1>5. wire'[c] # <<>> => wire[c] # <<>> /\ wire'[c][1] = wire[c][1]
  BY <1>2, <1>3
<1>6. ASSUME NEW k \in DOMAIN wire'[c]
      PROVE  /\ wire'[c][k].type = "recipe" =>
                  /\ wire'[c][k].name = FileName[c] /\ wire'[c][k].chunks = File[c]
                  /\ IF k = 1 THEN dataPc'[c] = "recipe" ELSE wire'[c][k - 1].type = "recipeHead"
             /\ wire'[c][k].type = "recipeHead" =>
                  k = n \/ wire'[c][k + 1].type = "recipe"
             /\ wire'[c][k].type = "exit" => k = n
  <2>1. /\ k \in DOMAIN wire[c] /\ wire'[c][k] = wire[c][k]
        /\ k # 1 => k - 1 \in 1 .. n
        /\ k # n => k + 1 \in 1 .. n /\ k # Len(wire[c])
    BY <1>3, <1>4
  <2>2. wire[c][k].type = "recipe" =>
          /\ wire[c][k].name = FileName[c] /\ wire[c][k].chunks = File[c]
          /\ IF k = 1 THEN dataPc[c] = "recipe" ELSE wire[c][k - 1].type = "recipeHead"
    BY <1>1, <2>1 DEF InOrder
  <2>3. wire[c][k].type = "recipeHead" /\ k # n => wire[c][k + 1].type = "recipe"
    BY <1>1, <2>1 DEF InOrder
  <2>4. wire[c][k].type = "exit" => k = n
    BY <1>1, <2>1 DEF InOrder
  <2>5. QED BY <1>1, <1>4, <2>1, <2>2, <2>3, <2>4
<1>7. InOrder(c)'
  BY <1>1, <1>4, <1>5, <1>6 DEF InOrder
<1>8. Going(c)' /\ Listed(c)' /\ Leaving(c)'
  BY <1>1 DEF Going, Listed, Leaving
<1>9. QED
  BY <1>7, <1>8 DEF Whole

-----------------------------------------------------------------------------
LEMMA WholeInit ==
  ASSUME Init
  PROVE  WholeInv
<1>1. TypeOK /\ WholeRecipe
  BY TypeInit DEF Init, WholeRecipe
<1>2. ASSUME NEW c \in Client PROVE Going(c) /\ Listed(c) /\ InOrder(c) /\ Leaving(c)
  <2>1. Len(<<>>) = 0 /\ DOMAIN <<>> = {} /\ Place(0, 1) = 1 /\ 0 + 1 = 1
    BY DEF Place
  <2>2. File[c] \in Seq(Chunk)
    BY UploadAssumption
  <2>3. PICK n \in Nat : n = Len(File[c])
    BY <2>2
  <2>4. /\ todo[c] = Append(File[c], Recipe) /\ Len(todo[c]) = n + 1
        /\ DOMAIN todo[c] = 1 .. n + 1 /\ todo[c][n + 1] = Recipe
        /\ DOMAIN File[c] = 1 .. n /\ \A i \in 1 .. n : todo[c][i] = File[c][i]
    BY <2>2, <2>3, AppendFacts, SeqFacts DEF Init
  <2>5. todo[c] # <<>>
    <3>1. n + 1 # 0
      OBVIOUS
    <3>2. QED BY <2>1, <2>4, <3>1
  <2>6. \A i \in DOMAIN todo[c] :
          todo[c][i] = IF i = Len(todo[c]) THEN Recipe ELSE File[c][0 + 1 - 1 + 0 + i]
    BY <2>4
  <2>7. n = 0 + 1 - 1 + 0 + (n + 1) - 1
    OBVIOUS
  <2>8. Carried(c, 0)
    BY <2>1, <2>3, <2>4, <2>5, <2>6, <2>7 DEF Init, Carried
  <2>9. 0 \in 0 .. Len(queue[c])
    BY <2>1 DEF Init
  <2>10. Going(c)
    BY <2>8, <2>9 DEF Init, Going
  <2>11. QED
    BY <2>1, <2>10 DEF Init, Listed, InOrder, Leaving
<1>3. QED
  BY <1>1, <1>2 DEF WholeInv

LEMMA PowWhole ==
  ASSUME TypeOK, NEW c \in Client, PowClientStep(c), Whole(c)
  PROVE  Whole(c)' /\ UNCHANGED recipes
<1>1. UNCHANGED <<head, list, sendPc, wire, link, dataPc, recipes>>
  BY DEF PowClientStep, Collect, PassRecipe, LastBatch, Ask, DedupByHash, Forward,
         sender, connection, dataThread, server
<1>2. Going(c)'
  BY PowGoing DEF Whole
<1>3. QED
  BY <1>1, <1>2, WholeSame, ListedKept, OrderKept, LeavingKept DEF Whole

\* A step of one client's threads leaves the others' alone.
LEMMA OthersApart ==
  ASSUME TypeOK, NEW c \in Client, NEW d \in Client \ {c},
         PowClientStep(c) \/ SenderStep(c) \/ DataStep(c) \/ Die(c)
  PROVE  UNCHANGED <<list[d], queue[d], batch[d], todo[d], head[d], last[d], done[d], powPc[d],
                     sendPc[d], wire[d], link[d], dataPc[d]>>
<1> USE DEF TypeOK, PowTypes, SenderTypes, ServerTypes, Step, powClient, powThread, sender,
            connection, dataThread, server
<1>1. CASE PowClientStep(c)
  BY <1>1 DEF PowClientStep, Collect, PassRecipe, LastBatch, Ask, DedupByHash, Forward
<1>2. CASE SenderStep(c)
  BY <1>2 DEF SenderStep, TakeRecipe, TakeChunk, SendRest, SendRecipeHead, SendRecipe,
              SendEndFlag, Finish, Send
<1>3. CASE DataStep(c)
  BY <1>3 DEF DataStep, Receive, StoreOne, Stored, StoreRecipe, HangUp, ReadReset,
              StoreJunkRecipe, Dispatch
<1>4. CASE Die(c)
  BY <1>4 DEF Die
<1>5. QED
  BY <1>1, <1>2, <1>3, <1>4

LEMMA WholeStep ==
  ASSUME "pow" \notin Faults, WholeInv, [Next]_vars
  PROVE  WholeInv'
<1>1. TypeOK /\ WholeRecipe /\ \A c \in Client : Whole(c)
  BY DEF WholeInv, Whole
<1>2. TypeOK'
  BY <1>1, TypeStep
<1>3. CASE UNCHANGED vars
  <2>1. UNCHANGED <<todo, batch, last, powPc, queue, done, head, list, sendPc, wire, link,
                    dataPc, recipes>>
    BY <1>3 DEF vars, powClient, powThread, sender, connection, dataThread, server
  <2>2. \A c \in Client : Whole(c)'
    BY <1>1, <2>1, WholeKept, WholeSame
  <2>3. QED BY <1>1, <1>2, <2>1, <2>2, WholeSame DEF WholeInv, Whole
<1>4. ASSUME NEW c \in Client,
             PowClientStep(c) \/ SenderStep(c) \/ DataStep(c) \/ Die(c)
      PROVE  WholeInv'
  <2>1. Whole(c)' /\ WholeRecipe' /\ \A d \in Client : Kept(d) => Kept(d)'
    <3>1. CASE PowClientStep(c)
      BY <1>1, <3>1, PowWhole, WholeSame
    <3>2. CASE SenderStep(c)
      <4>1. UNCHANGED recipes
        BY <3>2 DEF SenderStep, TakeRecipe, TakeChunk, SendRest, SendRecipeHead, SendRecipe,
                    SendEndFlag, Finish, server
      <4>2. QED BY <1>1, <3>2, <4>1, SenderWhole, WholeSame
    <3>3. CASE DataStep(c)
      BY <1>1, <3>3, DataWhole
    <3>4. CASE Die(c)
      <4>1. UNCHANGED recipes
        BY <3>4 DEF Die, server
      <4>2. QED BY <1>1, <3>4, <4>1, DieWhole, WholeSame
    <3>5. QED BY <1>4, <3>1, <3>2, <3>3, <3>4
  <2>2. ASSUME NEW d \in Client \ {c} PROVE Whole(d)'
    BY <1>1, <1>4, <2>1, OthersApart, WholeKept
  <2>3. QED BY <1>2, <2>1, <2>2 DEF WholeInv, Whole
<1>5. \A c \in Client : ~RefuseBatch(c)
  BY DEF RefuseBatch
<1>6. QED
  BY <1>3, <1>4, <1>5 DEF Next

LEMMA WholeAlways == "pow" \notin Faults => (Spec => []WholeInv)
<1> SUFFICES ASSUME "pow" \notin Faults
             PROVE  Spec => []WholeInv
  OBVIOUS
<1>1. Init => WholeInv
  BY WholeInit
<1>2. WholeInv /\ [Next]_vars => WholeInv'
  BY WholeStep
<1>3. QED
  BY <1>1, <1>2, PTL DEF Spec

\* If no batch is refused, a recipe under a file's name lists the whole file in order: through both
\* queues, batches of any size, the recipe head overtaking them, deaths and resets.
THEOREM RecipesWhole == "pow" \notin Faults => (Spec => []WholeRecipe)
<1>1. WholeInv => WholeRecipe
  BY DEF WholeInv
<1>2. QED
  BY <1>1, WholeAlways, PTL

\* And a client that has been given leave to exit has its recipe at the server.
THEOREM FinishedAreStored == "pow" \notin Faults => (Spec => []FinishedIsStored)
<1>1. WholeInv => FinishedIsStored
  <2>1. ASSUME NEW c \in Client, Kept(c)
        PROVE  File[c] \in ToSet(recipes[FileName[c]])
    BY <2>1 DEF Kept, ToSet
  <2> HIDE DEF Kept
  <2>2. QED BY <2>1 DEF WholeInv, Leaving, FinishedIsStored
<1>2. QED
  BY <1>1, WholeAlways, PTL
=============================================================================
