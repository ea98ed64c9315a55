------------------------- MODULE ContainerStoreProofs -------------------------
(* Proofs about ContainerStore, for every value of its constants. *)
EXTENDS ContainerStore, TLAPS

LEMMA ContainerPositive == MaxContainerSize \in Nat \ {0}
BY StoreAssumption

\* What the byte operations return.
LEMMA PutType ==
  ASSUME NEW b \in Body, NEW at \in Nat, NEW c \in Chunk
  PROVE  Put(b, at, c) \in Body
BY StoreAssumption DEF Put, Body, Byte, Offset, Blank

LEMMA ReadIntoType ==
  ASSUME NEW b \in Body, NEW bytes \in Body, NEW n
  PROVE  ReadInto(b, bytes, n) \in Body
BY DEF ReadInto, Body

LEMMA CopyType ==
  ASSUME NEW b \in Body, NEW at \in 0 .. MaxContainerSize - 1, NEW c \in Chunk
  PROVE  Copy(b, at, c) \in [0 .. Size[c] - 1 -> Byte]
<1>1. ASSUME NEW i \in 0 .. Size[c] - 1
      PROVE  b[at + i] \in Byte
  <2>1. at + i \in Offset
    BY StoreAssumption DEF Offset
  <2>2. QED BY <2>1 DEF Body
<1>2. QED BY <1>1 DEF Copy

LEMMA BlankTypes == BlankBody \in Body /\ NoFile \in File
BY DEF BlankBody, Body, Byte, NoFile, File, NoName

LEMMA NamesAreNumbers == Name \subseteq Nat
BY StoreAssumption DEF Name

LEMMA KeyNotNoKey == NoKey \notin Key
BY DEF NoKey, Key, Name, NoName

-----------------------------------------------------------------------------
\* Every step keeps the types.
LEMMA TypeStep ==
  ASSUME TypeOK, [Next]_vars
  PROVE  TypeOK'
<1> USE StoreAssumption, ContainerPositive, BlankTypes
<1> USE DEF TypeOK
<1>1. ASSUME NEW t \in Thread, NEW c \in Chunk, StoreChunk(t, c) \/ RestoreChunk(t, c)
      PROVE  TypeOK'
  <2>1. PICK label \in {"write", "lookup"} : Begin(t, c, label)
    BY <1>1 DEF StoreChunk, RestoreChunk
  <2>2. QED
    BY <2>1 DEF Begin, Goto, memory, disk, Label, Keyed
<1>2. ASSUME NEW t \in Thread, AppendToContainer(t)
      PROVE  TypeOK'
  <2>1. body' \in Body
    BY <1>2, PutType DEF AppendToContainer
  <2>2. [name |-> name, offset |-> used] \in Key
    BY <1>2 DEF AppendToContainer, Fits, Key
  <2>3. QED
    BY <1>2, <2>1, <2>2 DEF AppendToContainer, Goto, disk, Label, Keyed
<1>3. ASSUME NEW t \in Thread, OpenFull(t)
      PROVE  TypeOK'
  <2>1. [NoFile EXCEPT !.size = 0] \in File
    BY DEF File, NoFile
  <2>2. [name |-> name, offset |-> 0] \in Key
    BY DEF Key
  <2>3. QED
    BY <1>3, <2>1, <2>2 DEF OpenFull, Goto, memory, Label, Keyed
<1>4. ASSUME NEW t \in Thread, SaveFull(t)
      PROVE  TypeOK'
  <2>1. Saved \in File
    BY ReadIntoType DEF Saved, File
  <2>2. QED
    BY <1>4, <2>1 DEF SaveFull, Goto, memory, Label, Keyed, Key, At
<1>5. ASSUME NEW t \in Thread, NextName(t)
      PROVE  TypeOK'
  BY <1>5 DEF NextName, Goto, disk, Label, Keyed
<1>6. ASSUME NEW t \in Thread, WriteFirst(t)
      PROVE  TypeOK'
  <2>1. body' \in Body
    BY <1>6, PutType DEF WriteFirst
  <2>2. [name |-> name, offset |-> 0] \in Key
    BY DEF Key
  <2>3. QED
    BY <1>6, <2>1, <2>2 DEF WriteFirst, Goto, disk, Label, Keyed
<1>7. ASSUME NEW t \in Thread, InsertIndex(t)
      PROVE  TypeOK'
  BY <1>7 DEF InsertIndex, Goto, memory, Label, Keyed, At
<1>8. ASSUME NEW t \in Thread, Advance(t)
      PROVE  TypeOK'
  <2>1. used' \in Nat
    BY <1>8 DEF Advance
  <2>2. QED
    BY <1>8, <2>1 DEF Advance, End, Goto, disk, Label, Keyed
<1>9. ASSUME NEW t \in Thread, Lookup(t)
      PROVE  TypeOK'
  <2>1. Zeros(chunk[t]) \in [0 .. Size[chunk[t]] - 1 -> Byte]
    BY DEF Zeros, Byte
  <2>2. QED
    BY <1>9, <2>1 DEF Lookup, Answer, Goto, memory, disk, Label, Keyed
<1>10. ASSUME NEW t \in Thread, FetchCurrent(t) \/ FetchCached(t)
       PROVE  TypeOK'
  BY <1>10 DEF FetchCurrent, FetchCached, Goto, memory, disk, Label, Keyed, At
<1>11. ASSUME NEW t \in Thread, FetchFile(t)
       PROVE  TypeOK'
  <2>1. file[key[t].name].byte \in Body
    BY <1>11 DEF FetchFile, At, Keyed, Key, File
  <2>2. cacheBody' \in Body
    BY <1>11, <2>1, ReadIntoType DEF FetchFile
  <2>3. QED
    BY <1>11, <2>2 DEF FetchFile, Goto, disk, Label, Keyed, At
<1>12. ASSUME NEW t \in Thread, FetchNothing(t)
       PROVE  TypeOK'
  <2>1. Zeros(chunk[t]) \in [0 .. Size[chunk[t]] - 1 -> Byte]
    BY DEF Zeros, Byte
  <2>2. QED
    BY <1>12, <2>1 DEF FetchNothing, Answer, Goto, memory, disk, Label, Keyed
<1>13. ASSUME NEW t \in Thread, CopyCurrent(t)
       PROVE  TypeOK'
  <2>1. Copy(body, key[t].offset, chunk[t]) \in [0 .. Size[chunk[t]] - 1 -> Byte]
    BY <1>13, CopyType DEF CopyCurrent, At, Keyed, Key
  <2>2. QED
    BY <1>13, <2>1 DEF CopyCurrent, Answer, Goto, memory, disk, Label, Keyed
<1>14. ASSUME NEW t \in Thread, CopyCached(t) \/ CopyLoaded(t)
       PROVE  TypeOK'
  <2>1. Copy(cacheBody, key[t].offset, chunk[t]) \in [0 .. Size[chunk[t]] - 1 -> Byte]
    BY <1>14, CopyType DEF CopyCached, CopyLoaded, At, Keyed, Key
  <2>2. cacheName' \in Name \cup {NoName}
    BY <1>14 DEF CopyCached, CopyLoaded, At, Keyed, Key, memory
  <2>3. QED
    BY <1>14, <2>1, <2>2 DEF CopyCached, CopyLoaded, Answer, Goto, memory, disk, Label, Keyed
<1>15. ASSUME NEW t \in Thread, Answered(t)
       PROVE  TypeOK'
  BY <1>15 DEF Answered, End, Goto, memory, disk, Label, Keyed
<1>16. CASE SaveConfig
  BY <1>16 DEF SaveConfig, memory, local
<1>17. CASE SaveCurrent
  <2>1. Saved \in File
    BY ReadIntoType DEF Saved, File
  <2>2. QED
    BY <1>17, <2>1 DEF SaveCurrent, memory, local
<1>18. CASE Exit \/ Kill
  BY <1>18 DEF Exit, Kill, Vanish, disk, Name, Label, Keyed
<1>19. CASE Restart
  <2>1. body' \in Body
    BY <1>19, ReadIntoType DEF Restart, File
  <2>2. QED
    BY <1>19, <2>1 DEF Restart, disk, local
<1>20. CASE UNCHANGED vars
  BY <1>20 DEF vars, memory, disk, local
<1>21. QED
  BY <1>1, <1>2, <1>3, <1>4, <1>5, <1>6, <1>7, <1>8, <1>9, <1>10, <1>11,
     <1>12, <1>13, <1>14, <1>15, <1>16, <1>17, <1>18, <1>19, <1>20
     DEF Next, StoreStep, RestoreStep

LEMMA TypeInit == Init => TypeOK
<1>1. SomeChunk \in Chunk
  BY StoreAssumption DEF SomeChunk
<1>2. 0 \in Name
  BY StoreAssumption DEF Name
<1>3. QED
  BY <1>1, <1>2, ContainerPositive, BlankTypes DEF Init, TypeOK, Label, Keyed

\* The variables always have the values that TypeOK gives them, also when
\* threads race and the process is interrupted or killed at any step.
THEOREM TypeCorrect == Spec => []TypeOK
BY TypeInit, TypeStep, PTL DEF Spec

-----------------------------------------------------------------------------
\* Where the bytes of a chunk are after a write or a read.
LEMMA HoldsPointwise ==
  ASSUME NEW b, NEW at, NEW c \in Chunk
  PROVE  Holds(b, at, c) <=> \A i \in 0 .. Size[c] - 1 : b[at + i] = <<c, i>>
BY DEF Holds, Copy, Data

LEMMA PutHolds ==
  ASSUME NEW b, NEW at \in 0 .. MaxContainerSize - 1, NEW c \in Chunk
  PROVE  Holds(Put(b, at, c), at, c)
<1>1. ASSUME NEW i \in 0 .. Size[c] - 1
      PROVE  Put(b, at, c)[at + i] = <<c, i>>
  <2>1. /\ at + i \in Offset
        /\ at <= at + i /\ at + i < at + Size[c] /\ (at + i) - at = i
    BY StoreAssumption DEF Offset
  <2>2. QED BY <2>1 DEF Put
<1>2. QED BY <1>1, HoldsPointwise

\* A write leaves the chunks below it alone.
LEMMA PutKeeps ==
  ASSUME NEW b, NEW at \in Nat, NEW c \in Chunk,
         NEW o \in 0 .. MaxContainerSize - 1, NEW d \in Chunk,
         Holds(b, o, d), o + Size[d] <= at
  PROVE  Holds(Put(b, at, c), o, d)
<1>1. ASSUME NEW i \in 0 .. Size[d] - 1
      PROVE  Put(b, at, c)[o + i] = <<d, i>>
  <2>1. o + i \in Offset /\ ~ (at <= o + i)
    BY StoreAssumption DEF Offset
  <2>2. b[o + i] = <<d, i>>
    BY HoldsPointwise
  <2>3. QED BY <2>1, <2>2 DEF Put
<1>2. QED BY <1>1, HoldsPointwise

\* A chunk within the bytes that are read is in the body they are read into.
LEMMA ReadIntoHolds ==
  ASSUME NEW b, NEW bytes, NEW n \in Nat,
         NEW o \in 0 .. MaxContainerSize - 1, NEW d \in Chunk,
         Holds(bytes, o, d), o + Size[d] <= n
  PROVE  Holds(ReadInto(b, bytes, n), o, d)
<1>1. ASSUME NEW i \in 0 .. Size[d] - 1
      PROVE  ReadInto(b, bytes, n)[o + i] = <<d, i>>
  <2>1. o + i \in Offset /\ o + i < n
    BY StoreAssumption DEF Offset
  <2>2. bytes[o + i] = <<d, i>>
    BY HoldsPointwise
  <2>3. QED BY <2>1, <2>2 DEF ReadInto
<1>2. QED BY <1>1, HoldsPointwise

-----------------------------------------------------------------------------
(* The inductive invariant, when requests are served one at a time and the  *)
(* server is not interrupted in one.                                        *)

Orderly == Serial /\ Faults = {}

\* The thread that takes a step of a call is the only one in a call.
LEMMA OnlyThread ==
  ASSUME IndInv, NEW t \in Thread, pc[t] # "idle",
         NEW label \in Label, Goto(t, label), phase' = phase
  PROVE  /\ phase = "up" /\ pc'[t] = label
         /\ \A u \in Thread : u # t => pc[u] = "idle" /\ pc'[u] = "idle"
         /\ Alone'
<1>1. phase = "up" /\ \A u \in Thread : u # t => pc[u] = "idle"
  BY DEF IndInv, Alone, Quiet
<1>2. pc'[t] = label /\ \A u \in Thread : u # t => pc'[u] = "idle"
  BY <1>1 DEF IndInv, TypeOK, Goto
<1>3. QED
  BY <1>1, <1>2 DEF Alone

LEMMA InitInd == Init => IndInv
<1> SUFFICES ASSUME Init PROVE IndInv
  OBVIOUS
<1>1. TypeOK
  BY TypeInit
<1>2. Alone /\ Stopping
  BY ContainerPositive DEF Init, Alone, Stopping, Quiet
<1>3. Placed /\ Cached
  BY DEF Init, Placed, Cached
<1>4. \A t \in Thread : StoreCall(t) /\ RestoreCall(t)
  BY DEF Init, StoreCall, RestoreCall
<1>5. QED
  BY <1>1, <1>2, <1>3, <1>4 DEF IndInv

LEMMA BeginInd ==
  ASSUME Orderly, IndInv, TypeOK', NEW t \in Thread, NEW c \in Chunk,
         NEW label \in {"write", "lookup"}, Begin(t, c, label)
  PROVE  IndInv'
<1>1. phase = "up" /\ Quiet
  BY DEF Begin, Orderly
<1>2. pc'[t] = label /\ \A u \in Thread : u # t => pc'[u] = "idle"
  BY <1>1 DEF Begin, Goto, Quiet, IndInv, TypeOK
<1> USE <1>1, <1>2 DEF Begin, memory, disk
<1>3. Alone' /\ Stopping'
  BY DEF IndInv, Alone, Stopping, Saved
<1>4. Placed' /\ Cached'
  BY DEF IndInv, Placed, PlacedInMemory, Fresh, Quiet, Cached, CacheHas, InFile
<1>5. ASSUME NEW u \in Thread
      PROVE  StoreCall(u)' /\ RestoreCall(u)'
  BY DEF StoreCall, RestoreCall
<1>6. QED
  BY <1>3, <1>4, <1>5 DEF IndInv

LEMMA AppendInd ==
  ASSUME IndInv, TypeOK', NEW t \in Thread, AppendToContainer(t)
  PROVE  IndInv'
<1> USE DEF AppendToContainer, At, disk
<1>1. /\ phase = "up" /\ pc'[t] = "insert" /\ Alone'
      /\ \A u \in Thread : u # t => pc[u] = "idle" /\ pc'[u] = "idle"
  BY OnlyThread DEF Label
<1>2. /\ used \in 0 .. MaxContainerSize - 1 /\ chunk[t] \in Chunk
      /\ used + Size[chunk[t]] < MaxContainerSize
  BY StoreAssumption DEF IndInv, TypeOK, Fits, Stopping
<1>3. Holds(body', used, chunk[t])
  BY <1>2, PutHolds
<1>4. Stopping' /\ Cached'
  BY <1>1 DEF IndInv, Stopping, Cached, CacheHas
<1>5. Placed'
  <2> SUFFICES ASSUME NEW c \in Chunk, index[c] # NoKey
               PROVE  PlacedInMemory(index[c], c)'
    BY <1>1 DEF Placed
  <2>1. PlacedInMemory(index[c], c) /\ ~ Fresh(index[c], c)
    BY <1>1 DEF IndInv, Placed, Fresh
  <2>2. index[c] \in Key
    BY DEF IndInv, TypeOK
  <2>3. index[c].name = name => Holds(body', index[c].offset, c)
    BY <1>2, <2>1, <2>2, PutKeeps DEF PlacedInMemory, Key
  <2>4. QED
    BY <2>1, <2>3 DEF PlacedInMemory, InFile
<1>6. ASSUME NEW u \in Thread
      PROVE  StoreCall(u)' /\ RestoreCall(u)'
  <2>1. key'[t] = [name |-> name, offset |-> used]
    BY DEF IndInv, TypeOK
  <2>2. QED
    BY <1>1, <1>2, <1>3, <2>1 DEF StoreCall, RestoreCall
<1>7. QED
  BY <1>1, <1>4, <1>5, <1>6 DEF IndInv

LEMMA OpenFullInd ==
  ASSUME IndInv, TypeOK', NEW t \in Thread, OpenFull(t)
  PROVE  IndInv'
<1> USE DEF OpenFull, At, memory
<1>1. /\ phase = "up" /\ pc'[t] = "save" /\ Alone'
      /\ \A u \in Thread : u # t => pc[u] = "idle" /\ pc'[u] = "idle"
  BY OnlyThread DEF Label
<1>2. Stopping' /\ Cached'
  BY <1>1 DEF IndInv, Stopping, Cached, CacheHas
<1>3. Placed'
  <2> SUFFICES ASSUME NEW c \in Chunk, index[c] # NoKey
               PROVE  PlacedInMemory(index[c], c)'
    BY <1>1 DEF Placed
  <2>1. PlacedInMemory(index[c], c) /\ ~ Fresh(index[c], c)
    BY <1>1 DEF IndInv, Placed, Fresh
  <2>2. index[c].name \in Name /\ name \in Name
    BY DEF IndInv, TypeOK, Key
  <2>3. index[c].name < name => file'[index[c].name] = file[index[c].name]
    BY <2>2 DEF IndInv, TypeOK, Name
  <2>4. QED
    BY <2>1, <2>3 DEF PlacedInMemory, InFile
<1>4. ASSUME NEW u \in Thread
      PROVE  StoreCall(u)' /\ RestoreCall(u)'
  <2>1. key'[t].name = name
    BY DEF IndInv, TypeOK
  <2>2. QED
    BY <1>1, <2>1 DEF StoreCall, RestoreCall
<1>5. QED
  BY <1>1, <1>2, <1>3, <1>4 DEF IndInv

\* What is below used_ in the current container is in the file saved from it.
LEMMA SavedHolds ==
  ASSUME IndInv, NEW c \in Chunk, index[c] # NoKey, phase # "down",
         index[c].name = name, \A t \in Thread : pc[t] # "advance"
  PROVE  /\ Holds(Saved.byte, index[c].offset, c)
         /\ index[c].offset + Size[c] <= used /\ Saved.size = used
<1>1. PlacedInMemory(index[c], c) /\ ~ Fresh(index[c], c)
  BY DEF IndInv, Placed, Fresh
<1>2. index[c].offset \in 0 .. MaxContainerSize - 1 /\ used \in Nat
  BY DEF IndInv, TypeOK, Key
<1>3. QED
  BY <1>1, <1>2, ReadIntoHolds DEF PlacedInMemory, Saved

LEMMA SaveFullInd ==
  ASSUME IndInv, TypeOK', NEW t \in Thread, SaveFull(t)
  PROVE  IndInv'
<1> USE DEF SaveFull, At, memory
<1>1. /\ phase = "up" /\ pc'[t] = "next" /\ Alone'
      /\ \A u \in Thread : u # t => pc[u] = "idle" /\ pc'[u] = "idle"
  BY OnlyThread DEF Label
<1>2. key[t].name = name /\ name \in Name
  BY DEF IndInv, StoreCall, TypeOK
<1>3. file' = [file EXCEPT ![name] = Saved] /\ file'[name] = Saved
  BY <1>2 DEF IndInv, TypeOK
<1>4. Saved' = Saved
  BY DEF Saved
<1>5. Stopping' /\ Cached'
  BY <1>1 DEF IndInv, Stopping, Cached, CacheHas
<1>6. Placed'
  <2> SUFFICES ASSUME NEW c \in Chunk, index[c] # NoKey
               PROVE  PlacedInMemory(index[c], c)'
    BY <1>1 DEF Placed
  <2>1. PlacedInMemory(index[c], c) /\ ~ Fresh(index[c], c)
    BY <1>1 DEF IndInv, Placed, Fresh
  <2>2. index[c].name < name => file'[index[c].name] = file[index[c].name]
    BY <1>2, <1>3 DEF IndInv, TypeOK, Name, Key
  <2>3. QED
    BY <2>1, <2>2 DEF PlacedInMemory, InFile
<1>7. ASSUME NEW u \in Thread
      PROVE  StoreCall(u)' /\ RestoreCall(u)'
  BY <1>1, <1>3, <1>4 DEF StoreCall, RestoreCall
<1>8. QED
  BY <1>1, <1>5, <1>6, <1>7 DEF IndInv

LEMMA NextNameInd ==
  ASSUME IndInv, TypeOK', NEW t \in Thread, NextName(t)
  PROVE  IndInv'
<1> USE DEF NextName, At, disk
<1>1. /\ phase = "up" /\ pc'[t] = "first" /\ Alone'
      /\ \A u \in Thread : u # t => pc[u] = "idle" /\ pc'[u] = "idle"
  BY OnlyThread DEF Label
<1>2. file[name] = Saved /\ name \in Nat
  BY NamesAreNumbers DEF IndInv, StoreCall, TypeOK
<1>3. ASSUME NEW c \in Chunk, index[c] # NoKey
      PROVE  /\ index[c].name < name'
             /\ InFile(index[c], c, file[index[c].name].size)
  <2>1. PlacedInMemory(index[c], c)
    BY <1>1, <1>3 DEF IndInv, Placed
  <2>2. index[c].name \in Nat /\ name' = name + 1
    <3>1. index[c].name \in Name
      BY <1>3 DEF IndInv, TypeOK, Key
    <3>2. ~ \E u \in Thread \ {t} : pc[u] = "next"
      BY <1>1
    <3>3. QED BY <3>1, <3>2, NamesAreNumbers
  <2>3. CASE index[c].name = name
    <3>1. \A u \in Thread : pc[u] # "advance"
      BY <1>1
    <3>2. QED
      BY <1>1, <1>2, <1>3, <2>2, <2>3, <3>1, SavedHolds DEF InFile
  <2>4. CASE index[c].name # name
    BY <1>2, <2>1, <2>2, <2>4 DEF PlacedInMemory
  <2>5. QED BY <2>3, <2>4
<1>4. Stopping' /\ Cached'
  BY <1>1, <1>2 DEF IndInv, Stopping, Cached, CacheHas, TypeOK, Name, NoName
<1>5. Placed'
  BY <1>1, <1>2, <1>3 DEF Placed, PlacedInMemory, InFile, IndInv, TypeOK, Key, Name
<1>6. ASSUME NEW u \in Thread
      PROVE  StoreCall(u)' /\ RestoreCall(u)'
  BY <1>1, <1>2, <1>3 DEF StoreCall, RestoreCall, IndInv, TypeOK, Key, Name
<1>7. QED
  BY <1>1, <1>4, <1>5, <1>6 DEF IndInv

LEMMA WriteFirstInd ==
  ASSUME IndInv, TypeOK', NEW t \in Thread, WriteFirst(t)
  PROVE  IndInv'
<1> USE DEF WriteFirst, At, disk
<1>1. /\ phase = "up" /\ pc'[t] = "insert" /\ Alone'
      /\ \A u \in Thread : u # t => pc[u] = "idle" /\ pc'[u] = "idle"
  BY OnlyThread DEF Label
<1>2. \A c \in Chunk : index[c] # NoKey => index[c].name # name
  BY DEF IndInv, StoreCall
<1>3. Holds(body', 0, chunk[t]) /\ 0 + Size[chunk[t]] < MaxContainerSize
  <2>1. chunk[t] \in Chunk /\ 0 \in 0 .. MaxContainerSize - 1
    BY ContainerPositive DEF IndInv, TypeOK
  <2>2. QED
    BY <2>1, StoreAssumption, PutHolds
<1>4. Stopping' /\ Cached'
  BY <1>1, ContainerPositive DEF IndInv, Stopping, Cached, CacheHas
<1>5. Placed'
  BY <1>1, <1>2 DEF IndInv, Placed, PlacedInMemory, InFile
<1>6. ASSUME NEW u \in Thread
      PROVE  StoreCall(u)' /\ RestoreCall(u)'
  <2>1. key'[t] = [name |-> name, offset |-> 0]
    BY DEF IndInv, TypeOK
  <2>2. QED
    BY <1>1, <1>3, <2>1 DEF StoreCall, RestoreCall
<1>7. QED
  BY <1>1, <1>4, <1>5, <1>6 DEF IndInv

LEMMA InsertIndexInd ==
  ASSUME IndInv, TypeOK', NEW t \in Thread, InsertIndex(t)
  PROVE  IndInv'
<1> USE DEF InsertIndex, At, memory
<1>1. /\ phase = "up" /\ pc'[t] = "advance" /\ Alone'
      /\ \A u \in Thread : u # t => pc[u] = "idle" /\ pc'[u] = "idle"
  BY OnlyThread DEF Label
<1>2. /\ key[t] = [name |-> name, offset |-> used] /\ chunk[t] \in Chunk
      /\ used + Size[chunk[t]] < MaxContainerSize /\ Holds(body, used, chunk[t])
  BY DEF IndInv, StoreCall, TypeOK
<1>3. /\ index'[chunk[t]] = key[t]
      /\ \A c \in Chunk : c # chunk[t] => index'[c] = index[c]
  BY <1>2 DEF IndInv, TypeOK
<1>4. Stopping'
  BY <1>1 DEF IndInv, Stopping
<1>5. Cached'
  BY <1>1, <1>2, <1>3 DEF IndInv, Cached, CacheHas, TypeOK, Name, NoName
<1>6. Placed'
  <2> SUFFICES ASSUME NEW c \in Chunk, index'[c] # NoKey
               PROVE  PlacedInMemory(index[c], c)'
    BY <1>1 DEF Placed
  <2>1. CASE c = chunk[t]
    <3>1. Fresh(index[c], c)'
      BY <1>1, <1>3, <2>1 DEF Fresh
    <3>2. name \in Nat
      BY DEF IndInv, TypeOK, Name
    <3>3. QED
      BY <1>2, <1>3, <2>1, <3>1, <3>2 DEF PlacedInMemory
  <2>2. CASE c # chunk[t]
    <3>1. PlacedInMemory(index[c], c) /\ ~ Fresh(index[c], c)
      BY <1>1, <1>3, <2>2 DEF IndInv, Placed, Fresh
    <3>2. QED
      BY <1>3, <2>2, <3>1 DEF PlacedInMemory, InFile
  <2>3. QED BY <2>1, <2>2
<1>7. ASSUME NEW u \in Thread
      PROVE  StoreCall(u)' /\ RestoreCall(u)'
  BY <1>1, <1>2, <1>3 DEF StoreCall, RestoreCall
<1>8. QED
  BY <1>1, <1>4, <1>5, <1>6, <1>7 DEF IndInv

LEMMA AdvanceInd ==
  ASSUME IndInv, TypeOK', NEW t \in Thread, Advance(t)
  PROVE  IndInv'
<1> USE DEF Advance, At, disk, End
<1>1. /\ phase = "up" /\ pc'[t] = "idle" /\ Alone'
      /\ \A u \in Thread : u # t => pc[u] = "idle" /\ pc'[u] = "idle"
  BY OnlyThread DEF Label
<1>2. /\ key[t] = [name |-> name, offset |-> used] /\ chunk[t] \in Chunk
      /\ used + Size[chunk[t]] < MaxContainerSize
      /\ used \in Nat /\ Size[chunk[t]] \in Nat
  BY StoreAssumption DEF IndInv, StoreCall, TypeOK
<1>3. Stopping' /\ Cached'
  BY <1>1, <1>2 DEF IndInv, Stopping, Cached, CacheHas
<1>4. Placed'
  <2> SUFFICES ASSUME NEW c \in Chunk, index[c] # NoKey
               PROVE  PlacedInMemory(index[c], c)'
    BY <1>1 DEF Placed
  <2>1. PlacedInMemory(index[c], c) /\ index[c].offset \in Nat
    BY <1>1 DEF IndInv, Placed, TypeOK, Key
  <2>2. index[c].name = name => index[c].offset + Size[c] <= used'
    <3>1. CASE Fresh(index[c], c)
      BY <1>1, <1>2, <3>1 DEF Fresh
    <3>2. CASE ~ Fresh(index[c], c)
      BY <1>2, <2>1, <3>2, StoreAssumption DEF PlacedInMemory
    <3>3. QED BY <3>1, <3>2
  <2>3. QED
    BY <2>1, <2>2 DEF PlacedInMemory, InFile
<1>5. ASSUME NEW u \in Thread
      PROVE  StoreCall(u)' /\ RestoreCall(u)'
  BY <1>1 DEF StoreCall, RestoreCall
<1>6. QED
  BY <1>1, <1>3, <1>4, <1>5 DEF IndInv

\* Steps of a restore change neither the containers nor the index; what they
\* may change of the cache is dealt with where they do.
LEMMA RestoreFrame ==
  ASSUME IndInv, NEW t \in Thread, pc[t] \notin {"idle", "advance"},
         NEW label \in Label \ {"advance"}, Goto(t, label),
         UNCHANGED <<phase, name, used, body, disk>>
  PROVE  Stopping' /\ Placed'
<1> USE DEF disk
<1>1. /\ phase = "up" /\ pc'[t] = label
      /\ \A u \in Thread : u # t => pc[u] = "idle" /\ pc'[u] = "idle"
  BY OnlyThread
<1>2. Stopping'
  BY <1>1 DEF IndInv, Stopping
<1>3. Placed'
  BY <1>1 DEF IndInv, Placed, PlacedInMemory, Fresh, InFile
<1>4. QED BY <1>2, <1>3

LEMMA LookupInd ==
  ASSUME IndInv, TypeOK', NEW t \in Thread, Lookup(t)
  PROVE  IndInv'
<1> USE DEF Lookup, At, memory, Answer
<1>1. PICK label \in {"answered", "fetch"} : Goto(t, label)
  OBVIOUS
<1>2. /\ phase = "up" /\ pc'[t] = label /\ Alone'
      /\ \A u \in Thread : u # t => pc[u] = "idle" /\ pc'[u] = "idle"
  BY <1>1, OnlyThread DEF Label
<1>3. Stopping' /\ Placed'
  BY <1>1, RestoreFrame DEF Label
<1>4. Cached'
  BY <1>2 DEF IndInv, Cached, CacheHas, disk
<1>5. ASSUME NEW u \in Thread
      PROVE  StoreCall(u)' /\ RestoreCall(u)'
  <2>1. key'[t] = index[chunk[t]] /\ (pc'[t] = "answered" => key'[t] = NoKey)
    <3>1. key'[t] = index[chunk[t]]
      BY DEF IndInv, TypeOK
    <3>2. CASE index[chunk[t]] = NoKey
      BY <3>1, <3>2
    <3>3. CASE index[chunk[t]] # NoKey
      <4>1. Goto(t, "fetch")
        BY <3>3
      <4>2. pc'[t] = "fetch"
        BY <4>1 DEF Goto, IndInv, TypeOK
      <4>3. QED BY <3>1, <4>2
    <3>4. QED BY <3>2, <3>3
  <2>2. QED
    BY <1>2, <2>1 DEF StoreCall, RestoreCall, disk
<1>6. QED
  BY <1>2, <1>3, <1>4, <1>5 DEF IndInv

LEMMA FetchNamedInd ==
  ASSUME IndInv, TypeOK', NEW t \in Thread, FetchCurrent(t) \/ FetchCached(t)
  PROVE  IndInv'
<1> USE DEF FetchCurrent, FetchCached, At, memory
<1>1. PICK label \in {"copyCurrent", "copyCached"} : Goto(t, label)
  OBVIOUS
<1>2. /\ phase = "up" /\ pc'[t] = label /\ Alone'
      /\ \A u \in Thread : u # t => pc[u] = "idle" /\ pc'[u] = "idle"
  BY <1>1, OnlyThread DEF Label
<1>3. Stopping' /\ Placed'
  BY <1>1, RestoreFrame DEF Label
<1>4. Cached'
  BY <1>2 DEF IndInv, Cached, CacheHas, disk
<1>5. ASSUME NEW u \in Thread
      PROVE  StoreCall(u)' /\ RestoreCall(u)'
  <2>1. key[t] = index[chunk[t]]
    BY DEF IndInv, RestoreCall
  <2>2. CASE FetchCurrent(t)
    <3>1. pc'[t] = "copyCurrent"
      BY <2>2 DEF Goto, IndInv, TypeOK
    <3>2. QED
      BY <1>2, <2>1, <2>2, <3>1 DEF StoreCall, RestoreCall, disk
  <2>3. CASE FetchCached(t)
    <3>1. pc'[t] = "copyCached"
      BY <2>3 DEF Goto, IndInv, TypeOK
    <3>2. QED
      BY <1>2, <2>1, <2>3, <3>1 DEF StoreCall, RestoreCall, disk
  <2>4. QED BY <2>2, <2>3
<1>6. QED
  BY <1>2, <1>3, <1>4, <1>5 DEF IndInv

\* A chunk that is indexed in a container before the current one is in its file.
LEMMA InEarlierFile ==
  ASSUME IndInv, phase # "down", NEW c \in Chunk,
         index[c] # NoKey, index[c].name # name
  PROVE  /\ index[c].name \in Name /\ index[c].name < name
         /\ index[c].offset \in 0 .. MaxContainerSize - 1
         /\ InFile(index[c], c, file[index[c].name].size)
<1>1. PlacedInMemory(index[c], c)
  BY DEF IndInv, Placed
<1>2. index[c].name \in Name /\ index[c].offset \in 0 .. MaxContainerSize - 1
  BY DEF IndInv, TypeOK, Key
<1>3. index[c].name \in Nat /\ name \in Nat
  BY <1>2, NamesAreNumbers DEF IndInv, TypeOK
<1>4. QED
  BY <1>1, <1>2, <1>3 DEF PlacedInMemory

LEMMA FetchFileInd ==
  ASSUME IndInv, TypeOK', NEW t \in Thread, FetchFile(t)
  PROVE  IndInv'
<1> USE DEF FetchFile, At
<1>1. /\ phase = "up" /\ pc'[t] = "copyLoaded" /\ Alone'
      /\ \A u \in Thread : u # t => pc[u] = "idle" /\ pc'[u] = "idle"
  BY OnlyThread DEF Label
<1>2. Stopping' /\ Placed'
  BY RestoreFrame DEF Label
<1>3. Cached'
  BY <1>1 DEF IndInv, Cached
<1>4. key[t] = index[chunk[t]] /\ key[t] # NoKey /\ key[t].name # name
  BY KeyNotNoKey DEF IndInv, RestoreCall, TypeOK, Keyed
<1>5. CacheHas(key[t].name)'
  <2> SUFFICES ASSUME NEW c \in Chunk, index[c] # NoKey, index[c].name = key[t].name
               PROVE  Holds(cacheBody', index[c].offset, c)
    BY DEF CacheHas, disk
  <2>1. /\ InFile(index[c], c, file[index[c].name].size) /\ index[c].name \in Name
        /\ index[c].offset \in 0 .. MaxContainerSize - 1
    BY <1>1, <1>4, InEarlierFile
  <2>2. file[index[c].name].size \in Nat
    <3>1. file[index[c].name].size \in Nat \cup {NoName}
      BY <2>1 DEF IndInv, TypeOK, File
    <3>2. index[c].offset + Size[c] \in Nat
      BY <2>1, StoreAssumption
    <3>3. QED
      BY <2>1, <3>1, <3>2 DEF InFile, NoName
  <2>3. QED
    BY <2>1, <2>2, ReadIntoHolds DEF InFile
<1>6. ASSUME NEW u \in Thread
      PROVE  StoreCall(u)' /\ RestoreCall(u)'
  <2>1. UNCHANGED <<name, index, chunk, key>>
    BY DEF disk
  <2>2. QED
    BY <1>1, <1>4, <1>5, <2>1 DEF StoreCall, RestoreCall
<1>7. QED
  BY <1>1, <1>2, <1>3, <1>6 DEF IndInv

\* The file of an indexed chunk is always there.
LEMMA FetchNothingNever ==
  ASSUME IndInv, NEW t \in Thread
  PROVE  ~ FetchNothing(t)
<1> SUFFICES ASSUME FetchNothing(t) PROVE FALSE
  OBVIOUS
<1> USE DEF FetchNothing, At
<1>1. /\ key[t] = index[chunk[t]] /\ chunk[t] \in Chunk
      /\ key[t] # NoKey /\ key[t].name # name
  BY KeyNotNoKey DEF IndInv, RestoreCall, TypeOK, Keyed
<1>2. InFile(key[t], chunk[t], NoName) /\ key[t].offset \in Nat
  BY <1>1, InEarlierFile DEF NoFile
<1>3. QED
  BY <1>1, <1>2, StoreAssumption DEF InFile, NoName

LEMMA CopyInd ==
  ASSUME IndInv, TypeOK', NEW t \in Thread,
         CopyCurrent(t) \/ CopyCached(t) \/ CopyLoaded(t)
  PROVE  IndInv'
<1> USE DEF CopyCurrent, CopyCached, CopyLoaded, At, memory, Answer
<1>1. Goto(t, "answered") /\ UNCHANGED <<phase, name, used, body, cacheBody, disk, chunk, key>>
  OBVIOUS
<1>2. /\ phase = "up" /\ pc'[t] = "answered" /\ Alone'
      /\ \A u \in Thread : u # t => pc[u] = "idle" /\ pc'[u] = "idle"
  BY <1>1, OnlyThread DEF Label
<1>3. Stopping' /\ Placed'
  BY <1>1, RestoreFrame DEF Label
<1>4. /\ key[t] = index[chunk[t]] /\ key[t] # NoKey /\ chunk[t] \in Chunk
      /\ key[t].name \in Name
  BY KeyNotNoKey DEF IndInv, RestoreCall, TypeOK, Keyed, Key
<1>5. got'[t] = Data(chunk[t])
  <2>1. CASE CopyCurrent(t)
    <3>1. Holds(body, key[t].offset, chunk[t])
      BY <1>2, <1>4, <2>1 DEF IndInv, RestoreCall, Placed, PlacedInMemory
    <3>2. QED
      BY <2>1, <3>1 DEF Holds, IndInv, TypeOK
  <2>2. CASE CopyCached(t)
    <3>1. key[t].name = cacheName /\ cacheName # NoName
      BY <1>4, <2>2, NamesAreNumbers DEF IndInv, RestoreCall, NoName
    <3>2. \A u \in Thread : pc[u] # "copyLoaded"
      BY <1>2, <2>2
    <3>3. CacheHas(cacheName)
      BY <3>1, <3>2 DEF IndInv, Cached
    <3>4. Holds(cacheBody, key[t].offset, chunk[t])
      BY <1>4, <3>1, <3>3 DEF CacheHas
    <3>5. QED
      BY <2>2, <3>4 DEF Holds, IndInv, TypeOK
  <2>3. CASE CopyLoaded(t)
    <3>1. Holds(cacheBody, key[t].offset, chunk[t])
      BY <1>4, <2>3 DEF IndInv, RestoreCall, CacheHas
    <3>2. QED
      BY <2>3, <3>1 DEF Holds, IndInv, TypeOK
  <2>4. QED BY <2>1, <2>2, <2>3
<1>6. Cached'
  <2>1. CASE CopyLoaded(t)
    <3>1. CacheHas(key[t].name)' /\ cacheName' = key[t].name
      BY <1>1, <2>1 DEF IndInv, RestoreCall, CacheHas, disk
    <3>2. key[t].name < name
      BY <1>2, <1>4, <2>1, InEarlierFile DEF IndInv, RestoreCall
    <3>3. QED
      BY <1>1, <1>2, <3>1, <3>2 DEF Cached, CacheHas, disk
  <2>2. CASE cacheName' = cacheName
    <3>1. CASE CopyLoaded(t)
      BY <2>1, <3>1
    <3>2. CASE ~ CopyLoaded(t)
      <4>1. \A u \in Thread : pc[u] # "copyLoaded"
        BY <1>2, <3>2
      <4>2. QED
        BY <1>1, <2>2, <4>1 DEF IndInv, Cached, CacheHas, disk
    <3>3. QED BY <3>1, <3>2
  <2>3. QED BY <2>1, <2>2
<1>7. ASSUME NEW u \in Thread
      PROVE  StoreCall(u)' /\ RestoreCall(u)'
  BY <1>2, <1>5 DEF StoreCall, RestoreCall
<1>8. QED
  BY <1>2, <1>3, <1>6, <1>7 DEF IndInv

LEMMA AnsweredInd ==
  ASSUME IndInv, TypeOK', NEW t \in Thread, Answered(t)
  PROVE  IndInv'
<1> USE DEF Answered, At, memory, End
<1>1. /\ phase = "up" /\ pc'[t] = "idle" /\ Alone'
      /\ \A u \in Thread : u # t => pc[u] = "idle" /\ pc'[u] = "idle"
  BY OnlyThread DEF Label
<1>2. Stopping' /\ Placed'
  BY RestoreFrame DEF Label
<1>3. Cached'
  BY <1>1 DEF IndInv, Cached, CacheHas, disk
<1>4. ASSUME NEW u \in Thread
      PROVE  StoreCall(u)' /\ RestoreCall(u)'
  BY <1>1 DEF StoreCall, RestoreCall
<1>5. QED
  BY <1>1, <1>2, <1>3, <1>4 DEF IndInv

LEMMA SaveConfigInd ==
  ASSUME Orderly, IndInv, TypeOK', SaveConfig
  PROVE  IndInv'
<1> USE DEF SaveConfig, Orderly, memory, local
<1>1. Quiet /\ Alone'
  BY DEF IndInv, Alone, Quiet
<1>2. Stopping'
  BY DEF IndInv, Stopping
<1>3. Placed' /\ Cached'
  BY DEF IndInv, Placed, PlacedInMemory, Fresh, InFile, Cached, CacheHas
<1>4. ASSUME NEW u \in Thread
      PROVE  StoreCall(u)' /\ RestoreCall(u)'
  BY <1>1 DEF StoreCall, RestoreCall, Quiet
<1>5. QED
  BY <1>1, <1>2, <1>3, <1>4 DEF IndInv

LEMMA SaveCurrentInd ==
  ASSUME IndInv, TypeOK', SaveCurrent
  PROVE  IndInv'
<1> USE DEF SaveCurrent, memory, local
<1>1. Quiet /\ Alone'
  BY DEF IndInv, Alone, Quiet
<1>2. file'[name] = Saved /\ Saved' = Saved
  BY DEF Saved, IndInv, TypeOK
<1>3. Stopping'
  BY <1>2 DEF IndInv, Stopping
<1>4. Placed'
  <2> SUFFICES ASSUME NEW c \in Chunk, index[c] # NoKey
               PROVE  PlacedInMemory(index[c], c)'
    BY DEF Placed
  <2>1. PlacedInMemory(index[c], c) /\ ~ Fresh(index[c], c)
    BY <1>1 DEF IndInv, Placed, Fresh, Quiet
  <2>2. index[c].name < name => file'[index[c].name] = file[index[c].name]
    BY NamesAreNumbers DEF IndInv, TypeOK, Key
  <2>3. QED
    BY <2>1, <2>2 DEF PlacedInMemory, InFile
<1>5. Cached'
  BY DEF IndInv, Cached, CacheHas
<1>6. ASSUME NEW u \in Thread
      PROVE  StoreCall(u)' /\ RestoreCall(u)'
  BY <1>1 DEF StoreCall, RestoreCall, Quiet
<1>7. QED
  BY <1>1, <1>3, <1>4, <1>5, <1>6 DEF IndInv

LEMMA ExitInd ==
  ASSUME Orderly, IndInv, TypeOK', Exit \/ Kill
  PROVE  IndInv'
<1> USE DEF Exit, Kill, Orderly, Vanish, disk
<1>1. /\ phase = "saved" /\ phase' = "down"
      /\ \A t \in Thread : pc[t] = "idle" /\ pc'[t] = "idle"
  BY DEF IndInv, Alone, Quiet
<1>2. Alone' /\ Stopping' /\ Cached'
  BY <1>1, ContainerPositive DEF IndInv, Alone, Quiet, Stopping, Cached
<1>3. config = [name |-> name, used |-> used] /\ file[name] = Saved
  BY <1>1 DEF IndInv, Stopping
<1>4. Placed'
  <2> SUFFICES ASSUME NEW c \in Chunk, index[c] # NoKey
               PROVE  PlacedOnDisk(index[c], c)
    BY <1>1 DEF Placed, PlacedOnDisk, InFile
  <2>1. PlacedInMemory(index[c], c)
    BY <1>1 DEF IndInv, Placed
  <2>2. index[c].name = name => InFile(index[c], c, used)
    BY <1>1, <1>3, SavedHolds DEF InFile
  <2>3. QED
    BY <1>3, <2>1, <2>2 DEF PlacedInMemory, PlacedOnDisk
<1>5. ASSUME NEW u \in Thread
      PROVE  StoreCall(u)' /\ RestoreCall(u)'
  BY <1>1 DEF StoreCall, RestoreCall
<1>6. QED
  BY <1>2, <1>4, <1>5 DEF IndInv

LEMMA RestartInd ==
  ASSUME IndInv, TypeOK', Restart
  PROVE  IndInv'
<1> USE DEF Restart, disk, local
<1>1. Quiet /\ Alone'
  BY DEF IndInv, Alone, Quiet
<1>2. Stopping' /\ Cached'
  BY DEF IndInv, Stopping, Cached
<1>3. Placed'
  <2> SUFFICES ASSUME NEW c \in Chunk, index[c] # NoKey
               PROVE  PlacedInMemory(index[c], c)'
    BY DEF Placed
  <2>1. PlacedOnDisk(index[c], c)
    BY DEF IndInv, Placed
  <2>2. index[c].offset \in 0 .. MaxContainerSize - 1 /\ config.used \in Nat
    BY DEF IndInv, TypeOK, Key
  <2>3. index[c].name = config.name => Holds(body', index[c].offset, c)
    BY <2>1, <2>2, ReadIntoHolds DEF PlacedOnDisk, InFile
  <2>4. QED
    BY <2>1, <2>3 DEF PlacedOnDisk, PlacedInMemory, InFile
<1>4. ASSUME NEW u \in Thread
      PROVE  StoreCall(u)' /\ RestoreCall(u)'
  BY <1>1 DEF StoreCall, RestoreCall, Quiet
<1>5. QED
  BY <1>1, <1>2, <1>3, <1>4 DEF IndInv

LEMMA StutterInd ==
  ASSUME IndInv, TypeOK', UNCHANGED vars
  PROVE  IndInv'
<1> USE DEF vars, memory, disk, local
<1>1. Alone' /\ Stopping' /\ Cached'
  BY DEF IndInv, Alone, Quiet, Stopping, Saved, Cached, CacheHas
<1>2. Placed'
  BY DEF IndInv, Placed, PlacedInMemory, PlacedOnDisk, Fresh, InFile
<1>3. ASSUME NEW u \in Thread
      PROVE  StoreCall(u)' /\ RestoreCall(u)'
  BY DEF IndInv, StoreCall, RestoreCall, CacheHas, Saved
<1>4. QED
  BY <1>1, <1>2, <1>3 DEF IndInv

LEMMA IndStep ==
  ASSUME Orderly, IndInv, [Next]_vars
  PROVE  IndInv'
<1>1. TypeOK'
  BY TypeStep DEF IndInv
<1>2. ASSUME NEW t \in Thread, NEW c \in Chunk, StoreChunk(t, c) \/ RestoreChunk(t, c)
      PROVE  IndInv'
  <2>1. PICK label \in {"write", "lookup"} : Begin(t, c, label)
    BY <1>2 DEF StoreChunk, RestoreChunk
  <2>2. QED BY <1>1, <2>1, BeginInd
<1>3. ASSUME NEW t \in Thread, StoreStep(t)
      PROVE  IndInv'
  BY <1>1, <1>3, AppendInd, OpenFullInd, SaveFullInd, NextNameInd, WriteFirstInd,
     InsertIndexInd, AdvanceInd DEF StoreStep
<1>4. ASSUME NEW t \in Thread, RestoreStep(t)
      PROVE  IndInv'
  BY <1>1, <1>4, LookupInd, FetchNamedInd, FetchFileInd, FetchNothingNever,
     CopyInd, AnsweredInd DEF RestoreStep
<1>5. QED
  BY <1>1, <1>2, <1>3, <1>4, SaveConfigInd, SaveCurrentInd, ExitInd, RestartInd,
     StutterInd DEF Next

\* The inductive invariant holds under the same conditions: where the index, the open container,
\* the files and the cache say a chunk is agrees at every step of every call.
THEOREM IndAlways == Orderly => (Spec => []IndInv)
<1> SUFFICES ASSUME Orderly PROVE Spec => []IndInv
  OBVIOUS
<1>1. IndInv /\ [Next]_vars => IndInv'
  BY IndStep
<1>2. QED
  BY <1>1, InitInd, PTL DEF Spec

LEMMA IndImpliesReadable == IndInv => IndexedReadable /\ RestoredRight
<1> SUFFICES ASSUME IndInv PROVE IndexedReadable /\ RestoredRight
  OBVIOUS
<1>1. ASSUME NEW c \in Chunk, index[c] # NoKey PROVE Readable(c)
  <2>1. index[c].name \in Nat /\ name \in Nat /\ config.name \in Nat
    <3>1. index[c].name \in Name
      BY <1>1 DEF IndInv, TypeOK, Key
    <3>2. QED BY <3>1, NamesAreNumbers DEF IndInv, TypeOK
  <2>2. CASE phase # "down"
    BY <1>1, <2>1, <2>2 DEF IndInv, Placed, PlacedInMemory, Readable, InCurrent
  <2>3. CASE phase = "down"
    BY <1>1, <2>1, <2>3 DEF IndInv, Placed, PlacedOnDisk, Readable
  <2>4. QED BY <2>2, <2>3
<1>2. IndexedReadable
  BY <1>1 DEF IndexedReadable
<1>3. RestoredRight
  BY DEF IndInv, RestoreCall, RestoredRight
<1>4. QED BY <1>2, <1>3

\* Whatever is stored, in however many containers, restored, shut down and
\* started again: every indexed chunk lies where its index entry says.
THEOREM IndexAlwaysReadable == Orderly => (Spec => []IndexedReadable)
<1> SUFFICES ASSUME Orderly PROVE Spec => []IndexedReadable
  OBVIOUS
<1>1. QED
  BY IndAlways, IndImpliesReadable, PTL

\* Under the same conditions a restore answers with the chunk's own bytes,
\* also through the container it has cached.
THEOREM RestoresAlwaysRight == Orderly => (Spec => []RestoredRight)
<1> SUFFICES ASSUME Orderly PROVE Spec => []RestoredRight
  OBVIOUS
<1>1. QED
  BY IndAlways, IndImpliesReadable, PTL

-----------------------------------------------------------------------------
(* Containers that were full at the last shutdown, under kills as well: the *)
(* name never falls behind .StorageConfig, and no thread is left with the   *)
(* name of an earlier container to save.                                    *)

SealInv ==
  /\ TypeOK
  /\ phase # "down" => config.name <= name
  /\ phase = "down" => Quiet
  /\ \A t \in Thread : pc[t] = "save" => config.name <= key[t].name
  /\ \A t, u \in Thread : pc[t] # "idle" /\ pc[u] # "idle" => t = u
  /\ \A t \in Thread : pc[t] = "save" => key[t].name = name

LEMMA SealStep ==
  ASSUME Serial, SealInv, [Next]_vars
  PROVE  SealInv' /\ (\A n \in Name : n < config.name => file'[n] = file[n])
<1>1. TypeOK'
  BY TypeStep DEF SealInv
<1>2. name \in Nat /\ config.name \in Nat /\ Name \subseteq Nat
  BY NamesAreNumbers DEF SealInv, TypeOK
<1> USE <1>1, <1>2 DEF SealInv, TypeOK, memory, disk, local, Goto, At
<1>3. ASSUME NEW t \in Thread, NEW c \in Chunk, StoreChunk(t, c) \/ RestoreChunk(t, c)
      PROVE  SealInv' /\ file' = file
  <2>1. PICK label \in {"write", "lookup"} : Begin(t, c, label)
    BY <1>3 DEF StoreChunk, RestoreChunk
  <2>2. QED
    BY <2>1 DEF Begin, Quiet
<1>4. ASSUME NEW t \in Thread,
             AppendToContainer(t) \/ WriteFirst(t) \/ InsertIndex(t) \/ Advance(t)
      PROVE  SealInv' /\ file' = file
  <2>1. /\ \E label \in {"insert", "advance", "idle"} : pc' = [pc EXCEPT ![t] = label]
        /\ phase # "down" /\ pc[t] # "idle" /\ UNCHANGED <<phase, name, file, config>>
        /\ \A u \in Thread \ {t} : key'[u] = key[u]
    BY <1>4 DEF AppendToContainer, WriteFirst, InsertIndex, Advance, End
  <2>2. QED
    BY <2>1, <1>1 DEF Quiet
<1>5. ASSUME NEW t \in Thread, OpenFull(t)
      PROVE  SealInv' /\ \A n \in Name : n < config.name => file'[n] = file[n]
  BY <1>5 DEF OpenFull
<1>6. ASSUME NEW t \in Thread, SaveFull(t)
      PROVE  SealInv' /\ \A n \in Name : n < config.name => file'[n] = file[n]
  BY <1>6 DEF SaveFull
<1>7. ASSUME NEW t \in Thread, NextName(t)
      PROVE  SealInv' /\ file' = file
  BY <1>7 DEF NextName
<1>8. ASSUME NEW t \in Thread, RestoreStep(t)
      PROVE  SealInv' /\ file' = file
  <2>1. /\ \E label \in Label \ {"save"} : pc' = [pc EXCEPT ![t] = label]
        /\ phase # "down" /\ pc[t] # "idle" /\ UNCHANGED <<phase, name, file, config>>
        /\ \A u \in Thread \ {t} : key'[u] = key[u]
    BY <1>8 DEF RestoreStep, Lookup, Answer, FetchCurrent, FetchCached, FetchFile,
                FetchNothing, CopyCurrent, CopyCached, CopyLoaded, Answered, End, Label
  <2>2. QED
    BY <2>1, <1>1 DEF Quiet
<1>9. CASE SaveConfig
  BY <1>9 DEF SaveConfig, Quiet
<1>10. CASE SaveCurrent
  BY <1>10 DEF SaveCurrent
<1>11. CASE Exit \/ Kill
  BY <1>11 DEF Exit, Kill, Vanish, Quiet
<1>12. CASE Restart
  BY <1>12 DEF Restart, Quiet
<1>13. CASE UNCHANGED vars
  BY <1>13 DEF vars, Quiet
<1>14. QED
  BY <1>3, <1>4, <1>5, <1>6, <1>7, <1>8, <1>9, <1>10, <1>11, <1>12, <1>13
     DEF Next, StoreStep

\* The containers before the one named in .StorageConfig are never written
\* again, whatever signals and kills come in the middle of a request, when
\* requests are served one at a time.
THEOREM SealedAlwaysStaySealed == Serial => (Spec => SealedStaySealed)
<1> SUFFICES ASSUME Serial
             PROVE  Spec => SealedStaySealed
  OBVIOUS
<1>1. Init => SealInv
  BY TypeInit DEF Init, SealInv
<1>2. SealInv /\ [Next]_vars => SealInv'
  BY SealStep
<1>3. SealInv /\ [Next]_vars =>
        [\A n \in Name : n < config.name => file'[n] = file[n]]_vars
  BY SealStep
<1>4. QED
  BY <1>1, <1>2, <1>3, PTL DEF Spec, SealedStaySealed

-----------------------------------------------------------------------------
(* The store as a map: InsertIndex stores, a lookup of what is not indexed  *)
(* and the copies answer, and no other step is seen.                        *)

Stored == {c \in Chunk : index[c] # NoKey}
Replies == [t \in Thread |-> IF pc[t] = "answered" THEN got[t] ELSE None]

LEMMA MapStep ==
  ASSUME Orderly, IndInv, [Next]_vars
  PROVE  [Map!Next]_Map!vars
<1>1. IndInv'
  BY IndStep
<1> USE DEF memory, disk, local, Goto, At
<1>2. SUFFICES \/ Stored' = Stored /\ Replies' = Replies
               \/ \E c \in Chunk : Stored' = Stored \cup {c} /\ Replies' = Replies
               \/ \E t \in Thread :
                    /\ Stored' = Stored
                    /\ Replies' = [Replies EXCEPT ![t] = None]
               \/ \E t \in Thread, c \in Chunk :
                    /\ Stored' = Stored /\ Replies[t] = None
                    /\ Replies' = [Replies EXCEPT ![t] =
                                     IF c \in Stored THEN Data(c) ELSE Zeros(c)]
  BY DEF Map!Next, Map!vars, Map!Store, Map!Take, Map!Restore, Stored, Replies
<1>3. ASSUME NEW t \in Thread, NEW c \in Chunk, StoreChunk(t, c) \/ RestoreChunk(t, c)
      PROVE  Stored' = Stored /\ Replies' = Replies
  <2>1. PICK label \in {"write", "lookup"} : Begin(t, c, label)
    BY <1>3 DEF StoreChunk, RestoreChunk
  <2>2. QED BY <2>1 DEF Begin, Stored, Replies, IndInv, TypeOK
<1>4. ASSUME NEW t \in Thread, InsertIndex(t)
      PROVE  Stored' = Stored \cup {chunk[t]} /\ Replies' = Replies
  <2>1. key[t] \in Key /\ chunk[t] \in Chunk
    BY <1>4 DEF InsertIndex, IndInv, TypeOK, Keyed
  <2>2. QED BY <1>4, <2>1, KeyNotNoKey DEF InsertIndex, Stored, Replies, IndInv, TypeOK
<1>5. ASSUME NEW t \in Thread,
             \/ AppendToContainer(t) \/ OpenFull(t) \/ SaveFull(t) \/ NextName(t)
             \/ WriteFirst(t) \/ Advance(t)
      PROVE  Stored' = Stored /\ Replies' = Replies
  <2>1. /\ pc[t] # "answered" /\ index' = index
        /\ \E label \in Label \ {"answered"} : pc' = [pc EXCEPT ![t] = label]
        /\ got' = got \/ got' = [got EXCEPT ![t] = <<>>]
    BY <1>5 DEF AppendToContainer, OpenFull, SaveFull, NextName, WriteFirst, Advance, End, Label
  <2>2. QED BY <2>1 DEF Stored, Replies, IndInv, TypeOK
<1>6. ASSUME NEW t \in Thread, Lookup(t)
      PROVE  /\ Stored' = Stored
             /\ \/ Replies' = Replies
                \/ /\ Replies[t] = None
                   /\ Replies' = [Replies EXCEPT ![t] =
                        IF chunk[t] \in Stored THEN Data(chunk[t]) ELSE Zeros(chunk[t])]
  <2>1. index' = index /\ pc[t] = "lookup" /\ chunk[t] \in Chunk
    BY <1>6 DEF Lookup, IndInv, TypeOK
  <2>2. CASE index[chunk[t]] = NoKey
    <3>1. /\ pc' = [pc EXCEPT ![t] = "answered"]
          /\ got' = [got EXCEPT ![t] = Zeros(chunk[t])]
      BY <1>6, <2>2 DEF Lookup, Answer
    <3>2. chunk[t] \notin Stored /\ Replies[t] = None
      BY <2>1, <2>2 DEF Stored, Replies
    <3>3. Replies' = [Replies EXCEPT ![t] = Zeros(chunk[t])]
      BY <3>1 DEF Replies, IndInv, TypeOK
    <3>4. QED BY <2>1, <3>2, <3>3 DEF Stored
  <2>3. CASE index[chunk[t]] # NoKey
    <3>1. pc' = [pc EXCEPT ![t] = "fetch"] /\ got' = got
      BY <1>6, <2>3 DEF Lookup
    <3>2. QED BY <2>1, <3>1 DEF Stored, Replies, IndInv, TypeOK
  <2>4. QED BY <2>2, <2>3
<1>7. ASSUME NEW t \in Thread, FetchCurrent(t) \/ FetchCached(t) \/ FetchFile(t)
      PROVE  Stored' = Stored /\ Replies' = Replies
  BY <1>7 DEF FetchCurrent, FetchCached, FetchFile, Stored, Replies, IndInv, TypeOK
<1>8. ASSUME NEW t \in Thread, CopyCurrent(t) \/ CopyCached(t) \/ CopyLoaded(t)
      PROVE  /\ Stored' = Stored /\ chunk[t] \in Stored /\ Replies[t] = None
             /\ Replies' = [Replies EXCEPT ![t] = Data(chunk[t])]
  <2>1. /\ pc[t] \in {"copyCurrent", "copyCached", "copyLoaded"}
        /\ pc' = [pc EXCEPT ![t] = "answered"] /\ got' = [got EXCEPT ![t] = got'[t]]
        /\ UNCHANGED <<index, chunk, key>>
    BY <1>8 DEF CopyCurrent, CopyCached, CopyLoaded, Answer, IndInv, TypeOK
  <2>2. key[t] = index[chunk[t]] /\ key[t] # NoKey /\ chunk[t] \in Chunk
    BY <2>1, KeyNotNoKey DEF IndInv, RestoreCall, TypeOK, Keyed
  <2>3. got'[t] = Data(chunk[t])
    BY <1>1, <2>1, <2>2 DEF IndInv, RestoreCall, TypeOK
  <2>4. QED BY <2>1, <2>2, <2>3 DEF Stored, Replies, IndInv, TypeOK
<1>9. ASSUME NEW t \in Thread, Answered(t)
      PROVE  Stored' = Stored /\ Replies' = [Replies EXCEPT ![t] = None]
  BY <1>9 DEF Answered, End, Stored, Replies, IndInv, TypeOK
<1>10. CASE SaveConfig \/ SaveCurrent \/ Restart \/ UNCHANGED vars
  BY <1>10 DEF SaveConfig, SaveCurrent, Restart, vars, Stored, Replies
<1>11. CASE Exit
  <2>1. Quiet /\ index' = index /\ pc' = [t \in Thread |-> "idle"]
    BY <1>11 DEF Exit, Vanish, IndInv, Alone
  <2>2. QED BY <2>1 DEF Quiet, Stored, Replies
<1>12. ~Kill
  BY DEF Orderly, Kill
<1>13. \A t \in Thread : chunk[t] \in Chunk /\ ~FetchNothing(t)
  BY FetchNothingNever DEF IndInv, TypeOK
<1>14. QED
  BY <1>3, <1>4, <1>5, <1>6, <1>7, <1>8, <1>9, <1>10, <1>11, <1>12, <1>13
     DEF Next, StoreStep, RestoreStep

\* Theorem: with calls one at a time and orderly shutdowns nothing but a map
\* that only grows can be seen of the containers, the files, the cache and the
\* restarts (storageCore.cpp:251-470).
THEOREM StoreIsMap == Orderly => (Spec => ImplementsMap)
<1> SUFFICES ASSUME Orderly PROVE Spec => ImplementsMap
  OBVIOUS
<1>1. Init => Map!Init
  BY DEF Init, Map!Init
<1>2. IndInv /\ [Next]_vars => [Map!Next]_Map!vars
  BY MapStep
<1>3. QED
  BY <1>1, <1>2, IndAlways, PTL DEF Spec, ImplementsMap, Map!Spec
=============================================================================
