---------------------------- MODULE ContainerStore ----------------------------
(***************************************************************************)
(* The chunk store of the SGXDedup server: StorageCore keeps one container *)
(* in memory (currentContainer_), writes it to Containers/<name>.container *)
(* when the next chunk does not fit, and records in the LevelDB index      *)
(* fp2ChunkDB where every chunk lies.  A restore reads a chunk out of the  *)
(* current container, out of the one container it has cached, or out of a  *)
(* container file.                                                         *)
(*                                                                         *)
(* Every data connection has its own server thread (runData) and, in the   *)
(* default build (MULTI_CLIENT_UPLOAD_TEST = 0), no lock protects the      *)
(* containers, so a storeChunk or restoreChunk call is a series of steps   *)
(* that other threads may interleave with.  A signal or a kill may stop    *)
(* the process between two of them.                                        *)
(*                                                                         *)
(* A chunk is its fingerprint; its i-th byte is the pair <<c, i>>, so that *)
(* a byte in the wrong place is visible.  Container names are numbered in  *)
(* the order next_permutation visits them.                                 *)
(***************************************************************************)
EXTENDS Integers

CONSTANTS
  Chunk,            \* the chunk fingerprints
  Size,             \* Size[c]: the number of bytes of chunk c
  MaxContainerSize, \* config: _maxContainerSize
  Names,            \* bound: the number of container names used
  Thread,           \* the data threads of the server
  Serial,           \* TRUE: the server serves one request at a time
  Faults,           \* "interrupt": SIGINT may come in the middle of a request;
                    \* "kill": the process may die at any point
  None              \* no answer, in the map the store is compared with

ASSUME StoreAssumption ==
  /\ Chunk # {}
  /\ Size \in [Chunk -> Nat]
  /\ MaxContainerSize \in Nat
  /\ \A c \in Chunk : Size[c] < MaxContainerSize
  /\ Names \in Nat \ {0}
  /\ Serial \in BOOLEAN
  /\ Faults \subseteq {"interrupt", "kill"}

VARIABLES
  phase,      \* the server process: down, up, or in the SIGINT handler
  name,       \* lastContainerFileName_
  used,       \* currentContainer_.used_
  body,       \* currentContainer_.body_
  cacheName,  \* currentReadContainerFileName_
  cacheBody,  \* currentReadContainer_.body_
  file,       \* the container files on disk
  config,     \* .StorageConfig
  index,      \* fp2ChunkDB
  pc,         \* where each data thread is
  chunk,      \* the chunk its call is about
  key,        \* the keyForChunkHashDB_t of its call
  got         \* the bytes its restoreChunk call has copied

memory == <<name, used, body, cacheName, cacheBody>>
disk == <<file, config, index>>
local == <<pc, chunk, key, got>>
vars == <<phase, memory, disk, local>>

-----------------------------------------------------------------------------
Name == 0 .. Names - 1
NoName == -1                         \* the empty currentReadContainerFileName_
Offset == 0 .. 2 * MaxContainerSize - 1   \* body_ is twice the container size
Blank == <<>>                        \* a byte no chunk was written to
Byte == (Chunk \X Nat) \cup {Blank}
Body == [Offset -> Byte]
BlankBody == [o \in Offset |-> Blank]

\* A container file; size NoName stands for a file that does not exist.
File == [size : Nat \cup {NoName}, byte : Body]
NoFile == [size |-> NoName, byte |-> BlankBody]

Key == [name : Name, offset : 0 .. MaxContainerSize - 1]
NoKey == [name |-> NoName, offset |-> 0]

Data(c) == [i \in 0 .. Size[c] - 1 |-> <<c, i>>]
Zeros(c) == [i \in 0 .. Size[c] - 1 |-> Blank]

\* memcpy of chunk c to offset at of a container body
Put(b, at, c) ==
  [o \in Offset |-> IF at <= o /\ o < at + Size[c] THEN <<c, o - at>> ELSE b[o]]

\* memcpy of the bytes of chunk c from offset at of a container body
Copy(b, at, c) == [i \in 0 .. Size[c] - 1 |-> b[at + i]]

\* ifstream::read of n bytes over the container body b
ReadInto(b, bytes, n) == [o \in Offset |-> IF o < n THEN bytes[o] ELSE b[o]]

\* Container::saveTOFile: the first used_ bytes of the body
Saved == [size |-> used, byte |-> ReadInto(BlankBody, body, used)]

Fits(c) == Size[c] + used < MaxContainerSize

SomeChunk == CHOOSE c \in Chunk : TRUE

Quiet == \A t \in Thread : pc[t] = "idle"

Goto(t, label) == pc' = [pc EXCEPT ![t] = label]

\* A thread runs until the process is gone, also while SIGINT is handled.
At(t, label) == phase # "down" /\ pc[t] = label

-----------------------------------------------------------------------------
Init ==
  /\ phase = "up"
  /\ name = 0 /\ used = 0 /\ body = BlankBody
  /\ cacheName = NoName /\ cacheBody = BlankBody
  /\ file = [n \in Name |-> NoFile]
  /\ config = [name |-> 0, used |-> 0]
  /\ index = [c \in Chunk |-> NoKey]
  /\ pc = [t \in Thread |-> "idle"]
  /\ chunk = [t \in Thread |-> SomeChunk]
  /\ key = [t \in Thread |-> NoKey]
  /\ got = [t \in Thread |-> <<>>]

\* runData has received the next request of its client.
Begin(t, c, label) ==
  /\ pc[t] = "idle"
  /\ phase = "up" \/ (phase # "down" /\ "interrupt" \in Faults)
  /\ Serial => Quiet
  /\ Goto(t, label)
  /\ chunk' = [chunk EXCEPT ![t] = c]
  /\ UNCHANGED <<phase, memory, disk, key, got>>

\* The call returns; its locals are gone.
End(t) ==
  /\ Goto(t, "idle")
  /\ key' = [key EXCEPT ![t] = NoKey]
  /\ got' = [got EXCEPT ![t] = <<>>]
  /\ UNCHANGED chunk

-----------------------------------------------------------------------------
(* storeChunk *)

StoreChunk(t, c) ==
  /\ Fits(c) \/ name + 1 \in Name
  /\ Begin(t, c, "write")

\* writeContainer, when the chunk fits
AppendToContainer(t) ==
  /\ At(t, "write") /\ Fits(chunk[t])
  /\ body' = Put(body, used, chunk[t])
  /\ key' = [key EXCEPT ![t] = [name |-> name, offset |-> used]]
  /\ Goto(t, "insert")
  /\ UNCHANGED <<phase, name, used, cacheName, cacheBody, disk, chunk, got>>

\* writeContainer, when it does not: saveTOFile opens (truncates) the file,
\* whose name it keeps in a local of its own, ...
OpenFull(t) ==
  /\ At(t, "write") /\ ~Fits(chunk[t])
  /\ name + 1 \in Name
  /\ file' = [file EXCEPT ![name] = [NoFile EXCEPT !.size = 0]]
  /\ key' = [key EXCEPT ![t] = [name |-> name, offset |-> 0]]
  /\ Goto(t, "save")
  /\ UNCHANGED <<phase, memory, config, index, chunk, got>>

\* ... and writes the body;
SaveFull(t) ==
  /\ At(t, "save")
  /\ file' = [file EXCEPT ![key[t].name] = Saved]
  /\ Goto(t, "next")
  /\ UNCHANGED <<phase, memory, config, index, chunk, key, got>>

\* next_permutation, which swaps and reverses letters in place: of two at once
\* either may be left with any name;
NextName(t) ==
  /\ At(t, "next")
  /\ name + 1 \in Name
  /\ name' \in IF \E u \in Thread \ {t} : pc[u] = "next" THEN Name ELSE {name + 1}
  /\ Goto(t, "first")
  /\ UNCHANGED <<phase, used, body, cacheName, cacheBody, disk, chunk, key, got>>

\* the chunk becomes the first of the next container.
WriteFirst(t) ==
  /\ At(t, "first")
  /\ used' = 0
  /\ body' = Put(body, 0, chunk[t])
  /\ key' = [key EXCEPT ![t] = [name |-> name, offset |-> 0]]
  /\ Goto(t, "insert")
  /\ UNCHANGED <<phase, name, cacheName, cacheBody, disk, chunk, got>>

\* fp2ChunkDB.insert
InsertIndex(t) ==
  /\ At(t, "insert")
  /\ index' = [index EXCEPT ![chunk[t]] = key[t]]
  /\ Goto(t, "advance")
  /\ UNCHANGED <<phase, memory, file, config, chunk, key, got>>

\* mutant of Advance: used_ is not advanced
AdvanceNothing(t) ==
  /\ At(t, "advance")
  /\ End(t)
  /\ UNCHANGED <<phase, memory, disk>>

\* currentContainer_.used_ += key.length
Advance(t) ==
  /\ At(t, "advance")
  /\ used' = used + Size[chunk[t]]
  /\ End(t)
  /\ UNCHANGED <<phase, name, body, cacheName, cacheBody, disk>>

-----------------------------------------------------------------------------
(* restoreChunk, as restoreRecipeAndChunk calls it *)

RestoreChunk(t, c) == Begin(t, c, "lookup")

Answer(t, bytes) ==
  /\ got' = [got EXCEPT ![t] = bytes]
  /\ Goto(t, "answered")

\* fp2ChunkDB.query; a chunk the index does not know is answered with zeros
Lookup(t) ==
  /\ At(t, "lookup")
  /\ key' = [key EXCEPT ![t] = index[chunk[t]]]
  /\ IF index[chunk[t]] = NoKey
       THEN Answer(t, Zeros(chunk[t]))
       ELSE Goto(t, "fetch") /\ UNCHANGED got
  /\ UNCHANGED <<phase, memory, disk, chunk>>

\* readContainer compares the names, before it copies
FetchCurrent(t) ==
  /\ At(t, "fetch") /\ key[t].name = name
  /\ Goto(t, "copyCurrent")
  /\ UNCHANGED <<phase, memory, disk, chunk, key, got>>

FetchCached(t) ==
  /\ At(t, "fetch") /\ key[t].name # name /\ key[t].name = cacheName
  /\ Goto(t, "copyCached")
  /\ UNCHANGED <<phase, memory, disk, chunk, key, got>>

\* The file is read over the shared currentReadContainer_.
FetchFile(t) ==
  LET from == file[key[t].name] IN
  /\ At(t, "fetch") /\ key[t].name # name /\ key[t].name # cacheName
  /\ from # NoFile
  /\ cacheBody' = ReadInto(cacheBody, from.byte, from.size)
  /\ Goto(t, "copyLoaded")
  /\ UNCHANGED <<phase, name, used, body, cacheName, disk, chunk, key, got>>

\* The file cannot be opened: restoreChunk fails, zeros are answered.
FetchNothing(t) ==
  /\ At(t, "fetch") /\ key[t].name # name /\ key[t].name # cacheName
  /\ file[key[t].name] = NoFile
  /\ Answer(t, Zeros(chunk[t]))
  /\ UNCHANGED <<phase, memory, disk, chunk, key>>

CopyCurrent(t) ==
  /\ At(t, "copyCurrent")
  /\ Answer(t, Copy(body, key[t].offset, chunk[t]))
  /\ UNCHANGED <<phase, memory, disk, chunk, key>>

CopyCached(t) ==
  /\ At(t, "copyCached")
  /\ Answer(t, Copy(cacheBody, key[t].offset, chunk[t]))
  /\ UNCHANGED <<phase, memory, disk, chunk, key>>

\* mutant of CopyLoaded: the cache takes the name of the current container
CopyLoadedMisnamed(t) ==
  /\ At(t, "copyLoaded")
  /\ Answer(t, Copy(cacheBody, key[t].offset, chunk[t]))
  /\ cacheName' = name
  /\ UNCHANGED <<phase, name, used, body, cacheBody, disk, chunk, key>>

CopyLoaded(t) ==
  /\ At(t, "copyLoaded")
  /\ Answer(t, Copy(cacheBody, key[t].offset, chunk[t]))
  /\ cacheName' = key[t].name
  /\ UNCHANGED <<phase, name, used, body, cacheBody, disk, chunk, key>>

\* The bytes are in the reply; the thread goes on to the next chunk.
Answered(t) ==
  /\ At(t, "answered")
  /\ End(t)
  /\ UNCHANGED <<phase, memory, disk>>

-----------------------------------------------------------------------------
(* The life of the process *)

\* SIGINT runs CTRLC, which deletes the StorageCore; its destructor writes
\* .StorageConfig and the current container while the data threads go on.
SaveConfig ==
  /\ phase = "up"
  /\ Quiet \/ "interrupt" \in Faults
  /\ config' = [name |-> name, used |-> used]
  /\ phase' = "saving"
  /\ UNCHANGED <<memory, file, index, local>>

\* mutant of SaveCurrent: the destructor forgets the current container
SaveNothing ==
  /\ phase = "saving"
  /\ phase' = "saved"
  /\ UNCHANGED <<memory, disk, local>>

SaveCurrent ==
  /\ phase = "saving"
  /\ file' = [file EXCEPT ![name] = Saved]
  /\ phase' = "saved"
  /\ UNCHANGED <<memory, config, index, local>>

Vanish ==
  /\ phase' = "down"
  /\ name' = 0 /\ used' = 0 /\ body' = BlankBody
  /\ cacheName' = NoName /\ cacheBody' = BlankBody
  /\ pc' = [t \in Thread |-> "idle"]
  /\ key' = [t \in Thread |-> NoKey]
  /\ got' = [t \in Thread |-> <<>>]
  /\ UNCHANGED <<disk, chunk>>

Exit == phase = "saved" /\ Vanish

\* The process dies: LevelDB and the files written so far are what is left.
Kill == "kill" \in Faults /\ phase # "down" /\ Vanish

\* mutant of Restart: the constructor does not load the last container
RestartEmpty ==
  /\ phase = "down"
  /\ phase' = "up"
  /\ name' = config.name
  /\ used' = config.used
  /\ UNCHANGED <<body, cacheName, cacheBody, disk, local>>

\* mutant of Restart: it starts with the first name again
RestartFirst ==
  /\ phase = "down"
  /\ phase' = "up"
  /\ name' = 0
  /\ used' = config.used
  /\ body' = ReadInto(body, file[config.name].byte, config.used)
  /\ UNCHANGED <<cacheName, cacheBody, disk, local>>

\* The StorageCore constructor; without a .StorageConfig it starts with the
\* first name and nothing used.
Restart ==
  /\ phase = "down"
  /\ phase' = "up"
  /\ name' = config.name
  /\ used' = config.used
  /\ body' = ReadInto(body, file[config.name].byte, config.used)
  /\ UNCHANGED <<cacheName, cacheBody, disk, local>>

-----------------------------------------------------------------------------
StoreStep(t) ==
  \/ AppendToContainer(t) \/ OpenFull(t) \/ SaveFull(t) \/ NextName(t)
  \/ WriteFirst(t) \/ InsertIndex(t) \/ Advance(t)

RestoreStep(t) ==
  \/ Lookup(t) \/ FetchCurrent(t) \/ FetchCached(t) \/ FetchFile(t)
  \/ FetchNothing(t) \/ CopyCurrent(t) \/ CopyCached(t) \/ CopyLoaded(t)
  \/ Answered(t)

Next ==
  \/ \E t \in Thread, c \in Chunk : StoreChunk(t, c) \/ RestoreChunk(t, c)
  \/ \E t \in Thread : StoreStep(t) \/ RestoreStep(t)
  \/ SaveConfig \/ SaveCurrent \/ Exit \/ Kill \/ Restart

Spec == Init /\ [][Next]_vars
-----------------------------------------------------------------------------
Label == {"idle", "write", "save", "next", "first", "insert", "advance",
          "lookup", "fetch", "copyCurrent", "copyCached", "copyLoaded",
          "answered"}

\* where a call holds a key
Keyed == {"save", "insert", "advance", "fetch", "copyCurrent", "copyCached",
          "copyLoaded"}

\* Every variable has the values its comment describes.
TypeOK ==
  /\ phase \in {"down", "up", "saving", "saved"}
  /\ name \in Name
  /\ used \in Nat
  /\ body \in Body
  /\ cacheName \in Name \cup {NoName}
  /\ cacheBody \in Body
  /\ file \in [Name -> File]
  /\ config \in [name : Name, used : Nat]
  /\ index \in [Chunk -> Key \cup {NoKey}]
  /\ pc \in [Thread -> Label]
  /\ chunk \in [Thread -> Chunk]
  /\ key \in [Thread -> Key \cup {NoKey}]
  /\ \A t \in Thread : pc[t] \in Keyed => key[t] \in Key
  /\ got = [t \in Thread |-> got[t]]
  /\ \A t \in Thread :
       pc[t] = "answered" => got[t] \in [0 .. Size[chunk[t]] - 1 -> Byte]

\* The bytes a restore of chunk c would find now, or after the next start of
\* the server when it is down: in the current container, or in a file.
Holds(b, at, c) == Copy(b, at, c) = Data(c)

InCurrent(k, c) == k.name = name /\ Holds(body, k.offset, c)

InFile(k, c, extent) ==
  /\ k.offset + Size[c] <= extent
  /\ Holds(file[k.name].byte, k.offset, c)

Readable(c) ==
  LET k == index[c] IN
  CASE phase # "down" /\ k.name = name -> InCurrent(k, c)
    [] phase = "down" /\ k.name = config.name -> InFile(k, c, config.used)
    [] OTHER -> InFile(k, c, file[k.name].size)

\* What the index promises it can keep: every chunk that fp2ChunkDB knows, and
\* that the server therefore never asks a client for again, lies where its
\* index entry says, at every step of a rollover and across restarts.
IndexedReadable == \A c \in Chunk : index[c] # NoKey => Readable(c)

\* A restore answers with the bytes that were stored under the fingerprint,
\* whichever of the current container, the cached one and the files it reads.
RestoredRight ==
  \A t \in Thread :
    pc[t] = "answered" /\ key[t] # NoKey => got[t] = Data(chunk[t])

-----------------------------------------------------------------------------
(* Why the index is right when requests are served one at a time and the    *)
(* server is stopped between them: the inductive invariant.                 *)

\* No two threads are in a call, and none is while the server stops.
Alone ==
  /\ \A t, u \in Thread : pc[t] # "idle" /\ pc[u] # "idle" => t = u
  /\ phase # "up" => Quiet

\* There is always room for an empty chunk, and what the destructor writes is
\* the state of the memory.
Stopping ==
  /\ used < MaxContainerSize /\ config.used < MaxContainerSize
  /\ phase \in {"saving", "saved"} => config = [name |-> name, used |-> used]
  /\ phase = "saved" => file[name] = Saved

\* Entry k of chunk c is the one a call has just inserted.
Fresh(k, c) ==
  \E t \in Thread : pc[t] = "advance" /\ chunk[t] = c /\ key[t] = k

\* A chunk of the current container lies below used_, unless its call has still
\* to advance it; the containers before are files, later ones do not exist.
PlacedInMemory(k, c) ==
  /\ k.name <= name
  /\ k.name = name => /\ Holds(body, k.offset, c)
                      /\ k.offset + Size[c] <= used \/ Fresh(k, c)
  /\ k.name < name => InFile(k, c, file[k.name].size)

PlacedOnDisk(k, c) ==
  /\ k.name <= config.name
  /\ k.name = config.name => InFile(k, c, config.used)
  /\ k.name < config.name => InFile(k, c, file[k.name].size)

Placed ==
  \A c \in Chunk : index[c] # NoKey =>
    /\ phase # "down" => PlacedInMemory(index[c], c)
    /\ phase = "down" => PlacedOnDisk(index[c], c)

\* cacheBody has the chunks of container n
CacheHas(n) ==
  \A c \in Chunk : index[c] # NoKey /\ index[c].name = n =>
    Holds(cacheBody, index[c].offset, c)

\* currentReadContainer_ is what its name says, but while a file is read into it
Cached ==
  cacheName # NoName =>
    /\ phase # "down" /\ cacheName < name
    /\ (\A t \in Thread : pc[t] # "copyLoaded") => CacheHas(cacheName)

StoreCall(t) ==
  /\ pc[t] = "save" => key[t].name = name
  /\ pc[t] = "next" => file[name] = Saved
  /\ pc[t] = "first" => \A c \in Chunk : index[c] # NoKey => index[c].name # name
  /\ pc[t] \in {"insert", "advance"} =>
       /\ key[t] = [name |-> name, offset |-> used]
       /\ used + Size[chunk[t]] < MaxContainerSize
       /\ Holds(body, used, chunk[t])
  /\ pc[t] = "advance" => index[chunk[t]] = key[t]

RestoreCall(t) ==
  /\ pc[t] \in {"fetch", "copyCurrent", "copyCached", "copyLoaded"} =>
       key[t] = index[chunk[t]]
  /\ pc[t] = "copyCurrent" => key[t].name = name
  /\ pc[t] = "copyCached" => key[t].name = cacheName
  /\ pc[t] = "copyLoaded" => key[t].name # name /\ CacheHas(key[t].name)
  /\ pc[t] = "answered" => key[t] = NoKey \/ got[t] = Data(chunk[t])

\* The strengthening of IndexedReadable and RestoredRight that every step keeps.
IndInv ==
  /\ TypeOK /\ Alone /\ Stopping /\ Placed /\ Cached
  /\ \A t \in Thread : StoreCall(t) /\ RestoreCall(t)

-----------------------------------------------------------------------------
\* Two threads that both found room may push used_ past the container size,
\* but saveTOFile still writes no more than the bytes body_ has.
WithinBody == used <= 2 * MaxContainerSize

\* No start of the server ever returns to a container before the one it was
\* last shut down with: the files of those are never written again, whatever
\* kills and restarts follow.
SealedStaySealed ==
  [][\A n \in Name : n < config.name => file'[n] = file[n]]_vars

-----------------------------------------------------------------------------
\* The store seen as a map: a chunk is stored once it is indexed.
Map == INSTANCE ChunkMap WITH
  Content <- [c \in Chunk |-> Data(c)],
  Missing <- [c \in Chunk |-> Zeros(c)],
  stored <- {c \in Chunk : index[c] # NoKey},
  answer <- [t \in Thread |-> IF pc[t] = "answered" THEN got[t] ELSE None]

\* Served one request at a time and shut down between requests, the store is
\* indistinguishable from a map that keeps everything it was given.
ImplementsMap == Map!Spec
=============================================================================
