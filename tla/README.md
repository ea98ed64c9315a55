# SGXDedup in TLA+

A verification development kept beside SGXDedup, a deduplicating backup system whose clients prove
to the server, by an SGX enclave, that they own what they do not upload. It consists of TLA+ modules
translated from the C++ sources, TLC configurations that check them on small instances, and TLAPS
proofs of what holds for every instance. Paths below are relative to the root of the repository.

The build that is modelled is the default one of `include/systemSettings.hpp`:
`MULTI_CLIENT_UPLOAD_TEST` 0, `TRACE_DRIVEN_TEST` 1, `SYSTEM_BREAK_DOWN` 0, key generation
`KEY_GEN_SGX_CFB`, and `STORAGE_CORE_READ_CACHE` undefined.

## 1. The system

### Upload client (`client-sgx -s file`)

Five threads, each with an input queue and its done flag (`include/messageQueue.hpp`, a lock-free
single-producer single-consumer queue of 5000 entries). Every stage calls `insertMQ` of the next.

| component | state | operations | right when |
| --- | --- | --- | --- |
| Chunker (`src/client/chunker.cpp`) | file, chunk buffer, fingerprint window | cut the file, hand on each chunk and last the recipe head | the chunks concatenated are the file; sizes within the bounds |
| Fingerprinter, Encoder (`fingerprinter.cpp`, `encoder.cpp`) | queue | hash or encrypt one chunk | order kept, nothing lost, done handed on |
| KeyClient (`keyClient.cpp`) | batch, CTR counter file | obtain keys a batch at a time, encrypt the chunks | same chunk, same key; done handed on, also after an error |
| powClient (`src/enclave/src/powClient.cpp`) | batch, done | sign a batch of fingerprints in the enclave, ask the server, mark the chunks to upload | a chunk is skipped only if the server has it |
| Sender (`src/client/sender.cpp`) | recipe list, chunk buffer, two connections | upload marked chunks in lists, then the recipe, then ask for leave to exit | recipe complete and in order, chunks before recipe |

### Restore client (`client-sgx -r file`)

RecvDecode (`recvDecode.cpp`) fetches the recipe, decrypts it, sends it back in the clear, receives
batches of chunks and passes them to Retriever (`retriever.cpp`), which writes the file. It is right
when every chunk arrives once, in order, and both threads end.

### Server (`server-sgx`)

| component | state | operations | right when |
| --- | --- | --- | --- |
| ServerMain | the objects below | pair each data connection with a pow connection and start two threads; save on SIGINT | no connection of one client meets that of another |
| DataSR::runData, runPow (`src/server/dataSR.cpp`) | per connection | receive a message, dispatch it, answer | every request answered, the thread ends with its client |
| StorageCore (`storageCore.cpp`) | current container, cached container, files, `.StorageConfig`, LevelDB index | storeChunk, restoreChunk, storeRecipes, restoreRecipes, start, stop | what the index says can be read, across rollovers and restarts |
| DedupCore (`dedupCore.cpp`) | - | which fingerprints are unknown | its answer is right when it is used |
| powServer (`src/enclave/src/powServer.cpp`) | sessions | attest a client's enclave, check signed hashes | only attested clients are answered |
| key-session threads (`dataSR.cpp`, `kmServer.cpp`) | session key, counter, flag | attest the key server; update the key from time to time | both ends have the same key |

### Key server (`keymanager-sgx`)

keyServer (`src/keymanage/keyServer.cpp`) accepts one thread per client, generates keys in the
enclave (`src/enclave/km_enclave/km_enclave.cpp` through `kmClient.cpp`), attests itself to the
server again on request, and updates its session key by key regression in step with the server.

### How they interact

The stages of a client share queues; each client has two TLS connections (`src/util/ssl.cpp`) to two
threads of the server, which share StorageCore, LevelDB and the session-key state without locks (but
the mutex within `Database`). The key server and the storage server call each other to attest again.
SIGINT is handled while all threads go on.

### What is hard

* several data threads in one StorageCore, with no lock around the containers;
* a shutdown, a SIGINT or a kill between two steps of a store;
* the index answering "known" while the chunk is still another client's to complete;
* the recipe and the chunks reaching the server by different paths, in batches of different sizes;
* errors that end one stage of a pipeline while the others go on;
* a peer that dies or whose connection is reset in the middle of a session;
* two counters, at two servers, that must derive the same key.

`PROJECT.json` lists these hazards line by line, with the properties that cover each, or why none
does.

## 2. The modules

In the order of the plan: first whether what was stored can be read back, then the way of a file to
the server and back, then the keys and sessions without which neither happens.

| | module | what | abstract specification | state |
| --- | --- | --- | --- | --- |
| 1 | ContainerStore | StorageCore's containers, index, cache, restarts | ChunkMap: a map that only grows | checked, proved |
| 2 | UploadSession | powClient, Sender, runPow, runData, for several clients | - | checked, proved |
| 3 | Restore | runData's download batches, RecvDecode, Retriever, recipe files of a name uploaded twice | OrderedCopy | checked, proved |
| 4 | UploadPipeline | the five threads of an upload, bounded queues, done flags, main's joins and deletions | OrderedCopy | checked, proved |
| 5 | KeyRegression | attestation and update threads of both servers, key, flag and counters | - | checked, proved |
| 6 | PowSession | attestation, sealed login, MACs of batches, threads of runPow | - | checked, proved |
| 7 | KeyGenCFB | chunk keys as the default build makes them; KeyClient, the key server's threads, its enclave | - | checked, proved |
| 8 | KeyGenCTR | chunk keys by counters and prepared masks, the other method of key generation | - | checked, proved |
| 9 | Chunker | cutting a file into chunks, by size, by content or by a trace | the cut by a polynomial, an operator | checked, proved |
| 10 | ServerAccept | the pairing of connections, the life of the listening ports | - | checked, proved |

`MC*.tla` hold the instances and `*Proofs.tla` the proofs. UploadSession and Restore take the chunk
store as ChunkMap gives it: a chunk is stored in one step. UploadPipeline takes what a stage does to
a chunk from KeyGenCFB, KeyGenCTR and UploadSession, and KeyGenCFB the session key from
KeyRegression. OrderedCopy is what a component that hands on a sequence promises, at both ends of
the system.

Every safety property that a run checks, but `PreparedRight` of KeyGenCTR, is also stated by a
theorem, the three refinements among them. What else is left to TLC is liveness (section 12).

## 3. ContainerStore

Models `StorageCore` with its `Container`s and `Database` index, the calls `runData` makes, and the
life of the process. Its runs and proofs are in `MCContainerStore` and `ContainerStoreProofs`.

### State and actions

| TLA+ | code |
| --- | --- |
| `name`, `used`, `body` | `lastContainerFileName_` (numbered in the order of `next_permutation`), `currentContainer_` |
| `cacheName`, `cacheBody` | `currentReadContainerFileName_`, `currentReadContainer_` |
| `file`, `config`, `index` | `Containers/*.container`, `.StorageConfig`, `fp2ChunkDB` |
| `pc`, `chunk`, `key`, `got` | per data thread: where its call is, its arguments and locals |
| `phase` | the process: up, in the SIGINT handler (`saving`, `saved`), down |

`storeChunk` is a series of steps: the fit test with the copy (`AppendToContainer`), or, when the
chunk does not fit, `OpenFull`, `SaveFull`, `NextName`, `WriteFirst`; then `InsertIndex`, and
`Advance` of `used_`, which only happens after the insert. `restoreChunk` is `Lookup`, the
comparison of names (`Fetch...`) and the copy (`Copy...`). The destructor is `SaveConfig` and
`SaveCurrent`; `Kill` leaves what LevelDB and the file system have; `Restart` is the constructor.
Bytes are pairs of chunk and position, so a copy from the wrong place is seen.

Where two threads race, a step is at least as coarse as one statement; two `next_permutation` calls
at once may leave any name. Finer tearing inside a `memcpy` or of a string that is read while it is
changed is not modelled.

### Constants

`Serial` TRUE lets one request be served at a time; `Faults` may contain `interrupt` (SIGINT in the
middle of a request) and `kill`. `Names` bounds the containers of a behaviour: a chunk that would
need another name is not stored.

### Runs

| run | instance | shows |
| --- | --- | --- |
| `store_serial` | 3 chunks of 1, 2 and 2 bytes, containers of 4 (so 3 are usable), 3 names, one thread, orderly shutdowns | `IndexedReadable`, `RestoredRight`, the inductive invariant `IndInv`, and that the store implements `ChunkMap` (`ImplementsMap`) |
| `store_kill` | 2 chunks, containers of 3, 2 names, one thread, interrupts and kills | `SealedStaySealed`: a container that was full at the last shutdown is never written again |

The bounds suffice for the cases that matter: two chunk sizes leave a container with room for one
and not for the other; three names give a current, a cached and an uncached container, with two
rollovers and restarts at every fill. A chunk may be stored again, so one fingerprint moves from
container to container. `IndInv` has the type invariant in it.

`MCStoreBounds.cfg` is not among the runs: with two threads and kills, `WithinBody` holds, that two
threads that pass the fit test together stay within the 2 * 8 MiB of `body_`. With three threads the
sum of their chunks may exceed it, at the real sizes only when more than 500 threads pass the test
together.

### Refinement

`ChunkMap` stores a chunk in one step and answers a restore with the content of a stored chunk or
with zeros. The mapping (`Map`) takes a chunk as stored when it is in the index, and the answer of a
thread when its call has it. `ImplementsMap` is `Map!Spec`, which states no liveness.

### Proofs

`ContainerStoreProofs` proves, for all chunks, sizes, names and threads (from `StoreAssumption`):

* `TypeCorrect`: `Spec => []TypeOK`.
* `IndexAlwaysReadable` and `RestoresAlwaysRight`: if `Serial` and there are no faults, every
  indexed chunk can be read and every restore of one is right. Neither is inductive. `IndInv` adds
  that calls exclude each other (`Alone`), that what the destructor writes is what memory holds
  (`Stopping`), where each indexed chunk lies with respect to `used`, the files and the
  configuration (`Placed`), that the cache holds the container it is named after but while one is
  being read (`Cached`), and what a call holds at each of its steps (`StoreCall`, `RestoreCall`).
  One lemma per action shows that it keeps `IndInv`.
* `StoreIsMap`: under the same conditions the store implements `ChunkMap`. A copy into the answer is
  a step of the map because `IndInv` says what the cache or the current container has there, and
  inserting into the index is one; all others stutter (`MapStep`).
* `SealedAlwaysStaySealed`: if `Serial`, under all signals and kills. Its invariant `SealInv` says
  that the name in memory never falls behind the one in `.StorageConfig`, and a thread about to save
  has the name of the current container.

`IndAlways` states the invariant itself. `MCStoreRace.cfg` and `MCStoreLost.cfg` (section 13) are
why the assumptions are there.

## 4. UploadSession

Models the upload of one file per client, from powClient's queue to the stored recipe.

### State and actions

| TLA+ | code |
| --- | --- |
| `todo`, `batch`, `last` | powClient: its input queue (filled from the start), `batchChunk`, `jobDoneFlag` |
| `answer`, `needed` | runPow: `requiredChunkTemp`, `requiredChunkNumber` |
| `queue`, `done` | the sender's `inputMQ_`, its `done_` |
| `head`, `list`, `buffer` | Sender: `fileRecipe`, `recipeList`, `sendChunkBatchBuffer` |
| `wire`, `link` | the data connection and the client's end of it |
| `inbox`, `pending` | runData: `recvBuffer`, the chunks of it not yet stored |
| `index`, `recipes` | `fp2ChunkDB`, the recipe files |
| `skipped` (history) | chunks that the server has asked for and the marking loop has not come to (`LeftOut`) |

powClient: `Collect`, `PassRecipe` (the recipe head overtakes the batch), `LastBatch`, `Ask`,
`DedupByHash` one fingerprint at a time, `Forward`. Sender: `TakeRecipe`, `TakeChunk` (with the list
that is sent when it is full), `SendRest`, `SendRecipeHead`, `SendRecipe`, `SendEndFlag`, `Finish`.
Data thread: `Receive`, `StoreOne`, `Stored`, `StoreRecipe`, `HangUp`, and what it does with a
connection that was reset (`ReadReset`, `StoreJunkRecipe`). `RefuseBatch` is a proof that fails in
the enclave or at the server; `Die` the death of a client, which may lose what it last sent.

Uninitialised values are choices: the `type` of a chunk nobody marked, the answer entries of known
chunks, the buffer of a recipe that never came. `storeChunk` is one step, as `ChunkMap` has it; the
queues are unbounded (UploadPipeline has their bounds); the pow connection is a call, which is not
lost (PowSession loses it). The exchange of `CLIENT_EXIT` with the pow thread changes no state of
the model.

### Runs

| run | instance | shows |
| --- | --- | --- |
| `upload_faults` | two clients with files a b a and b a, batches and lists of 2, all faults, at most 2 recipes (`Versions`) by way of a reset | `Restorable`: every chunk of a stored recipe is stored, or some client's marking loop has left it out; `IndInv`, the invariant of the proof |
| `upload_batch` | the same, lists of 3, dying clients, fairness | `WholeRecipe`, `FinishedIsStored`, `SessionEnds` |

The files have a chunk that repeats within a file and chunks that the two clients share, in opposite
order, and between the two a last batch and a last list that are partial and empty, behind full ones.
These are the cases in which batches, lists and the answers of the two pow threads can disagree.
The behaviours end when all sessions have, so deadlock
is not checked (`CHECK_DEADLOCK FALSE`); `SessionEnds` says that none stops early.

Fairness is weak, for each of the three threads of a session: they are threads of an operating
system that never wait for each other but in the calls modelled. No fairness is assumed of `Die` and
`RefuseBatch`.

### Proofs

`UploadSessionProofs` proves, for all clients, files, lists, faults and interleavings (from
`UploadAssumption`):

* `UploadTypeCorrect`: `Spec => []TypeOK`.
* `RecipesRestorable`: `Spec => []Restorable`, for batches of any size. The marking loop runs to the
  number of required chunks and not over the batch (`powClient.cpp:156`): what it leaves out is in
  `skipped`, and `MCUploadSkip.cfg` shows that the property without this exception, which
  `RestorableAlways` is, does not hold (section 13). The theorem says that nothing else is lost, by no
  fault and no interleaving, and what a client leaves out is lost only until another one uploads it.
  `IndInv` adds that the server's answer is right when it is used, although other clients go on
  storing (`BatchRight`), that a chunk in the queue is marked, stored or left out (`QueueRight`),
  that a listed chunk is stored, on its way or in the sender's buffer, or left out (`ListRight`), and
  that a recipe on the wire comes behind its chunks and right after its head (`WireRight`, which keeps
  a truncated connection harmless). `SessionsInOrder` states that this invariant holds. A chunk is
  `Covered` at a message when the messages before it, the index or `skipped` have it.
* `RecipesWhole` and `FinishedAreStored`: `"pow" \notin Faults => (Spec => []WholeRecipe)`, and the
  same of `FinishedIsStored`, for batches of any size. The condition is needed: `MCUploadPart.cfg`
  refutes the first without it. The invariant is `WholeInv`. `Carried` says that what is listed,
  queued, in the batch and still to come is the file, one behind the other, with the recipe head at
  a place of its own, since it overtakes the batch; `Listed` that the recipe is complete when the
  sender's loop is over; `InOrder` that the recipe follows its head on the wire and the exit comes
  last, also on a connection that a death has cut short; `Leaving` that a thread whose client has
  not died exits only with the recipe stored.

## 5. Restore

Models the restore of one file: `RecvDecode` (constructor, `run`, destructor) and `Retriever::run`
at the client, the download cases of `DataSR::runData` and the recipe files of `StorageCore` at the
server.

### State and actions

| TLA+ | code |
| --- | --- |
| `uploads`, `appended` | what is uploaded under the name, and how many of these recipes its file has |
| `toServer`, `toClient` | the data connection; a batch carries as many bytes as the server says it has |
| `server`, `announced`, `total`, `requested` | runData: the case it is in, `recipeSize`, the head's `totalChunkNumber`, `restoredRecipeList` |
| `startID`, `endID`, `restored` | `startID_`, `endID_`, `totalRestoredChunkNumber_`, modulo `IDLimit` |
| `client`, `list`, `received`, `pending` | RecvDecode: where it is, `fileRecipeList_`, `totalRecvChunks`, what is left of `respondBuffer` |
| `queue`, `written` | `outPutMQ_`, the file that Retriever writes |

The server's actions are the cases of `runData` (`AnnounceRecipe`, `SendRecipe`, `ReceiveListSize`,
`ReceiveList`), the loop over batches (`StartBatches`, `SendBatch`, `EndBatches`) and the ways it
ends. The client asks for the recipe (`AskRecipe`, `RecvSize`, `RecvRecipe`), sends the list back
(`SendListSize`, `SendList`), and takes batches apart (`RequestChunks`, `RecvBatch`, `Insert`,
`Inserted`); Retriever is `WriteChunk`. `StoreRecipes` is another client's upload of the name, at
any moment, and `Kill` the death of the server, after which the client's `ssl::send` may hang
(`SendHangs`).

A chunk is whole or `Damaged`. A batch that is cut short damages the chunks at its end; a chunk the
server does not have damages itself.

### Run

`restore`: files of no chunk, one, a batch of two, three and five chunks with sizes of 1 to 3 bytes,
names uploaded once and twice, a chunk that is not stored, a queue of 2, IDs that wrap at 16, a
server that may be killed. `BatchInRange` (with the type invariant) says that the batches, computed
in unsigned arithmetic, begin where the last one ended and stay within the list; `CopiesFile` that
the written file refines `OrderedCopy`, although Retriever ignores the chunks' IDs; `RestoreEnds`
that the restore ends if the server lives. Two batches and a rest are all the cases the loop over
batches distinguishes, and the wrap at 0 is the one its `total - 1` has.

Fairness is weak for the server's thread and for the two of the client. A restore whose server has
died may hang in `ssl::send`, so `RestoreEnds` excepts it.

### Proofs

`RestoreProofs` proves, for all files, histories of uploads, batches, queues and deaths of the
server (from `RestoreAssumption`): `BatchesInRange`, `Spec => []BatchInRange`, and `RestoreCopies`,
`Spec => CopiesFile`, which is the refinement of `OrderedCopy`. One invariant carries both,
`RestoreInv`. `Talk` says how far the server is with the client's messages, `Quiet` that nothing is
under way before chunks are asked for, `Counters` what the counters of the batches, computed modulo
`IDLimit`, add up to; `Places` that what is written, in the queue and pending lies one behind the
other in the list, and `Batches` that the batches on their way continue it.

## 6. UploadPipeline

Models the five threads of `client -s`, the queues between them, and `main` and its signal handler.

### State and actions

| TLA+ | code |
| --- | --- |
| `queue`, `done` | `inputMQ_` and `done_` of each stage; `Push` spins while the queue is full |
| `batch`, `held`, `last` | what a stage has taken, what it has still to push, `JobDoneFlag` |
| `pc` | where a thread is; `end` is a return at its end, `gone` one that leaves the next flag unset |
| `made` | how many items the chunker has made of the file |
| `sent`, `fileRecipe` | the sender's `recipeList`, and whether it has the recipe head |
| `main`, `todo`, `freed` | main's joins and deletions, those of `CTRLC`, and how often each object was deleted |

A stage takes one item (`TakeChunk`, `TakeRecipeHead`, which overtakes the batch), reads the flag
(`SeeDone`), works on a full or last batch (`Work`), pushes (`PassOn`), and ends by setting the next
flag (`StageOver`). Each early return is an action of its own (`GiveUp`, `EncryptFails`, `PowFails`,
`SendFails`) that does with the flag and the batch what the code does there.

### Run

`pipeline`: files of 0 to 4 chunks, queues of 2, key batches of 2 and pow batches of 3, every
failure, and an interrupt. There are batches as large as the queue and larger, files shorter than a
batch, equal to one and longer, and neither batch size divides the other. `DoneIsAll` says that a
stage whose flag is set has been given everything, the recipe too; `CopiesFile` that what the sender
takes refines `OrderedCopy`; `LivesLonger` that main deletes nothing a thread still uses and nothing
twice; `Joins` that an upload ends, unless a stage has left without setting the flag (`LeftWaiting`)
or a full queue has lost its consumer (`NotTaken`). These two are the hangs that the code has.

Fairness is weak for each thread until main exits. `LivesLonger` does not speak of the handler,
which deletes the objects of running threads.

### Proofs

`ThreadsProofs` proves, for all files, queues, batches and sets of faults (from
`PipelineAssumption`): `FlagAfterAll`, `Spec => []DoneIsAll` (the type invariant with it);
`DeletedAfter`, `Spec => []LivesLonger`; and `PipelineCopies`, `Spec => CopiesFile`, the refinement
of `OrderedCopy`: the sender's taking a chunk (`Send`) is a step of it, everything else stutters.

One invariant carries them, `StageInv`. `Places` says what a stage has in its hands at each of its
program counters, that it believes the flag only with its queue empty, and that it sets the flag of
the next stage exactly when it returns at its end. `Kept` counts: what is in the queues, batches and
hands, and what the sender has taken, is what the chunker has made, so that a stage that sees the
flag with nothing before it has been given all (`AllThere`). `Flow` is about order. For each thread
there is a number of chunks it has taken, one of those it has passed on or holds for it, and one of
those it has passed on; each queue, batch and hand holds the chunks of the file between two of these
numbers (`Span`), although the recipe head may stand anywhere among them. What is taken is therefore
what follows in the file, also when a stage gives up: then nothing more comes through it. `Deletes`
counts the deletions with those that main and its handler still have to do.

## 7. KeyRegression

Models the key that the storage server shares with the key enclave: the attestation
(`runKeyServerRemoteAttestation` with `kmServer`; `runRemoteAttestationInit`, `runRAwithSPRequest`
with `kmClient`), the regression of the key on both sides (`runKeyServerSessionKeyUpdate`,
`runSessionKeyUpdate`), and the wait for the clients of the key server before an attestation is
renewed.

### State and actions

| TLA+ | code |
| --- | --- |
| `attester`, `lifeLeft`, `flag`, `session`, `key` | the server's attestation thread, `keyExchangeKeySetFlag_`, `keyServerSession_`, `keyExchangeKey_` |
| `updater`, `hashed`, `times`, `intervalLeft` | its update thread, `hashResultTemp`, `keyRegressionCurrentTimes_` |
| `manager`, `raRequestFlag`, `live`, `enclave` | the key server's attestation thread, its flag, the enclave with its key and counter |
| `regression`, `regressionLeft` | its update thread |
| `threads`, `clientCount` | the client threads and `clientThreadCount_` |

A key is `<<n, t>>`, the secret of the n-th attestation hashed t times. A step takes no time; `Tick`
passes time when no thread can do anything but sleep. The update of the server is five steps, so the
attestation thread can change the key and the flag between any two.

### Run

`key_regression`: three attestations, chains of 4 keys, two clients, intervals of 2, attestations
that last 4, which is two regressions. `KeysAgree` says that both sides hold one key, within the
first attestation and as long as its chain lasts; `SameSecret` that a completed attestation leaves
both with its secret; `OnlyBackwards` that updates go back along the chain; `Renewed` that an
expired attestation is replaced, unless the peer is refused or a client has been lost and is counted
for ever.

Fairness is weak for each thread and for time; clients leave in the end. The conditions of
`KeysAgree` and `Renewed` are divergences of section 13.

### Proofs

`KeyRegressionProofs` proves, for any number of attestations, clients, lengths of chains and
intervals: `SecretsMatch`, `Spec => []SameSecret`; and `NeverForward`,
`MaxTimes < CountLimit - 1 => (Spec => OnlyBackwards)`. `OnlyBackwards` excepts an enclave whose
counter is beyond `MaxTimes`, and a counter that wraps has to be. In `KeyInv`, `Phase` says how far
an attestation is at both ends and what is on its way between them, `Fresh` that an enclave has no
secret before its session key, `Secret` that one that serves clients has that of the last
attestation, and `Chain` under which value of its counter the enclave's key was made.

`FirstKeysAgree`, `Spec => []KeysAgree`, rests on `AgreeInv`: neither side begins before the first
attestation is complete (`Beginning`); from then on, while it lasts, the key of each side is the one
its own counter says (`KeysByCount`), and the counters and what is left of the intervals differ by
no more than the round that both sides have to make now (`Lockstep`). At rest that round is made on
both sides, and the counters are equal.

## 8. PowSession

Models the session behind a proof of ownership: `powClient`'s constructor, attestation, sealing and
batches, with the calls of `Sender` that carry them, and `runPow` with `powServer` at the server.

### State and actions

| TLA+ | code |
| --- | --- |
| `pc`, `key`, `link` | a process "client -s": the call it waits in, `powSessionKey` of its enclave, its pow connection |
| `sealed` | `pow-enclave.sealed` of a directory: a key, torn or none |
| `request`, `reply`, `answered`, `forwarded` | the connection; batches the server answered, and those passed to the sender |
| `sessions`, `trusted`, `current` | `powServer::sessions`, `enclaveTrusted`, a thread's `currentSession`, uninitialised at first |
| `verifying` | the session that a thread has looked up and given to `process_signedHash` |
| `computing`, `clashed` | threads within the one CMAC context of `powServer`, and those another one has disturbed |
| `up`, `restarts` | the server process |

The client's actions are `Start`, `Load`, one for each reply (`Receive...`), `Seal` and
`WriteSealed`, which a kill separates, `Kill` and `LoseLink`; the server's are the cases of `runPow`
(`LogIn`, `LogOut`, `GetKey`, `LogInSealed`, `ProcessMsg01`, `ProcessMsg3`, `HashUntrusted`,
`VerifyBegin` and `VerifyEnd`, `HashThrows`), `Stop` and `StartServer`. A key is named after the
process whose attestation made it. A client that is refused leaves its loop and sets the flag of the
sender; once its other threads have ended, which they may not do behind a full queue, main deletes
the powClient, and its destructor seals the key (`LeaveRefused`).

### Run

`pow_session` checks three settings of three processes in one state space: one client ID in one
directory, with kills, lost connections and refused keys (processes one after the other, so an
unsealed key is tried after each way to end); two client IDs at once, with refused attestations and
a restart of the server; IDs and directories that overlap, all at once. Two batches make a lost
connection differ from a first failure. `SealedIsServers`: what is sealed is what the server trusts,
whatever a kill interrupted. `NeverRefused`: a client alone at the server is refused only if its
connection is lost. `AnsweredAttested`: an answered batch was under a key of an attestation of that
ID. `ForwardedAnswered`: a batch goes to the sender only when answered, unless the connection is
lost. `ServerLives`: no batch meets a session that is not there. `Ends`: a client alone comes to its
end.

Fairness is weak for each process and its thread. `OwnDirectory` and `Alone` state when a property
is claimed; section 13 lists what happens otherwise.

### Proofs

`PowSessionProofs` proves, for all processes, client IDs, directories, kills, lost connections and
restarts (from `PowSessionAssumption`), every safety property of the run: `AnswersAttested`
(`Spec => []AnsweredAttested`), `ForwardsAnswered` (`Spec => []ForwardedAnswered`), `SessionsFound`
(`Spec => []ServerLives`), `AloneNotRefused` (`Spec => []NeverRefused`) and `SealedAreServers`
(`Spec => []SealedIsServers`, the type invariant with it). There are three invariants, each on top
of the last:

* `PowInv`, for the first two: a session is of a process of its ID (`OwnSessions`), and of each
  process what holds before its first batch (`Before`), where its call is and that the answers are
  ahead of what was forwarded (`Calling`), and whose key the batches were answered under
  (`Attested1`).
* `OwnInv`, for clients that keep to their directories: their processes are under way one after the
  other (`OneByOne`); a sealed key is the server's, or the server has started again since, and
  nobody logs out or attests while there is one (`SealedKey`); and where a process knows its key the
  server has it, too (`KeyOf`). A step of one client leaves the others' alone (`OthersOwn`), because
  it writes its own directory and the session of its own ID. For a client that is alone,
  `Undisturbed` adds that no MAC is disturbed and that it was not refused.
* `CountInv` counts the batches: what is answered and what is on its way (`Due`) is at most one
  ahead of what was forwarded (`Counted`), from which the bounds of the types follow.

## 9. KeyGenCFB and KeyGenCTR

The two methods of key generation between `KeyClient`, `keyServer::runKeyGenerateThread`, `kmClient`
and the enclave (`km_enclave.cpp`).

### State and actions

| TLA+ | code |
| --- | --- |
| CFB: `client`, `skey`, `sent`, `chunkKey`, `keys` | KeyClient: where it is, `keyExchangeKey_`, its batches, `chunkKey`, the keys it has used |
| `worker`, `asked`, `answer`, `count` | a thread of the key server, its buffers `hash` and `key`, `clientThreadCount_` |
| `renewing`, `current` | the update thread, `currentSessionKey_` |
| CTR client: `nonce`, `counter`, `stored`, `second` | `nonce_`, `counter_`, the file `.keyGenStore`, the clock that nonces are drawn from |
| `thread`, `buffer`, `clientCount`, `offlineGenerate`, `masker` | a thread of the key server, the last reply on its stack, `clientThreadCount_`, `offlineGenerateFlag_`, `runCTRModeMaskGenerate` |
| `info`, `masks`, `begun` | `clientList_` with the nonce, the two counters, flag and offset of each entry; `nextEncryptionMaskSet_`; what `ecall_keygen_ctr` has read and made so far |
| `unfolded`, `half` | where `ecall_clientStatusModify` is: entries still to go through, and the one it has added up and not yet cleared |
| `torn`, `strayed`, `unsent`, `early` (history) | batches a login has cut through, clients that have lost their nonce, a reply that did not get out, clients that came before the masks were ready |

In CFB a request is encrypted and authenticated under a session key; `Keygen` gives a reply or
refuses, and then the buffer keeps the reply of before.

In CTR fingerprints and keys are masked with blocks `<<nonce, counter, epoch>>`. A client that has no
file draws a nonce (`Start`), and so does one that is sent back with `NONCE_HAS_USED` or
`ERROR_RESEND` (`SentBack`). A login is `ModifyBegins`, which takes the mutex that keeps out other
logins and nothing else, `FoldAdds` and `FoldClears` for each entry, the two statements at
`km_enclave.cpp:136-137`, and `ModifyStatus`, the rest with its answers: a known client whose counter
is right keeps the nonce of its entry, whatever nonce it has sent (`InfoAfter`). A batch is
`BeginKeys` (the current counter, line 342), `TakeRequest` (the previous one and the blocks for the
fingerprints), `TakeReply` (the blocks for the reply, and the read of `+=`) and `EndKeys` (its
write); `RefuseKeys` is a batch that fails its hmac, for which the thread sends what its buffer
held. `Replies` is the send, or the return after one that failed, which counts down and does not
call for masks. `ClaimMasks` and `GenerateMasks` are the preparation, `UpdateKey` an update of the
session key, and `Attest` an attestation, which clears the list.

### Runs

| run | instance | shows |
| --- | --- | --- |
| `key_cfb` | two clients with batches of 2, 2, 1 and of 1, 1 hashes, two renewals, one kill | `AnswersOwn`: an accepted reply answers the batch sent, under the session key of the enclave; `ThreadsCounted`; `Finishes` |
| `key_ctr` | one client that sends batches of 2 hashes, may be killed at any point and comes twice, one that only logs in, at any point of the other's batches; one slot, a region of 14 blocks, counters to 16, a second second, one update or attestation | `CountersMatch`, `KeysRight`, `PreparedRight` |

Batches of two lengths matter in CFB because the stale reply of one length is not read at another. In
CTR a batch of 2 hashes takes 8 blocks: the first lies within the region of 14 by both tests of the
enclave, the second passes the test for the reply only, which counts half of the batch
(`km_enclave.cpp:404`), and a run may use prepared and fresh blocks. A region is even, since blocks
are prepared in pairs. Two seconds are enough for a nonce that the other client has already drawn
and for one that differs from that of the entry.

`CountersMatch`: between two batches the client's counter is what the enclave has counted.
`KeysRight`: keys that are wrong and pass the client's check are made of prepared blocks.
`PreparedRight`: a client that is alone, came after the masks were prepared, and stays within its
region gets right keys of them. Each names what the code lets through: a batch that a login has cut
through (136, 414, 137 in this order lose it, 342, 136, 343 count it twice), a client with another
session key than the enclave's, which may take what the buffer held for its keys, and one that was
killed before its first batch or was sent back for its hmac, and comes with a new nonce that the
enclave does not take (`km_enclave.cpp:185`). Any other login, kill or resend does no harm.

Bounds: a client's former thread has ended before it comes again; the storage server, which gives
clients the session key, is at most one update ahead of the enclave; no client comes between the
count of 0 that an attestation waits for and the new enclave (KeyRegression and KeyGenCFB have that
gap). What two threads do to the `unordered_map` itself, when one inserts while another looks up, is
not modelled. `MasksReady` says when nothing is left to prepare. Its third conjunct, that no reply
failed to get out, is needed from a fourth start of one client on (`Clients = {c2}`, `MaxStarts = 4`):
the thread that returns there leaves the flag unset (`keyServer.cpp:445-455`), and the masks of the
run before are used again.

`Fairness` is weak for each client that has begun and its thread, strong for the mutex of logins and
for a clock that advances while a client is sent back. Only `LoginEnds` needs it (section 12).

### Proofs

`KeyGenProofs` holds the proofs about both modules. It extends both, and that is why the
identifiers they would share have a prefix in KeyGenCFB (`CFBSpec`, `keyVars`, `ClientMoves`).

Of CTR, for all clients, batches, regions, slots, deaths, updates and attestations (from
`KeyGenCTRAssumption`):

* `CTRTypes`: `Spec => []TypeOK`, with the bounds of the counters.
* `CountersAgree`: `Spec => []CountersMatch`.
* `FreshKeysRight`: `Spec => []KeysRight`.

Their invariant is `CounterInv`. `Talks` follows a client's exchange with the key server: before the
enclave has accepted its counter (`Before`) nothing relates the two, and from then on (`After`) the
client's counter is the enclave's total (`Total`), or is behind it by the batch that is `Sent`,
`Taken` or `Replied`; all of it for a client that is `InStep`, whose batch no login has cut through
and whose key is the enclave's. In `Taken` stands what makes an unlocked fold harmless: where a
thread has read the current counter of an entry that is not being folded, it is still that. `Total`
does not count the current counter of the entry that is `half` folded, since it has been added to
the other. The blocks the enclave has used are those that the client will use, or come from prepared
masks (`Good`). `Unfolded` and `Folding` say where a login is: the entries it has gone through have
no current counter, so that the answer that compares the previous one compares the total.
`NonceKept`: a client that has not strayed has the nonce of its entry, if there is one. `Wrongs` has
what is known of a wrong key, and `Counted` that every thread is counted.

Of CFB, for all clients, batches, kills and renewals: `CFBTypes`; `CountRight`, that `count` is the
number of serving threads (by counting: the invariant `CountInv` relates `count` to the cardinality
of the set of these threads, which each step changes by one member); and `OwnAnswers`, that an
accepted reply answers the batch sent. `OwnInv` follows a request on its way: what is in the
connection, in the thread and in the answer is about the last batch, or the reply is under an older
key.

## 10. Chunker

Models `chunker.cpp`: `ReadBlock`; `FixChunk` and `FixOver`; `VarByte`, one byte of the rolling
hash, and `VarOver`; `TraceStep`, a line of a trace; `GiveRecipe`. `block`, `next`, `buffer`,
`winFp` and `rest` are `waitingForChunkingBuffer_`, the place in it, `chunkBuffer_` with its count,
and `retSize`. The hash is computed with `powerLUT_` and `removeLUT_` modulo `PolySize` and kept
modulo `FpSize`, as the code's integers do. A job is a kind of chunker, a block size and a file; it
is chosen at the start.

The run `chunker` cuts all files of up to 7 bytes with three values by content, all of up to 8 bytes
of two values at a fixed size, in blocks of 4 and 8, and all traces of up to 3 lines, the empty one
too, with sizes at each boundary (0, the smallest, the largest, one more), with and without a last
newline. Chunks are
3 to 6 bytes, so a file holds two cuts and a rest; of the 8 values of the window's hash two are
anchors.

* `WholeFile` (with the type invariant): the chunks are the file and the recipe's totals are theirs.
* `CutByContent`: a chunk ends at the first place where the polynomial of the last bytes, computed
  afresh, says so; tables and 16 bits make no difference.
* `WithinBuffer`: the chunk buffer always has room for the next byte.
* `TraceChunks`: a trace's chunks are its lines that are not too large: each of these lines
  (`KeptLines`) is the chunk whose number is its rank among them. The totals are theirs.

`WholeFile` is claimed of files of one block cut by content (`OneBlock`), or of whole blocks cut at
a divisor (`WholeBlocks`); section 13 has what happens to others.

### Proofs

`ChunkerProofs` proves, for all files, block sizes, chunk sizes, windows and polynomials (from
`ChunkerAssumption`):

* `ChunksAreTheFile`: `Spec => []WholeFile`.
* `BufferHasRoom` and `ContentCuts`: `WinSize < MaxChunk => (Spec => []WithinBuffer)`, and the same
  of `CutByContent`. The condition is needed: a window is filled without a test whether the chunk
  buffer is full, or the chunk large enough to end.
* `TraceKept`: `Spec => []TraceChunks`. A trace is a sequence of lines of which all but the last are
  ended by a newline, which is what a line is.

The invariant is `ChunkInv`: the types, and for each kind of job what was made of the part of the
file behind the chunker. For a file of one block that is cut by content, `Whole` says that the
chunks with the buffer behind them are what was looked at, and that `winFp` is the hash of the end
of the buffer (`HashOf`), and `Cut` that no chunk, nor the one being made, has an earlier place to
end. `Room` bounds the buffer. For whole blocks, `Blocks` says that the chunks are what was read, up
to the place in the block; for a trace, `Lines` that they are the kept lines that were read.

That filling and rolling keep the hash (`FilledRight`, `RolledRight`) is arithmetic modulo `FpSize`.
The table of powers is computed modulo `PolySize`, a multiple of `FpSize`, so every entry is
congruent to the power it stands for; the byte that leaves is taken away by adding its complement;
and what is left, times the base and with the next byte added, is the polynomial of the next window.
The solver does not find such steps by itself. They rest on lemmas that say what congruence allows.

`PowerLUT`, the polynomial and `FlattenSeq` are recursive. The library's induction takes an
operator, which the provers cannot instantiate; here it is stated with a set in place of the
operator (`SetInduction`, from the well-foundedness of `<` on the naturals). `Recursion` gives the
functions that the definitions choose, so that their equations can be used.

## 11. ServerAccept

Models the loop of `ServerMain.cpp` and the two connections of a client, with the backlog of the two
ports and the ports that a closed connection still holds when the server starts again. Actions:
`ConnectData`, `ConnectPow`, `Leave`, `Die`; `AcceptData`, `AcceptPow`, `AcceptFails`; `Stop`,
`StartServer`, `LingerOver`.

Nobody looks at what a handshake or `accept` returns (`ssl.cpp:108`, `119`). So `Stop` does not end
the clients: one that waits for a handshake goes on as if it had had it, one that is let past the
data port goes on to the pow port, where it may find the next server, and one that waits at the pow
port believes to be served. These are `lost`. `AcceptFails` is an `accept` that returns -1, with
which the loop goes on to the next port. From the moment a lost client comes to the pow port of the
next server, or an accept fails, until the server stops again, the turns are `shifted`: the main
thread pairs each data connection with the pow connection of another client, and does not notice
(`MCAcceptCrossed.cfg`, section 13).

The run `accept` has three clients, a backlog of two (so one waits in `connect`), one start more,
clients that die at any point, and accepts that fail. `OneClientATurn`: while the turns have not
shifted, the two connections given to a pair of threads are one client's. `WaitsForOne`: the main
thread waits at an empty pow port only for the client it has let past the data port, which is on its
way or has died. `Served`: who comes is served, unless main waits for a client that died in between,
or the turns have shifted. Fairness is weak for the main thread and for a client between its ports.

`ThreadsProofs` proves `AcceptTypes`, `TurnsAreClients` (`AcceptSpec => []OneClientATurn`) and
`WaitsForItsClient` (`AcceptSpec => []WaitsForOne`) for all clients and backlogs. `TurnInv` there
adds who may be between the two ports (`OneBetween`: the client of the turn, or lost ones), that
only the client of this turn is in the queue of the pow port (`OwnPow`), that a turn begun is a
client's (`Waits`), that a client is in the queue of the data port once (`QueuedOnce`), and that one
that a stop has cut off does not come to that port again (`NotAgain`). The module is shared with
UploadPipeline, hence the prefix of `AcceptInit`, `AcceptNext` and `AcceptSpec`.

## 12. What is proved, what is checked, what is left out

Proved for every instance: 37 theorems, in eight modules (sections 3 to 11). Each rests on the
assumptions on the constants of its module and on the condition in its statement. All invariants and
all action properties that the runs check are among them, but one, and the refinements of `ChunkMap`
and twice of `OrderedCopy`.

Only model-checked: `PreparedRight` of KeyGenCTR, whose proof would have to follow what each prepared
block was made for through the runs of a client; and the liveness properties `SessionEnds`,
`RestoreEnds`, `Joins`, `Renewed`, `Ends`, `Finishes` and `Served`, since the prover does not reach
fairness and ENABLED. `LoginEnds` of KeyGenCTR, that a login under the enclave's key ends, is in no
run: it is checked with `Busy = {}` and `PROPERTIES LoginEnds` in the place of the invariants of
`MCKeyGenCTR.cfg`, since the graph of the run is too large for a liveness check.
Where a theorem has a condition (`WinSize < MaxChunk`, `Serial`, no fault of `pow`), the run of the
same property has it, too.

Not modelled:

* the simulator of key generation (`client -k`, `runKeyGenSimulator`), a benchmark;
* Encoder, of which no object is made, and `--setup`, which has no code behind it;
* cryptography beyond what it keeps between calls, TLS, the attestation service: equal inputs are
  taken to give equal outputs, and a key to open what was closed with it and nothing else;
* I/O errors: a full disk, a failing LevelDB, a torn container file, a connection reset in the
  middle of a message;
* what an insertion into `clientList_` does to a lookup in another thread (`km_enclave.cpp:172`, `342`);
* what `free` of a pointer that was never set does (`dataSR.cpp:77`), and the tearing of one memcpy
  by another;
* reading `config.json`, and vendored code.

## 13. Known divergences

Where the code does not do what its documentation, its messages or its purpose say, the properties
of the runs carry a condition, and these configurations, which are not among the runs, drop it. TLC
ends each with a counterexample.

| configuration (module) | property | what happens |
| --- | --- | --- |
| `MCStoreRace` (MCContainerStore) | `RestoredRight` | two uploads at a time overwrite each other's chunks: the fit test, the rollover and the read cache are shared without a lock (`storageCore.cpp:361`) |
| `MCStoreLost` (MCContainerStore) | `IndexedReadable` | after a kill the index points into a container that is lost (`ServerMain.cpp:51`) |
| `MCUploadSkip` (MCUploadSession) | `RestorableAlways` | the marking loop runs to the number of required chunks, not over the batch: a new chunk behind a known one is not uploaded (`powClient.cpp:156`) |
| `MCUploadPart` (MCUploadSession) | `WholeRecipe` | after a failed batch the recipe of a part of the file is stored as the file's (`powClient.cpp:112`) |
| `MCUploadReset` (MCUploadSession) | `ThreadExits` | `ssl::recv` takes a reset connection for an empty message; the thread handles its last one for ever (`ssl.cpp:132`) |
| `MCRestoreTail` (MCRestore) | `WholeFile` | a batch is sent without the bytes of its entries' heads: its last chunks lose their ends (`storageCore.cpp:251`) |
| `MCRestoreStale` (MCRestore) | `LatestRestored` | the recipe of a name uploaded again is put behind the first one, which is restored (`storageCore.cpp:187`) |
| `MCKeyRenewed` (KeyRegression) | `RenewedKeysAgree` | the enclave counts again from the start at an attestation, the server goes on counting: after a renewal the keys differ (`dataSR.cpp:640`) |
| `MCKeyRefused` (KeyRegression) | `TriesAgain` | a refused key server waits for an answer, and the server for a connection (`dataSR.cpp:691`) |
| `MCKeyBeyond` (KeyRegression) | `WithinMaxTimes` | the enclave's counter is decremented below 0 and wraps (`km_enclave.cpp:310`) |
| `MCKeyCFBContent` (MCKeyGenCFB) | `KeyOfContent` | the client decrypts 0 of the keys it received: chunks are encrypted under what the buffer holds (`keyClient.cpp:631`) |
| `MCChunkerCut` (MCChunker) | `EveryFile` | the carried part of a chunk is cleared at the next read; a block that is not full is cut at the size left before (`chunker.cpp:364`, `284`) |
| `MCPowThrow` (MCPowSession) | `AlwaysUp` | two processes of one ID: one logs out, the other's batch throws and ends the server (`dataSR.cpp:532`) |
| `MCPowMac` (MCPowSession) | `NobodyRefused` | two clients share the CMAC context, and one is refused (`cryptoPrimitive.cpp:357`) |
| `MCPowRestart` (MCPowSession) | `EveryoneEnds` | a client whose session the server lost in a restart waits for an answer that is built and not sent (`dataSR.cpp:524`) |
| `MCPowLost` (MCPowSession) | `ForwardedAlways` | a lost connection leaves the last status: a batch goes on unanswered (`powClient.cpp:131`) |
| `MCAcceptCrossed` (ServerAccept) | `OwnTurnAlways` | a client whose data connection was reset by a stop goes on to the pow port of the next server and is paired with another's data connection (`ssl.cpp:108`) |
| `MCAcceptStuck` (ServerAccept) | `ServedAlways` | a client that dies between its two connections keeps all others out (`ServerMain.cpp:79`) |

Further ones are in the conditions of properties:

* `CountersMatch` and `KeysRight` (KeyGenCTR): a login that cuts through a batch (`km_enclave.cpp:136`),
  a nonce that the enclave keeps although the client has drawn another (`km_enclave.cpp:185`), a reply
  from the buffer that an old key accepts (`keyServer.cpp:431`);
* `PreparedRight`: masks that outlive what they were prepared for, also since a thread whose send
  fails does not call for new ones (`keyServer.cpp:445`), and a reply that reads beyond the region
  (`km_enclave.cpp:404`);
* `LoginEnds`: a login under an old key is repeated for ever (`keyClient.cpp:184`);
* `OneClientATurn` and `Served` (ServerAccept): an `accept` that fails (`ssl.cpp:119`);
* `Joins` and `LivesLonger` (UploadPipeline), and `Renewed` (KeyRegression: a client that is lost
  while it logs in is counted for ever).

## 14. Checking

`tlc -config MCStoreSerial.cfg MCContainerStore`, and likewise for the others: `MCStore*` with
`MCContainerStore`, `MCUploadPipeline` with its module, the other `MCUpload*` with
`MCUploadSession`, `MCRestore*` with `MCRestore`, `MCKeyGenCFB` and `MCKeyCFBContent` with
`MCKeyGenCFB`, `MCKeyGenCTR` with `KeyGenCTR`, the other `MCKey*` with `KeyRegression`, `MCChunker*`
with `MCChunker`, `MCPow*` with `MCPowSession`, `MCServerAccept`, `MCAcceptCrossed` and `MCAcceptStuck`
with `ServerAccept`. `tlapm ContainerStoreProofs.tla`, and likewise the other `*Proofs.tla`.

Where the behaviours of a module end, as those of a session or of a process do, the configuration
turns the search for deadlocks off; what may end early is a question for the liveness property,
where the run has one.

Operators whose comment says "mutant of" are plausible bugs; each property is violated when its
mutant takes the place of the definition, as listed in `PROJECT.json`.
