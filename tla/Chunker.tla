------------------------------ MODULE Chunker ------------------------------
(***************************************************************************)
(* The client's chunker (chunker.cpp): it reads the file in blocks and     *)
(* cuts it into chunks for the fingerprinter, of a fixed size or where a   *)
(* rolling hash of the last bytes says so, or it makes chunks up from the  *)
(* lines of a trace.  A byte is a number below 2^8 in the code; the sizes  *)
(* of the hash's integers are parameters.  A job is a kind of chunker, the *)
(* size of its blocks and the file it cuts.                                *)
(***************************************************************************)
EXTENDS Integers, Sequences, SequencesExt, FiniteSets

CONSTANTS
    MinChunk, AvgChunk, MaxChunk, WinSize,   \* the configured sizes
    Bytes,            \* the values of a byte
    PolyBase,         \* polyBase_, 257
    PolySize,         \* polyMOD_ + 1, 2^23
    FpSize,           \* 2^16: winFp is a uint16_t
    Unit,             \* bytes of a fingerprint in a trace: 6 (FSL) or 5 (UBC)
    Jobs              \* [type, read, file]: type is "fix", "var" or "trace" (FSL and UBC,
                      \* which differ in Unit); a file is of bytes or of trace lines

\* a line of a trace: a chunk's fingerprint, None in a line of fewer fields, the chunk's size,
\* and whether a newline ends the line; only the last line may have none
None == << >>
Line == [fp : [1 .. Unit -> Nat] \union {None}, size : Nat, ends : BOOLEAN]
Trace == {t \in Seq(Line) : \A i \in 1 .. Len(t) - 1 : t[i].ends}

ASSUME ChunkerAssumption ==
    /\ MinChunk \in Nat /\ AvgChunk \in Nat \ {0, 1} /\ MaxChunk \in Nat
    /\ WinSize \in Nat \ {0} /\ Unit \in Nat \ {0}
    /\ Bytes \subseteq Nat /\ PolyBase \in Nat /\ FpSize \in Nat \ {0}
    /\ PolySize \in Nat \ {0} /\ PolySize % FpSize = 0
    /\ \A j \in Jobs :
          /\ j.type \in {"fix", "var", "trace"} /\ j.read \in Nat \ {0}
          /\ IF j.type = "trace" THEN j.file \in Trace ELSE j.file \in Seq(Bytes)

VARIABLES
    job,        \* what is cut, and how: it does not change
    pc,         \* "init", "read", "cut", "recipe", "end", "exit" or "crash"
    position,   \* of the stream: bytes or lines read
    block,      \* waitingForChunkingBuffer_, as far as it was read
    next,       \* chunkedSize, or i: the place in the block
    buffer,     \* chunkBuffer_ up to chunkBufferCnt
    winFp,
    rest,       \* retSize of fixSizeChunking
    chunks,     \* what the fingerprinter has been given
    fileSize,
    recipe      \* fileRecipe_ as it was given to the fingerprinter

file == job.file
ChunkingType == job.type
ReadSize == job.read

stream == <<job, position, fileSize>>
cutter == <<next, buffer, winFp, rest>>
vars == <<pc, block, chunks, recipe, stream, cutter>>

NoRecipe == [number |-> 0, size |-> 0]

Least(m, n) == IF m < n THEN m ELSE n

-----------------------------------------------------------------------------
(* ChunkerInit *)

ChunkerInit ==
    /\ pc = "init"
    /\ pc' = IF ChunkingType = "var" /\ (MinChunk >= AvgChunk \/ MaxChunk <= AvgChunk)
             THEN "exit" ELSE "read"
    /\ position' = IF ChunkingType = "trace" THEN Least(1, Len(file)) ELSE 0    \* the first line is skipped
    /\ UNCHANGED <<job, fileSize, block, chunks, recipe, cutter>>

\* powerLUT_ and removeLUT_
PowerLUT[i \in 0 .. WinSize - 1] ==
    IF i = 0 THEN 1 ELSE (PowerLUT[i - 1] * PolyBase) % PolySize
RemoveLUT(b) == (PolySize - ((b * PowerLUT[WinSize - 1]) % PolySize)) % PolySize

\* 2 to the number of mask bits: the power of two at or below the average chunk size
AnchorSize == CHOOSE p \in {2 ^ k : k \in 1 .. AvgChunk} : p <= AvgChunk /\ AvgChunk < 2 * p

-----------------------------------------------------------------------------
(* Reading *)

\* a file that ends at the end of a full block is seen to end by one more read, of nothing
AtEof == Len(block) < ReadSize

\* the chunk carried over keeps its length: memset clears its bytes
Cleared(s) == [i \in 1 .. Len(s) |-> 0]

ReadBlock ==
    /\ pc = "read" /\ ChunkingType # "trace"
    /\ LET size == Least(ReadSize, Len(file) - position)
       IN  /\ block' = SubSeq(file, position + 1, position + size)
           /\ position' = position + size
           /\ fileSize' = fileSize + size
    /\ next' = 0 /\ rest' = 0
    /\ buffer' = Cleared(buffer)
    /\ pc' = "cut"
    /\ UNCHANGED <<job, chunks, recipe, winFp>>

BlockOver == IF AtEof THEN "recipe" ELSE "read"

-----------------------------------------------------------------------------
(* Fixed size *)

\* the bytes from a place in the block on, zeros beyond what was read
FromBlock(from, size) ==
    [i \in 1 .. size |-> IF from + i <= Len(block) THEN block[from + i] ELSE 0]

\* a block that is not full: the size of a chunk is what was left before the last one
PartSize == IF rest > AvgChunk THEN AvgChunk ELSE rest

FixChunk ==
    /\ pc = "cut" /\ ChunkingType = "fix" /\ next < Len(block)
    /\ chunks' = Append(chunks, FromBlock(next, IF AtEof THEN PartSize ELSE AvgChunk))
    /\ rest' = Len(block) - next
    /\ next' = next + AvgChunk
    /\ UNCHANGED <<pc, block, recipe, stream, buffer, winFp>>

FixOver ==
    /\ pc = "cut" /\ ChunkingType = "fix" /\ next >= Len(block)
    /\ pc' = BlockOver
    /\ UNCHANGED <<block, chunks, recipe, stream, cutter>>

-----------------------------------------------------------------------------
(* Variable size *)

\* mutant: the wrong byte leaves the window
RolledLate(b) ==
    ((winFp + RemoveLUT(buffer[Len(buffer) + 2 - WinSize])) * PolyBase + b) % FpSize

\* the window's hash with the next byte: filled first, then rolled
Filled(b) == (winFp + b * PowerLUT[WinSize - Len(buffer) - 1]) % FpSize
Rolled(b) ==
    ((winFp + RemoveLUT(buffer[Len(buffer) + 1 - WinSize])) * PolyBase + b) % FpSize

\* mutant: one byte too late
EndsChunkLate(size, fp) == size >= MinChunk /\ (fp % AnchorSize = 0 \/ size > MaxChunk)

\* whether the chunk ends with its size-th byte, when the window has hash fp
EndsChunk(size, fp) == size >= MinChunk /\ (fp % AnchorSize = 0 \/ size >= MaxChunk)

VarByte ==
    /\ pc = "cut" /\ ChunkingType = "var" /\ next < Len(block)
    /\ LET b == block[next + 1]
           filling == Len(buffer) < WinSize
           fp == IF filling THEN Filled(b) ELSE Rolled(b)
           chunk == Append(buffer, b)
       IN  IF ~filling /\ EndsChunk(Len(chunk), fp)
           THEN chunks' = Append(chunks, chunk) /\ buffer' = << >> /\ winFp' = 0
           ELSE buffer' = chunk /\ winFp' = fp /\ UNCHANGED chunks
    /\ next' = next + 1
    /\ UNCHANGED <<pc, block, recipe, stream, rest>>

\* mutant: what is left at the end is not a chunk
VarOverLeft ==
    /\ pc = "cut" /\ ChunkingType = "var" /\ next = Len(block)
    /\ pc' = BlockOver
    /\ UNCHANGED <<block, chunks, recipe, stream, cutter>>

\* the block is over; at the end of the file what is left becomes the final chunk
VarOver ==
    /\ pc = "cut" /\ ChunkingType = "var" /\ next = Len(block)
    /\ pc' = BlockOver
    /\ IF AtEof /\ buffer # << >>
       THEN chunks' = Append(chunks, buffer) /\ buffer' = << >> /\ winFp' = 0
       ELSE UNCHANGED <<chunks, buffer, winFp>>
    /\ UNCHANGED <<block, recipe, stream, next, rest>>

-----------------------------------------------------------------------------
(* Traces *)

Fill(fp, size) == [i \in 1 .. size |-> fp[((i - 1) % Unit) + 1]]

\* getline met the end of the file, at once or behind a last line without a newline
TraceOver ==
    /\ pc = "read" /\ ChunkingType = "trace"
    /\ position < Len(file) => ~file[position + 1].ends
    /\ pc' = "recipe"
    /\ UNCHANGED <<block, chunks, recipe, stream, cutter>>

\* atoi of the item that is missing
TraceCrash ==
    /\ pc = "read" /\ ChunkingType = "trace" /\ position < Len(file)
    /\ file[position + 1].ends /\ file[position + 1].fp = None
    /\ pc' = "crash"
    /\ UNCHANGED <<block, chunks, recipe, stream, cutter>>

\* mutant: a chunk of the largest size is left out
TraceLineShort ==
    /\ pc = "read" /\ ChunkingType = "trace" /\ position < Len(file)
    /\ LET line == file[position + 1]
       IN  /\ line.ends /\ line.fp # None
           /\ IF line.size >= MaxChunk THEN UNCHANGED <<chunks, fileSize>>
              ELSE /\ chunks' = Append(chunks, Fill(line.fp, line.size))
                   /\ fileSize' = fileSize + line.size
    /\ position' = position + 1
    /\ UNCHANGED <<job, pc, block, recipe, cutter>>

\* a chunk that is too large is left out, from the file's size too
TraceLine ==
    /\ pc = "read" /\ ChunkingType = "trace" /\ position < Len(file)
    /\ LET line == file[position + 1]
       IN  /\ line.ends /\ line.fp # None
           /\ IF line.size > MaxChunk THEN UNCHANGED <<chunks, fileSize>>
              ELSE /\ chunks' = Append(chunks, Fill(line.fp, line.size))
                   /\ fileSize' = fileSize + line.size
    /\ position' = position + 1
    /\ UNCHANGED <<job, pc, block, recipe, cutter>>

TraceStep == TraceOver \/ TraceCrash \/ TraceLine

-----------------------------------------------------------------------------
(* The recipe is given behind the chunks, and the fingerprinter is told *)
GiveRecipe ==
    /\ pc = "recipe"
    /\ recipe' = [number |-> Len(chunks), size |-> fileSize]
    /\ pc' = "end"
    /\ UNCHANGED <<block, chunks, stream, cutter>>

Init ==
    /\ job \in Jobs /\ pc = "init" /\ position = 0 /\ fileSize = 0
    /\ block = << >> /\ next = 0 /\ buffer = << >> /\ winFp = 0 /\ rest = 0
    /\ chunks = << >> /\ recipe = NoRecipe

Next ==
    \/ ChunkerInit \/ ReadBlock \/ FixChunk \/ FixOver \/ VarByte \/ VarOver
    \/ TraceStep \/ GiveRecipe

Spec == Init /\ [][Next]_vars

-----------------------------------------------------------------------------
(* Properties *)

TypeOK ==
    /\ job \in Jobs
    /\ pc \in {"init", "read", "cut", "recipe", "end", "exit", "crash"}
    /\ position \in 0 .. Len(file) /\ fileSize \in Nat /\ next \in Nat /\ rest \in Nat
    /\ winFp \in 0 .. FpSize - 1
    /\ Len(block) <= ReadSize /\ recipe.number \in Nat /\ recipe.size \in Nat

(* chunkBuffer_, which has MaxChunk bytes, always has room for the next byte, whatever the blocks
   of the file: a chunk is cut at MaxChunk, also one carried over from one block to the next. *)
WithinBuffer == Len(buffer) < MaxChunk

\* what is carried from one block of the file to the next is lost: content and the place of a cut
\* are only what they should be in a file of one block, or cut at a size that the blocks are
\* made of
OneBlock == ChunkingType = "var" /\ Len(file) < ReadSize
WholeBlocks == ChunkingType = "fix" /\ Len(file) % ReadSize = 0 /\ ReadSize % AvgChunk = 0

(* The chunks, one behind the other, are the file, and the totals of the recipe, by which the
   server cuts the restored file into batches and the client knows its end, are theirs: of a
   file of one block cut by its content, or of whole blocks cut at a size that divides them.
   The type invariant is part of it. *)
WholeFile ==
    /\ TypeOK
    /\ pc = "end" /\ (OneBlock \/ WholeBlocks) =>
          /\ FlattenSeq(chunks) = file
          /\ recipe.number = Len(chunks) /\ recipe.size = Len(file)

(* The same of every file, which the code does not meet (README, divergences): a block that is
   not full is cut at what was left before the last chunk, and what is carried to the next
   block is cleared. *)
EveryFile ==
    pc = "end" /\ ChunkingType # "trace" => FlattenSeq(chunks) = file

\* the hash of a window as a polynomial, most significant byte first
Polynomial(w) ==
    LET h[i \in 0 .. Len(w)] == IF i = 0 THEN 0 ELSE (h[i - 1] * PolyBase + w[i]) % FpSize
    IN  h[Len(w)]

\* where the chunk that begins with byte p of the file ends by its content
CutPoints(p) == {n \in 1 .. Len(file) - p + 1 :
    /\ n > WinSize /\ n >= MinChunk
    /\ \/ n = MaxChunk
       \/ Polynomial(SubSeq(file, p + n - WinSize, p + n - 1)) % AnchorSize = 0}

Starts == [i \in 1 .. Len(chunks) |-> 1 + Len(FlattenSeq(SubSeq(chunks, 1, i - 1)))]

(* A chunk of a file of one block ends at the first place where the hash of the window before it,
   computed afresh, says so, or at the largest size: the rolled 16-bit hash with its tables is
   that polynomial, and where a chunk ends depends on nothing before the chunk. *)
CutByContent ==
    OneBlock =>
    \A i \in 1 .. Len(chunks) :
        LET p == Starts[i]
            n == Len(chunks[i])
        IN  /\ \A m \in 1 .. n - 1 : m \notin CutPoints(p)
            /\ n \in CutPoints(p) \/ p + n - 1 = Len(file)

KeptLines == {p \in 2 .. Len(file) : file[p].ends /\ file[p].size <= MaxChunk}
KeptUpTo(p) == {q \in KeptLines : q <= p}

(* The chunks of a trace are its lines that are not too large, in their order, without the first
   and without a last one that no newline ends, and the totals of the recipe are theirs. *)
TraceChunks ==
    pc = "end" /\ ChunkingType = "trace" =>
        /\ Len(chunks) = Cardinality(KeptLines)
        /\ \A p \in KeptLines :
              chunks[Cardinality(KeptUpTo(p))] = Fill(file[p].fp, file[p].size)
        /\ recipe.number = Len(chunks) /\ recipe.size = Len(FlattenSeq(chunks))
=============================================================================
