----------------------------- MODULE MCChunker -----------------------------
(* Instances of Chunker: all files up to a length in blocks of several sizes, and traces. *)
EXTENDS Chunker

CONSTANTS VarLen, FixLen, TraceLen, VarReads, FixReads

Files(b, len) == UNION {[1 .. n -> b] : n \in 0 .. len}

\* traces of a heading and lines, all ended by newlines or the last one not
LineOf(fp, size, ends) == [fp |-> fp, size |-> size, ends |-> ends]
Heading == LineOf(None, 0, TRUE)
MCLines == {LineOf(<<1, 2>>, size, TRUE) : size \in {0, MinChunk, MaxChunk, MaxChunk + 1}}
          \union {LineOf(<<3, 4>>, AvgChunk, TRUE), Heading}
MCEnds == {<< >>, <<LineOf(<<1, 2>>, 2, FALSE)>>}
MCTraces == {<<Heading>> \o t \o e : t \in Files(MCLines, TraceLen), e \in MCEnds}
            \union {<< >>}

MCJobs ==
    [type : {"var"}, read : VarReads, file : Files(Bytes, VarLen)]
    \union [type : {"fix"}, read : FixReads, file : Files({0, 1}, FixLen)]
    \union [type : {"trace"}, read : {1}, file : MCTraces]
=============================================================================
