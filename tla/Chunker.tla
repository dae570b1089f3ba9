-------------------------------- MODULE Chunker --------------------------------
(***************************************************************************)
(* EqualSizeChunker.Chunk (rag/rag_indexing_impl.go:77-111): the text of a *)
(* file, split into words by strings.Fields, becomes chunks of ChunkSize   *)
(* words joined by single spaces, each with a byte range that is meant to  *)
(* find the chunk in the file again.                                       *)
(*                                                                         *)
(* Letters are left out.  A text is the positions of its words: word w     *)
(* lies at the bytes from[w] up to, not including, to[w] of a file of      *)
(* `size' bytes; all other bytes are white space.  The loop is a state     *)
(* machine with one step per joined word and one per chunk.                *)
(***************************************************************************)
EXTENDS Integers, Sequences

CONSTANTS Texts,     \* the files
          ChunkSize  \* words in a chunk: 512 in service.go:65

\* Words are not empty, and separated by at least one byte.
WellFormed(t) ==
  /\ t.from \in Seq(Nat) /\ t.to \in Seq(Nat) /\ t.size \in Nat
  /\ Len(t.to) = Len(t.from)
  /\ \A w \in 1..Len(t.from) : t.from[w] < t.to[w] /\ t.to[w] <= t.size
  /\ \A w \in 2..Len(t.from) : t.to[w - 1] < t.from[w]

ASSUME ChunkerAssumption ==
  /\ ChunkSize \in Nat \ {0}
  /\ \A t \in Texts : WellFormed(t)

VARIABLES
  text,    \* the file, as strings.Fields sees it
  i,       \* the words before the current chunk
  taken,   \* the words joined into chunkText so far
  joined,  \* len(chunkText) so far
  byteIdx, \* where the next chunk is taken to begin
  chunks   \* the chunks made: first and last word, StartByte, EndByte

chunkVars == <<text, i, taken, joined, byteIdx, chunks>>

Words == Len(text.from)
Width(w) == text.to[w] - text.from[w]

Chunk == [first : Nat, last : Nat, start : Nat, end : Nat]

ChunkTypeOK ==
  /\ text \in Texts
  /\ i \in Nat /\ taken \in 0..ChunkSize
  /\ joined \in Nat /\ byteIdx \in Nat
  /\ chunks \in Seq(Chunk)

ChunkInit ==
  /\ text \in Texts
  /\ i = 0 /\ taken = 0 /\ joined = 0 /\ byteIdx = 0
  /\ chunks = <<>>

\* strings.Join(wordsArr[i:end], " "), one word.
JoinWord ==
  /\ taken < ChunkSize
  /\ i + taken < Words
  /\ joined' = joined + Width(i + taken + 1) + (IF taken = 0 THEN 0 ELSE 1)
  /\ taken' = taken + 1
  /\ UNCHANGED <<text, i, byteIdx, chunks>>

\* Mutant: the range begins with the space before the chunk.
CurrentWithSpace == [first |-> i + 1, last |-> i + taken,
                     start |-> byteIdx - 1, end |-> byteIdx + joined]

Current == [first |-> i + 1, last |-> i + taken,
            start |-> byteIdx, end |-> byteIdx + joined]

\* Mutant: the byte for the space between two chunks is forgotten.
EmitChunkTight ==
  /\ taken > 0
  /\ taken = ChunkSize \/ i + taken = Words
  /\ chunks' = Append(chunks, Current)
  /\ byteIdx' = byteIdx + joined
  /\ i' = i + ChunkSize
  /\ taken' = 0 /\ joined' = 0
  /\ UNCHANGED text

\* Mutant: one word is left out between two chunks.
EmitChunkSkips ==
  /\ taken > 0
  /\ taken = ChunkSize \/ i + taken = Words
  /\ chunks' = Append(chunks, Current)
  /\ byteIdx' = byteIdx + joined + 1
  /\ i' = i + ChunkSize + 1
  /\ taken' = 0 /\ joined' = 0
  /\ UNCHANGED text

\* The end of the loop body: the chunk is appended.
EmitChunk ==
  /\ taken > 0
  /\ taken = ChunkSize \/ i + taken = Words
  /\ chunks' = Append(chunks, Current)
  /\ byteIdx' = byteIdx + joined + 1
  /\ i' = i + ChunkSize
  /\ taken' = 0 /\ joined' = 0
  /\ UNCHANGED text

\* The loop is over: i >= len(wordsArr).
Chunked == i >= Words

ChunkNext == JoinWord \/ EmitChunk

ChunkSpec == ChunkInit /\ [][ChunkNext]_chunkVars

-------------------------------------------------------------------------------
(* Properties.                                                             *)

(***************************************************************************)
(* No range leaves the file, so the check of service.go:547 never fires,   *)
(* and no range runs ahead of its words: white space beyond one byte can   *)
(* only make the recorded range too early.                                 *)
(***************************************************************************)
RangesInFile ==
  \A c \in 1..Len(chunks) :
    LET k == chunks[c]
    IN  /\ k.start <= k.end
        /\ k.start <= text.from[k.first] /\ k.end <= text.to[k.last]
        /\ k.end <= text.size

(***************************************************************************)
(* The chunks are the words of the text in order, each word in one of      *)
(* them, ChunkSize words in each but the last (rag_indexing_impl.go:87-93),*)
(* and none is left out when the loop ends.                                *)
(***************************************************************************)
WordsPartitioned ==
  /\ \A c \in 1..Len(chunks) :
       /\ chunks[c].first = (c - 1) * ChunkSize + 1
       /\ \/ chunks[c].last = c * ChunkSize
          \/ c = Len(chunks) /\ chunks[c].last = Words /\ Words < c * ChunkSize
       /\ chunks[c].first <= chunks[c].last /\ chunks[c].last <= Words
  /\ Chunked => Words <= Len(chunks) * ChunkSize

\* White space up to word w is none at the front and one byte between words.
Normal(w) ==
  \A v \in 1..w : text.from[v] = IF v = 1 THEN 0 ELSE text.to[v - 1] + 1

\* The recorded range is where the chunk's words are.
Exact(k) == k.start = text.from[k.first] /\ k.end = text.to[k.last]

(***************************************************************************)
(* A recorded range is right exactly if the file has no superfluous white  *)
(* space (an indentation, a blank line, two spaces, CR LF, a space of more *)
(* than one byte) before the chunk's end.  rag.go:24 says of StartByte     *)
(* "for tracking chunk position", and service.go:550 takes the text of a   *)
(* chunk from there: of any other file it takes other bytes.               *)
(***************************************************************************)
ExactIfNormalised ==
  \A c \in 1..Len(chunks) : Exact(chunks[c]) <=> Normal(chunks[c].last)
===============================================================================
