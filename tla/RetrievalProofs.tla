---------------------------- MODULE RetrievalProofs ----------------------------
(***************************************************************************)
(* Proofs about Chunker and Retrieval: where the byte ranges lie, when     *)
(* they are right, and what a search may return, for files of any length   *)
(* and chunks of any size.                                                 *)
(***************************************************************************)
EXTENDS Retrieval, FiniteSetTheorems, TLAPS

-------------------------------------------------------------------------------
(* The chunker.  The argument compares byteIdx with the place the words    *)
(* would have if all white space were one byte: they are equal as long as  *)
(* the text is normal, and byteIdx is behind for good once it is not.      *)

\* A factor more or less.
LEMMA Times ==
  ASSUME NEW n \in Nat, NEW k \in Nat
  PROVE  n * k \in Nat /\ (n + 1) * k = n * k + k /\ ((n + 1) - 1) * k = n * k
OBVIOUS

\* A longer sequence leaves less room.
LEMMA TimesMonotone ==
  ASSUME NEW k \in Nat, NEW a \in Nat, NEW b \in Nat, a <= b
  PROVE  a * k <= b * k
OBVIOUS

\* What a text guarantees of its words.
LEMMA WordsLieApart ==
  ASSUME text \in Texts
  PROVE  /\ Words \in Nat /\ text.size \in Nat
         /\ \A w \in 1..Words :
              /\ text.from[w] \in Nat /\ text.to[w] \in Nat
              /\ text.from[w] < text.to[w] /\ text.to[w] <= text.size
              /\ w > 1 => /\ text.to[w - 1] \in Nat
                          /\ text.to[w - 1] < text.from[w]
<1>1. WellFormed(text)
  BY ChunkerAssumption
<1>2. /\ text.from \in Seq(Nat) /\ text.to \in Seq(Nat) /\ text.size \in Nat
      /\ Len(text.to) = Len(text.from)
  BY <1>1 DEF WellFormed
<1>3. Words \in Nat
  BY <1>2 DEF Words
<1>4. ASSUME NEW w \in 1..Words
      PROVE  /\ text.from[w] \in Nat /\ text.to[w] \in Nat
             /\ text.from[w] < text.to[w] /\ text.to[w] <= text.size
  BY <1>1, <1>2, <1>4 DEF WellFormed, Words
<1>5. ASSUME NEW w \in 1..Words, w > 1
      PROVE  text.to[w - 1] \in Nat /\ text.to[w - 1] < text.from[w]
  <2>1. w \in 2..Words /\ w - 1 \in 1..Words
    BY <1>3, <1>5
  <2>2. text.to[w - 1] < text.from[w]
    BY <1>1, <2>1 DEF WellFormed, Words
  <2> QED BY <1>4, <2>1, <2>2
<1> QED BY <1>2, <1>3, <1>4, <1>5

\* Normality of a prefix, one word at a time.
LEMMA NormalGrows ==
  ASSUME text \in Texts, NEW w \in 1..Words
  PROVE  Normal(w) <=> /\ w > 1 => Normal(w - 1)
                       /\ text.from[w] = IF w = 1 THEN 0 ELSE text.to[w - 1] + 1
<1>1. Words \in Nat
  BY WordsLieApart
<1>2. 1..w = (1..(w - 1)) \union {w}
  BY <1>1
<1>3. w = 1 => 1..(w - 1) = {}
  BY <1>1
<1> QED BY <1>1, <1>2, <1>3 DEF Normal

\* A prefix of a normal prefix is normal.
LEMMA NormalShrinks ==
  ASSUME NEW v \in Nat, NEW w \in Nat, v <= w, Normal(w)
  PROVE  Normal(v)
BY DEF Normal

\* The words before the current chunk, and those taken into it.
Progress ==
  /\ taken > 0 => i + taken <= Words
  /\ taken = 0 => joined = 0
  /\ i = Len(chunks) * ChunkSize

\* byteIdx against the word before the chunk.
Behind ==
  IF i = 0 THEN byteIdx = 0
  ELSE i <= Words => /\ byteIdx <= text.to[i] + 1
                     /\ byteIdx = text.to[i] + 1 <=> Normal(i)

\* The end of chunkText against the last word taken.
EndBehind ==
  taken > 0 => /\ byteIdx + joined <= text.to[i + taken]
               /\ byteIdx + joined = text.to[i + taken] <=> Normal(i + taken)

ChunkInv ==
  /\ ChunkTypeOK /\ Progress /\ Behind /\ EndBehind
  /\ RangesInFile /\ WordsPartitioned /\ ExactIfNormalised

\* byteIdx against the first word of the chunk.
LEMMA StartBehind ==
  ASSUME ChunkTypeOK, Behind, i < Words
  PROVE  /\ byteIdx <= text.from[i + 1]
         /\ byteIdx = text.from[i + 1] <=> Normal(i + 1)
<1>1. /\ text \in Texts /\ i \in Nat /\ byteIdx \in Nat
      /\ Words \in Nat /\ i + 1 \in 1..Words
  BY WordsLieApart DEF ChunkTypeOK
<1>2. text.from[i + 1] \in Nat
  BY <1>1, WordsLieApart
<1>3. CASE i = 0
  BY <1>1, <1>2, <1>3, NormalGrows DEF Behind
<1>4. CASE i # 0
  <2>1. i + 1 > 1 /\ i + 1 # 1 /\ (i + 1) - 1 = i
    BY <1>1, <1>4
  <2>2. text.to[i] \in Nat /\ text.to[i] < text.from[i + 1]
    BY <1>1, <2>1, WordsLieApart
  <2>3. Normal(i + 1) <=> Normal(i) /\ text.from[i + 1] = text.to[i] + 1
    BY <1>1, <2>1, NormalGrows
  <2>4. byteIdx <= text.to[i] + 1 /\ (byteIdx = text.to[i] + 1 <=> Normal(i))
    BY <1>1, <1>4 DEF Behind
  <2> QED BY <1>1, <1>2, <2>2, <2>3, <2>4
<1> QED BY <1>3, <1>4

\* Nothing is chunked, and no word taken.
LEMMA ChunkInitInv == ChunkInit => ChunkInv
<1> SUFFICES ASSUME ChunkInit PROVE ChunkInv
  OBVIOUS
<1>1. text \in Texts /\ Words \in Nat /\ ChunkSize \in Nat \ {0}
  BY WordsLieApart, ChunkerAssumption DEF ChunkInit
<1>2. ChunkTypeOK
  BY <1>1 DEF ChunkInit, ChunkTypeOK
<1>3. Len(chunks) = 0 /\ 1..Len(chunks) = {} /\ i = 0 /\ byteIdx = 0 /\ taken = 0 /\ joined = 0
  BY DEF ChunkInit
<1>4. Progress /\ Behind /\ EndBehind
  BY <1>1, <1>3 DEF Progress, Behind, EndBehind
<1>5. RangesInFile /\ WordsPartitioned /\ ExactIfNormalised
  BY <1>1, <1>3 DEF RangesInFile, WordsPartitioned, ExactIfNormalised, Chunked
<1> QED BY <1>2, <1>4, <1>5 DEF ChunkInv

\* One more word: its end is as far behind as its start, which is normal
\* exactly if the space before it is one byte.
LEMMA JoinWordInv == ChunkInv /\ JoinWord => ChunkInv'
<1> SUFFICES ASSUME ChunkInv, JoinWord PROVE ChunkInv'
  OBVIOUS
<1> DEFINE w == i + taken + 1
<1>1. /\ text \in Texts /\ i \in Nat /\ taken \in Nat /\ byteIdx \in Nat
      /\ joined \in Nat /\ Words \in Nat /\ ChunkSize \in Nat /\ w \in 1..Words
      /\ taken < ChunkSize /\ i + taken < Words
  BY WordsLieApart, ChunkerAssumption DEF ChunkInv, ChunkTypeOK, JoinWord
<1>2. /\ text.from[w] \in Nat /\ text.to[w] \in Nat /\ text.from[w] < text.to[w]
      /\ Width(w) = text.to[w] - text.from[w]
  BY <1>1, WordsLieApart DEF Width
<1>3. /\ joined' = joined + Width(w) + (IF taken = 0 THEN 0 ELSE 1)
      /\ taken' = taken + 1
      /\ UNCHANGED <<text, i, byteIdx, chunks, Words>>
  BY DEF JoinWord, Words
<1>4. ChunkTypeOK'
  <2>1. joined' \in Nat
    BY <1>1, <1>2, <1>3
  <2> QED BY <1>1, <1>3, <2>1 DEF ChunkInv, ChunkTypeOK, Chunk
<1>5. Progress'
  BY <1>1, <1>3 DEF ChunkInv, Progress
<1>6. Behind'
  BY <1>3 DEF ChunkInv, Behind, Normal
<1>7. /\ byteIdx + joined' <= text.to[w]
      /\ byteIdx + joined' = text.to[w] <=> Normal(w)
  <2>1. CASE taken = 0
    <3>1. w = i + 1 /\ i < Words /\ joined = 0
      BY <1>1, <2>1 DEF ChunkInv, Progress
    <3>2. byteIdx <= text.from[w] /\ (byteIdx = text.from[w] <=> Normal(w))
      BY <3>1, StartBehind DEF ChunkInv
    <3>3. joined' = text.to[w] - text.from[w]
      BY <1>1, <1>2, <1>3, <2>1, <3>1
    <3> QED BY <1>1, <1>2, <3>2, <3>3
  <2>2. CASE taken # 0
    <3>1. w > 1 /\ w # 1 /\ w - 1 = i + taken /\ taken > 0
      BY <1>1, <2>2
    <3>2. /\ text.to[i + taken] \in Nat /\ text.to[i + taken] < text.from[w]
      BY <1>1, <3>1, WordsLieApart
    <3>3. Normal(w) <=> Normal(i + taken) /\ text.from[w] = text.to[i + taken] + 1
      BY <1>1, <3>1, NormalGrows
    <3>4. /\ byteIdx + joined <= text.to[i + taken]
          /\ byteIdx + joined = text.to[i + taken] <=> Normal(i + taken)
      BY <3>1 DEF ChunkInv, EndBehind
    <3>5. joined' = joined + (text.to[w] - text.from[w]) + 1
      BY <1>1, <1>2, <1>3, <2>2
    <3> QED BY <1>1, <1>2, <3>2, <3>3, <3>4, <3>5
  <2> QED BY <2>1, <2>2
<1>8. EndBehind'
  <2>1. i' + taken' = w /\ byteIdx' = byteIdx
    BY <1>1, <1>3
  <2> HIDE DEF w
  <2>2. text' = text
    BY <1>3
  <2> QED BY <1>7, <2>1, <2>2 DEF EndBehind, Normal
<1>9. (RangesInFile /\ WordsPartitioned /\ ExactIfNormalised)'
  <2>1. RangesInFile'
    BY <1>3 DEF ChunkInv, RangesInFile
  <2>2. WordsPartitioned'
    BY <1>3 DEF ChunkInv, WordsPartitioned, Chunked
  <2>3. ExactIfNormalised'
    BY <1>3 DEF ChunkInv, ExactIfNormalised, Exact, Normal
  <2> QED BY <2>1, <2>2, <2>3
<1> QED BY <1>4, <1>5, <1>6, <1>8, <1>9 DEF ChunkInv
-------------------------------------------------------------------------------
\* A chunk is complete: it is the next one, its range ends where its last word
\* was taken to end, and byteIdx is one byte further.
LEMMA EmitChunkInv == ChunkInv /\ EmitChunk => ChunkInv'
<1> SUFFICES ASSUME ChunkInv, EmitChunk PROVE ChunkInv'
  OBVIOUS
<1> DEFINE n == Len(chunks)
           last == i + taken
<1>1. /\ text \in Texts /\ i \in Nat /\ taken \in Nat /\ byteIdx \in Nat
      /\ joined \in Nat /\ Words \in Nat /\ ChunkSize \in Nat \ {0}
      /\ taken > 0 /\ taken <= ChunkSize /\ last <= Words
      /\ taken = ChunkSize \/ last = Words
      /\ i = n * ChunkSize /\ n \in Nat /\ chunks \in Seq(Chunk)
  BY WordsLieApart, ChunkerAssumption
  DEF ChunkInv, ChunkTypeOK, EmitChunk, Progress
<1>2. /\ i + 1 \in 1..Words /\ last \in 1..Words
      /\ text.from[i + 1] \in Nat /\ text.to[last] \in Nat
      /\ text.to[last] <= text.size /\ text.size \in Nat
  BY <1>1, WordsLieApart
<1>3. /\ Current.first = i + 1 /\ Current.last = last
      /\ Current.start = byteIdx /\ Current.end = byteIdx + joined
      /\ Current \in Chunk
  BY <1>1 DEF Current, Chunk
<1>4. /\ chunks' = Append(chunks, Current) /\ byteIdx' = byteIdx + joined + 1
      /\ i' = i + ChunkSize /\ taken' = 0 /\ joined' = 0
      /\ text' = text /\ Words' = Words
  BY DEF EmitChunk, Words
<1>5. /\ chunks' \in Seq(Chunk) /\ Len(chunks') = n + 1
      /\ \A c \in 1..n : chunks'[c] = chunks[c]
      /\ chunks'[n + 1] = Current
  BY <1>1, <1>3, <1>4
<1> HIDE DEF n, last
<1>6. /\ byteIdx <= text.from[i + 1]
      /\ byteIdx = text.from[i + 1] <=> Normal(i + 1)
  <2>1. i < Words
    BY <1>1 DEF last
  <2> QED BY <2>1, StartBehind DEF ChunkInv
<1>7. /\ byteIdx + joined <= text.to[last]
      /\ byteIdx + joined = text.to[last] <=> Normal(last)
  BY <1>1 DEF ChunkInv, EndBehind, last
<1>8. ChunkTypeOK'
  BY <1>1, <1>4, <1>5 DEF ChunkInv, ChunkTypeOK
<1>9. Progress'
  <2>1. (n + 1) * ChunkSize = n * ChunkSize + ChunkSize
    BY <1>1, Times
  <2> QED BY <1>1, <1>4, <1>5, <2>1 DEF Progress
<1>10. Behind'
  <2>1. i' # 0
    BY <1>1, <1>4
  <2>2. ASSUME i' <= Words PROVE i' = last
    BY <1>1, <1>4, <2>2 DEF last
  <2>3. ASSUME i' <= Words
        PROVE  byteIdx' <= text.to[last] + 1 /\ (byteIdx' = text.to[last] + 1 <=> Normal(last))
    BY <1>1, <1>2, <1>4, <1>7
  <2> QED BY <1>4, <2>1, <2>2, <2>3 DEF Behind, Normal
<1>11. EndBehind'
  BY <1>4 DEF EndBehind
<1>12. RangesInFile'
  <2>1. ASSUME NEW c \in 1..(n + 1)
        PROVE  /\ chunks'[c].start <= chunks'[c].end
               /\ chunks'[c].start <= text.from[chunks'[c].first]
               /\ chunks'[c].end <= text.to[chunks'[c].last]
               /\ chunks'[c].end <= text.size
    <3>1. CASE c = n + 1
      BY <1>1, <1>2, <1>3, <1>5, <1>6, <1>7, <3>1
    <3>2. CASE c # n + 1
      <4>1. c \in 1..n
        BY <1>1, <3>2
      <4> QED BY <1>5, <4>1 DEF ChunkInv, RangesInFile, n
    <3> QED BY <3>1, <3>2
  <2> QED BY <1>4, <1>5, <2>1 DEF RangesInFile
<1>13. ExactIfNormalised'
  <2>1. ASSUME NEW c \in 1..(n + 1)
        PROVE  Exact(chunks'[c]) <=> Normal(chunks'[c].last)
    <3>1. CASE c = n + 1
      <4>1. Normal(last) => Normal(i + 1)
        <5>1. i + 1 <= last /\ i + 1 \in Nat /\ last \in Nat
          BY <1>1 DEF last
        <5> QED BY <5>1, NormalShrinks
      <4> QED BY <1>3, <1>5, <1>6, <1>7, <3>1, <4>1 DEF Exact
    <3>2. CASE c # n + 1
      <4>1. c \in 1..n
        BY <1>1, <3>2
      <4> QED BY <1>5, <4>1 DEF ChunkInv, ExactIfNormalised, n
    <3> QED BY <3>1, <3>2
  <2> QED BY <1>4, <1>5, <2>1 DEF ExactIfNormalised, Exact, Normal
<1>14. WordsPartitioned'
  <2>1. ASSUME NEW c \in 1..(n + 1)
        PROVE  /\ chunks'[c].first = (c - 1) * ChunkSize + 1
               /\ \/ chunks'[c].last = c * ChunkSize
                  \/ /\ c = n + 1 /\ chunks'[c].last = Words
                     /\ Words < c * ChunkSize
               /\ chunks'[c].first <= chunks'[c].last /\ chunks'[c].last <= Words
    <3>1. CASE c = n + 1
      <4>1. c * ChunkSize = i + ChunkSize /\ (c - 1) * ChunkSize = i
        BY <1>1, <3>1, Times
      <4>2. chunks'[c].first = i + 1 /\ chunks'[c].last = i + taken
        BY <1>3, <1>5, <3>1 DEF last
      <4>3. taken = ChunkSize \/ (i + taken = Words /\ Words < i + ChunkSize)
        BY <1>1 DEF last
      <4>4. i + 1 <= i + taken /\ i + taken <= Words
        BY <1>1 DEF last
      <4> DEFINE m == c * ChunkSize
                 l == (c - 1) * ChunkSize
      <4>5. m = i + ChunkSize /\ l = i
        BY <4>1
      <4> HIDE DEF m, l
      <4>6. /\ chunks'[c].first = l + 1
            /\ chunks'[c].last = m \/ (chunks'[c].last = Words /\ Words < m)
            /\ chunks'[c].first <= chunks'[c].last /\ chunks'[c].last <= Words
        BY <4>2, <4>3, <4>4, <4>5
      <4> QED BY <3>1, <4>6 DEF m, l
    <3>2. CASE c # n + 1
      <4>1. c \in 1..n
        BY <1>1, <3>2
      <4>2. /\ chunks[c].first = (c - 1) * ChunkSize + 1
            /\ \/ chunks[c].last = c * ChunkSize
               \/ c = n /\ chunks[c].last = Words /\ Words < c * ChunkSize
            /\ chunks[c].first <= chunks[c].last /\ chunks[c].last <= Words
        BY <4>1 DEF ChunkInv, WordsPartitioned, n
      <4>3. c = n => ~(Words < c * ChunkSize)
        BY <1>1 DEF last
      <4> QED BY <1>5, <4>1, <4>2, <4>3
    <3> QED BY <3>1, <3>2
  <2>2. Words <= i' => Words <= (n + 1) * ChunkSize
    BY <1>1, <1>4, Times
  <2> QED BY <1>4, <1>5, <2>1, <2>2 DEF WordsPartitioned, Chunked
<1> QED BY <1>8, <1>9, <1>10, <1>11, <1>12, <1>13, <1>14 DEF ChunkInv

-------------------------------------------------------------------------------
(* The theorems about the chunker alone.                                   *)

\* Steps of the chunker, and steps of others.
LEMMA ChunkNextInv == ChunkInv /\ [ChunkNext]_chunkVars => ChunkInv'
<1>1. ChunkInv /\ ChunkNext => ChunkInv'
  BY JoinWordInv, EmitChunkInv DEF ChunkNext
<1>2. ChunkInv /\ UNCHANGED chunkVars => ChunkInv'
  <2> SUFFICES ASSUME ChunkInv, UNCHANGED chunkVars PROVE ChunkInv'
    OBVIOUS
  <2>1. UNCHANGED <<text, i, taken, joined, byteIdx, chunks, Words>>
    BY DEF chunkVars, Words
  <2>2. (ChunkTypeOK /\ Progress)'
    BY <2>1 DEF ChunkInv, ChunkTypeOK, Progress
  <2>3. (Behind /\ EndBehind)'
    BY <2>1 DEF ChunkInv, Behind, EndBehind, Normal
  <2>4. (RangesInFile /\ WordsPartitioned)'
    BY <2>1 DEF ChunkInv, RangesInFile, WordsPartitioned, Chunked
  <2>5. ExactIfNormalised'
    BY <2>1 DEF ChunkInv, ExactIfNormalised, Exact, Normal
  <2> QED BY <2>2, <2>3, <2>4, <2>5 DEF ChunkInv
<1> QED BY <1>1, <1>2

-------------------------------------------------------------------------------
(* Retrieval.                                                              *)

\* A step of the whole system is one of the chunker's or none of its.
LEMMA NextIsChunkNext == [Next]_vars => [ChunkNext]_chunkVars
BY DEF Next, vars, Chunks, SaveRow, SaveVector, Crash, Search

\* The chunker of the system does what the chunker does.
LEMMA ChunkerRuns == Spec => []ChunkInv
<1>1. Init => ChunkInv
  BY ChunkInitInv DEF Init
<1>2. ChunkInv /\ [Next]_vars => ChunkInv'
  BY ChunkNextInv, NextIsChunkNext
<1> QED BY <1>1, <1>2, PTL DEF Spec

(***************************************************************************)
(* For every file and chunk size, no byte range of EqualSizeChunker leaves *)
(* the file or runs ahead of its words.                                    *)
(***************************************************************************)
THEOREM RangesStayInFile == Spec => []RangesInFile
BY ChunkerRuns, PTL DEF ChunkInv

(***************************************************************************)
(* For every file and chunk size, the chunks are the words of the file in  *)
(* order, none twice and none left out.                                    *)
(***************************************************************************)
THEOREM ChunksCoverWords == Spec => []WordsPartitioned
BY ChunkerRuns, PTL DEF ChunkInv

(***************************************************************************)
(* A range is right if and only if the white space before its end is       *)
(* single bytes between words.                                             *)
(***************************************************************************)
THEOREM ExactMeansNormalised == Spec => []ExactIfNormalised
BY ChunkerRuns, PTL DEF ChunkInv

\* What a search selects is among the searchable chunks.
LEMMA SelectedIsSearchable ==
  ASSUME TypeOK, NEW found \in Select
  PROVE  found \subseteq Searchable
<1>1. CASE database = "SQLite"
  <2>1. PICK near \in SUBSET (vectors \union foreign) : found = near \intersect rows
    BY <1>1 DEF Select, Nearest, kSubset
  <2>2. rows \subseteq Nat
    <3>1. rows \subseteq 1..Len(chunks) /\ Len(chunks) \in Nat
      BY DEF TypeOK, ChunkTypeOK
    <3>2. 1..Len(chunks) \subseteq Nat
      BY <3>1
    <3> QED BY <3>1, <3>2
  <2>3. rows \intersect foreign = {}
    BY <2>2, RetrievalAssumption DEF TypeOK
  <2> QED BY <2>1, <2>3 DEF Searchable
<1>2. CASE database # "SQLite"
  BY <1>2 DEF Select
<1> QED BY <1>1, <1>2

\* No chunk fails the range check, and in a normal text every chunk is exact.
LEMMA ChunksAreSound ==
  ASSUME ChunkInv, NEW c \in 1..Len(chunks)
  PROVE  /\ ~InvalidRange(chunks[c])
         /\ Normal(Words) => Exact(chunks[c])
<1>1. chunks[c] \in Chunk /\ Words \in Nat /\ text.size \in Nat
  BY WordsLieApart DEF ChunkInv, ChunkTypeOK
<1>2. chunks[c].start \in Nat /\ chunks[c].end \in Nat /\ chunks[c].last \in Nat
  BY <1>1 DEF Chunk
<1>3. chunks[c].start <= chunks[c].end /\ chunks[c].end <= text.size
  BY DEF ChunkInv, RangesInFile
<1>4. chunks[c].last <= Words
  BY DEF ChunkInv, WordsPartitioned
<1>5. Exact(chunks[c]) <=> Normal(chunks[c].last)
  BY DEF ChunkInv, ExactIfNormalised
<1>6. Normal(Words) => Normal(chunks[c].last)
  BY <1>1, <1>2, <1>4, NormalShrinks
<1> QED BY <1>1, <1>2, <1>3, <1>5, <1>6 DEF InvalidRange

\* The invariant of the system.
SearchInv ==
  /\ ChunkInv /\ TypeOK /\ NoBadRange
  /\ answer.parts \subseteq Searchable

\* The chunks of before are chunks of after.
LEMMA ChunksStay ==
  ASSUME SearchInv, ChunkNext
  PROVE  Len(chunks) \in Nat /\ 1..Len(chunks) \subseteq 1..Len(chunks)'
<1>1. chunks \in Seq(Chunk) /\ text \in Texts
  BY DEF SearchInv, ChunkInv, ChunkTypeOK
<1>2. CASE JoinWord
  BY <1>1, <1>2 DEF JoinWord
<1>3. CASE EmitChunk
  <2>1. chunks' = Append(chunks, Current)
    BY <1>3 DEF EmitChunk
  <2>2. Len(chunks') = Len(chunks) + 1
    BY <1>1, <2>1
  <2> QED BY <1>1, <2>2
<1> QED BY <1>2, <1>3 DEF ChunkNext

LEMMA SearchInvInductive == SearchInv /\ [Next]_vars => SearchInv'
<1> SUFFICES ASSUME SearchInv, [Next]_vars PROVE SearchInv'
  OBVIOUS
<1>1. ChunkInv'
  BY ChunkNextInv, NextIsChunkNext DEF SearchInv
<1>2. ChunkTypeOK'
  BY <1>1 DEF ChunkInv
<1>3. Len(chunks) \in Nat
  BY DEF SearchInv, TypeOK, ChunkTypeOK
<1>4. CASE Chunks
  <2>1. UNCHANGED <<database, foreign, rows, vectors, next, rowDone, answer>>
    BY <1>4 DEF Chunks, searchVars
  <2>2. 1..Len(chunks) \subseteq 1..Len(chunks)'
    BY <1>4, ChunksStay DEF Chunks
  <2>3. TypeOK'
    <3>1. rows' \subseteq 1..Len(chunks)' /\ vectors' \subseteq 1..Len(chunks)'
      BY <2>1, <2>2 DEF SearchInv, TypeOK
    <3>2. answer' \in [outcome : Outcomes, parts : SUBSET (1..Len(chunks)')]
      BY <2>1, <2>2 DEF SearchInv, TypeOK
    <3> QED BY <1>2, <2>1, <3>1, <3>2 DEF SearchInv, TypeOK
  <2> QED BY <1>1, <2>1, <2>3 DEF SearchInv, NoBadRange, Searchable
<1>5. CASE SaveRow
  <2>1. next \in 1..Len(chunks)
    BY <1>3, <1>5 DEF SearchInv, TypeOK, SaveRow
  <2>2. /\ rows \subseteq rows' /\ rows' \subseteq rows \union {next}
        /\ rowDone' = TRUE
        /\ UNCHANGED <<chunks, database, foreign, vectors, next, answer>>
    BY <1>5 DEF SaveRow, chunkVars
  <2>3. TypeOK'
    BY <1>2, <2>1, <2>2 DEF SearchInv, TypeOK
  <2> QED BY <1>1, <2>2, <2>3 DEF SearchInv, NoBadRange, Searchable
<1>6. CASE SaveVector
  <2>1. next \in 1..Len(chunks)
    BY <1>3, <1>6 DEF SearchInv, TypeOK, SaveVector
  <2>2. /\ vectors \subseteq vectors' /\ vectors' \subseteq vectors \union {next}
        /\ next' = next + 1 /\ rowDone' = FALSE
        /\ UNCHANGED <<chunks, database, foreign, rows, answer>>
    BY <1>6 DEF SaveVector, chunkVars
  <2>3. TypeOK'
    <3>1. next + 1 \in Nat \ {0}
      BY <2>1
    <3>2. vectors' \subseteq 1..Len(chunks)
      BY <2>1, <2>2 DEF SearchInv, TypeOK
    <3> QED BY <1>2, <2>2, <3>1, <3>2 DEF SearchInv, TypeOK
  <2> QED BY <1>1, <2>2, <2>3 DEF SearchInv, NoBadRange, Searchable
<1>7. CASE Crash
  <2>1. /\ next' = Len(chunks) + 1 /\ rowDone' = FALSE
        /\ UNCHANGED <<chunks, database, foreign, rows, vectors, answer>>
    BY <1>7 DEF Crash, chunkVars
  <2>2. TypeOK'
    <3>1. Len(chunks) + 1 \in Nat \ {0}
      BY <1>3
    <3> QED BY <1>2, <2>1, <3>1 DEF SearchInv, TypeOK
  <2> QED BY <1>1, <2>1, <2>2 DEF SearchInv, NoBadRange, Searchable
<1>8. CASE Search
  <2>1. UNCHANGED <<chunks, database, foreign, rows, vectors, next, rowDone>>
    BY <1>8 DEF Search, chunkVars
  <2>2. /\ answer' \in [outcome : Outcomes \ {"bad range"}, parts : SUBSET (1..Len(chunks))]
        /\ answer'.parts \subseteq Searchable
    <3>1. CASE answer' = [outcome |-> "error", parts |-> {}]
      BY <3>1 DEF Outcomes
    <3>2. ASSUME NEW found \in Select,
                 answer' = [outcome |-> IF \E c \in found : InvalidRange(chunks[c])
                                        THEN "bad range"
                                        ELSE IF found = {} THEN "plain" ELSE "context",
                            parts |-> found]
          PROVE  /\ answer' \in [outcome : Outcomes \ {"bad range"}, parts : SUBSET (1..Len(chunks))]
                 /\ answer'.parts \subseteq Searchable
      <4>1. found \subseteq Searchable
        BY <3>2, SelectedIsSearchable DEF SearchInv
      <4>2. found \subseteq 1..Len(chunks)
        BY <4>1 DEF SearchInv, TypeOK, Searchable
      <4>3. ~ \E c \in found : InvalidRange(chunks[c])
        BY <4>2, ChunksAreSound DEF SearchInv
      <4>4. answer' = [outcome |-> IF found = {} THEN "plain" ELSE "context", parts |-> found]
        BY <3>2, <4>3
      <4> QED BY <4>1, <4>2, <4>4 DEF Outcomes
    <3> QED BY <1>8, <3>1, <3>2 DEF Search
  <2>3. TypeOK'
    BY <1>2, <2>1, <2>2 DEF SearchInv, TypeOK
  <2> QED BY <1>1, <2>1, <2>2, <2>3 DEF SearchInv, NoBadRange, Searchable
<1>9. CASE UNCHANGED vars
  <2>1. UNCHANGED <<chunks, database, foreign, rows, vectors, next, rowDone, answer>>
    BY <1>9 DEF vars, chunkVars, searchVars
  <2>2. TypeOK'
    BY <1>2, <2>1 DEF SearchInv, TypeOK
  <2> QED BY <1>1, <2>1, <2>2 DEF SearchInv, NoBadRange, Searchable
<1> QED BY <1>4, <1>5, <1>6, <1>7, <1>8, <1>9 DEF Next

LEMMA SearchInvHolds == Spec => []SearchInv
<1>1. Init => SearchInv
  <2> SUFFICES ASSUME Init PROVE SearchInv
    OBVIOUS
  <2>1. ChunkInv
    BY ChunkInitInv DEF Init
  <2>2. TypeOK
    <3>1. 1 \in Nat \ {0} /\ FALSE \in BOOLEAN
      OBVIOUS
    <3>2. answer \in [outcome : Outcomes, parts : SUBSET (1..Len(chunks))]
      BY DEF Init, Outcomes
    <3> QED BY <2>1, <3>1, <3>2 DEF Init, TypeOK, ChunkInv
  <2> QED BY <2>1, <2>2 DEF Init, SearchInv, NoBadRange
<1> QED BY <1>1, SearchInvInductive, PTL DEF Spec

(***************************************************************************)
(* The state of chunker, worker and search keeps its types.                *)
(***************************************************************************)
THEOREM TypeCorrect == Spec => []TypeOK
BY SearchInvHolds, PTL DEF SearchInv

(***************************************************************************)
(* The check of service.go:547 rejects no chunk, so it costs no question   *)
(* its context.                                                            *)
(***************************************************************************)
THEOREM RangeCheckNeverFires == Spec => []NoBadRange
BY SearchInvHolds, PTL DEF SearchInv

(***************************************************************************)
(* The context of a question consists of chunks of its project that have a *)
(* row and a vector; from a file without superfluous white space it is the *)
(* text that was embedded.                                                 *)
(***************************************************************************)
THEOREM ContextIsEmbeddedText == Spec => []ContextIsText
<1>1. SearchInv => ContextIsText
  <2> SUFFICES ASSUME SearchInv
      PROVE  /\ answer.parts \subseteq Searchable
             /\ Normal(Words) => \A c \in answer.parts : Exact(chunks[c])
    BY DEF ContextIsText
  <2>1. answer.parts \subseteq 1..Len(chunks)
    BY DEF SearchInv, TypeOK
  <2> QED BY <2>1, ChunksAreSound DEF SearchInv
<1> QED BY <1>1, SearchInvHolds, PTL

\* The two nearest vectors, less those that are not of the project.
LEMMA TwoNearest ==
  ASSUME NEW S, IsFiniteSet(S), NEW R, NEW near \in Nearest(2, S)
  PROVE  \/ S \intersect R \subseteq near \intersect R
         \/ Cardinality(near \intersect R) + Cardinality(S \ R) >= 2
<1> DEFINE n == Cardinality(S)
<1>1. n \in Nat
  BY FS_CardinalityType
<1>2. near \subseteq S /\ Cardinality(near) = IF n < 2 THEN n ELSE 2
  BY DEF Nearest, kSubset
<1>3. IsFiniteSet(near) /\ IsFiniteSet(S \ R) /\ IsFiniteSet(near \ R)
      /\ IsFiniteSet(near \intersect R)
  BY <1>2, FS_Subset, FS_Difference, FS_Intersection
<1>4. CASE n < 2
  <2>1. near = S
    BY <1>2, <1>4, FS_Subset
  <2> QED BY <2>1
<1>5. CASE ~(n < 2)
  <2>1. Cardinality(near) = 2
    BY <1>2, <1>5
  <2>2. Cardinality(near \ R) = 2 - Cardinality(near \intersect R)
    BY <1>3, <2>1, FS_Difference
  <2>3. Cardinality(near \ R) <= Cardinality(S \ R)
    <3>1. near \ R \subseteq S \ R
      BY <1>2
    <3> QED BY <1>3, <3>1, FS_Subset
  <2>4. /\ Cardinality(near \ R) \in Nat /\ Cardinality(S \ R) \in Nat
        /\ Cardinality(near \intersect R) \in Nat
    BY <1>3, FS_CardinalityType
  <2> QED BY <2>2, <2>3, <2>4
<1> QED BY <1>4, <1>5

(***************************************************************************)
(* On SQLite nothing but vectors of other projects, and vectors without a  *)
(* chunk row, keeps a question from two chunks of context.                 *)
(***************************************************************************)
THEOREM OnlyOthersCrowdOut == Spec => FewerOnlyIfCrowded
<1>1. ASSUME SearchInv, Search, database = "SQLite", answer'.outcome # "error"
      PROVE  \/ Searchable \subseteq answer'.parts
             \/ Cardinality(answer'.parts)
                  + Cardinality(foreign \union (vectors \ rows)) >= 2
  <2> DEFINE S == vectors \union foreign
  <2>1. PICK near \in Nearest(2, S) : answer'.parts = near \intersect rows
    <3>1. answer' # [outcome |-> "error", parts |-> {}]
      BY <1>1
    <3>2. PICK found \in Select : answer'.parts = found
      <4>1. PICK found \in Select :
              answer' = [outcome |-> IF \E c \in found : InvalidRange(chunks[c])
                                     THEN "bad range"
                                     ELSE IF found = {} THEN "plain" ELSE "context",
                         parts |-> found]
        BY <1>1, <3>1 DEF Search
      <4> QED BY <4>1
    <3> QED BY <1>1, <3>2 DEF Select
  <2>2. IsFiniteSet(S)
    <3>1. Len(chunks) \in Nat /\ vectors \subseteq 1..Len(chunks)
      BY <1>1 DEF SearchInv, TypeOK, ChunkTypeOK
    <3>2. IsFiniteSet(vectors)
      <4>1. IsFiniteSet(1..Len(chunks))
        BY <3>1, FS_Interval
      <4> QED BY <3>1, <4>1, FS_Subset
    <3>3. IsFiniteSet(foreign)
      BY <1>1, RetrievalAssumption, FS_Subset DEF SearchInv, TypeOK
    <3> QED BY <3>2, <3>3, FS_Union
  <2>3. foreign \intersect rows = {}
    <3>1. rows \subseteq 1..Len(chunks) /\ Len(chunks) \in Nat
      BY <1>1 DEF SearchInv, TypeOK, ChunkTypeOK
    <3>2. rows \subseteq Nat
      BY <3>1
    <3> QED BY <1>1, <3>2, RetrievalAssumption DEF SearchInv, TypeOK
  <2>4. S \ rows = foreign \union (vectors \ rows) /\ S \intersect rows = Searchable
    BY <2>3 DEF Searchable
  <2>5. \/ S \intersect rows \subseteq near \intersect rows
        \/ Cardinality(near \intersect rows) + Cardinality(S \ rows) >= 2
    BY <2>1, <2>2, TwoNearest
  <2> QED BY <2>1, <2>4, <2>5
<1>2. SearchInv /\ [Next]_vars
        => [Search /\ database = "SQLite" /\ answer'.outcome # "error" =>
              \/ Searchable \subseteq answer'.parts
              \/ Cardinality(answer'.parts)
                   + Cardinality(foreign \union (vectors \ rows)) >= 2]_vars
  BY <1>1
<1> QED BY <1>2, SearchInvHolds, PTL DEF Spec, FewerOnlyIfCrowded
===============================================================================
