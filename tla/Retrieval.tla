------------------------------- MODULE Retrieval -------------------------------
(***************************************************************************)
(* From a file to the context of a question: the chunks of one document    *)
(* (Chunker), the rows and vectors the embedding worker stores for them    *)
(* (service/service.go:690-702), the search for a question's nearest       *)
(* chunks (GetTopSimilarRAGChunks of both databases) and the slices of the *)
(* file that go into the prompt (retrieveSimilarChunks, service.go:503-571,*)
(* called by Chat).                                                        *)
(*                                                                         *)
(* Questions come at any time, also while the worker stores.  Distances    *)
(* belong to sqlite-vec and pgvector: any of the vectors may be the        *)
(* nearest.  The table also holds `foreign' vectors, of other projects.    *)
(***************************************************************************)
EXTENDS Chunker, FiniteSets, FiniteSetsExt

CONSTANTS Foreign  \* vectors of the other projects of the user

ASSUME RetrievalAssumption == IsFiniteSet(Foreign) /\ Foreign \intersect Nat = {}

VARIABLES
  database, \* "SQLite" or "Postgres"
  foreign,  \* the vectors of other projects in the table
  rows,     \* the chunks in rag_chunks
  vectors,  \* the chunks with a vector (SQLite: in rag_chunks_vec)
  next,     \* the chunk the worker is about to store
  rowDone,  \* whether it is through with SaveRAGChunk of that chunk
  answer    \* the outcome of the last search and the chunks it found

searchVars == <<database, foreign, rows, vectors, next, rowDone, answer>>
vars == <<chunkVars, searchVars>>

Outcomes == {"none", "context", "plain", "error", "bad range"}

TypeOK ==
  /\ ChunkTypeOK
  /\ database \in {"SQLite", "Postgres"} /\ foreign \subseteq Foreign
  /\ rows \subseteq 1..Len(chunks) /\ vectors \subseteq 1..Len(chunks)
  /\ next \in Nat \ {0} /\ rowDone \in BOOLEAN
  /\ answer \in [outcome : Outcomes, parts : SUBSET (1..Len(chunks))]

Init ==
  /\ ChunkInit
  /\ database \in {"SQLite", "Postgres"} /\ foreign \in SUBSET Foreign
  /\ rows = {} /\ vectors = {}
  /\ next = 1 /\ rowDone = FALSE
  /\ answer = [outcome |-> "none", parts |-> {}]

-------------------------------------------------------------------------------
(* The worker.                                                             *)

Chunks == ChunkNext /\ UNCHANGED searchVars

\* SaveRAGChunk; an error is printed.
SaveRow ==
  /\ Chunked
  /\ next <= Len(chunks) /\ ~rowDone
  /\ rows' = rows \union {next} \/ UNCHANGED rows
  /\ rowDone' = TRUE
  /\ UNCHANGED <<chunkVars, database, foreign, vectors, next, answer>>

\* SaveRAGChunkEmbedding: an INSERT on SQLite, whether or not there is a row;
\* an UPDATE of the row on Postgres.  An error is printed.
SaveVector ==
  /\ next <= Len(chunks) /\ rowDone
  /\ \/ /\ database = "SQLite" \/ next \in rows
        /\ vectors' = vectors \union {next}
     \/ UNCHANGED vectors
  /\ next' = next + 1
  /\ rowDone' = FALSE
  /\ UNCHANGED <<chunkVars, database, foreign, rows, answer>>

\* The process dies while it stores; nobody goes on with the document.
Crash ==
  /\ next <= Len(chunks) /\ Chunked
  /\ next' = Len(chunks) + 1
  /\ rowDone' = FALSE
  /\ UNCHANGED <<chunkVars, database, foreign, rows, vectors, answer>>

-------------------------------------------------------------------------------
(* The search.                                                             *)

Nearest(k, S) == kSubset(IF Cardinality(S) < k THEN Cardinality(S) ELSE k, S)

Searchable == rows \intersect vectors

\* Mutant: the one nearest vector.
SelectOne ==
  IF database = "SQLite"
  THEN {near \intersect rows : near \in Nearest(1, vectors \union foreign)}
  ELSE {found \in SUBSET Searchable : Cardinality(found) <= 10}

\* Mutant: a vector of the project counts without its row.
SelectRowless ==
  IF database = "SQLite"
  THEN {near \ foreign : near \in Nearest(2, vectors \union foreign)}
  ELSE {found \in SUBSET Searchable : Cardinality(found) <= 10}

\* SQLite: the two nearest vectors of all projects, then those of them that
\* have a row in this project.  Postgres: at most ten of the project's own; the
\* HNSW index is approximate and may leave out any.
Select ==
  IF database = "SQLite"
  THEN {near \intersect rows : near \in Nearest(2, vectors \union foreign)}
  ELSE {found \in SUBSET Searchable : Cardinality(found) <= 10}

\* The check of the byte range before the file is sliced.
InvalidRange(k) == k.start < 0 \/ k.end > text.size \/ k.start > k.end

\* The question was embedded (or that failed), the nearest chunks are selected
\* and their files read; an error of any of it and Chat goes on without context.
Search ==
  /\ \/ answer' = [outcome |-> "error", parts |-> {}]
     \/ \E found \in Select :
          answer' = [outcome |-> IF \E c \in found : InvalidRange(chunks[c])
                                 THEN "bad range"
                                 ELSE IF found = {} THEN "plain" ELSE "context",
                     parts |-> found]
  /\ UNCHANGED <<chunkVars, database, foreign, rows, vectors, next, rowDone>>

Next == Chunks \/ SaveRow \/ SaveVector \/ Crash \/ Search

Spec == Init /\ [][Next]_vars

-------------------------------------------------------------------------------
(* Properties.                                                             *)

(***************************************************************************)
(* The range check of service.go:547 never rejects a chunk: the file is    *)
(* the one that was chunked, and every recorded range lies in it.          *)
(***************************************************************************)
NoBadRange == answer.outcome # "bad range"

(***************************************************************************)
(* Whatever a question gets as context is a chunk of its project with both *)
(* a row and a vector, and if the file has no superfluous white space it   *)
(* is the text that was embedded (service.go:541-563).                     *)
(***************************************************************************)
ContextIsText ==
  answer.outcome = "context" =>
    /\ answer.parts \subseteq Searchable
    /\ Normal(Words) => \A c \in answer.parts : Exact(chunks[c])

(***************************************************************************)
(* On SQLite a search finds two chunks of the project, or all it has,      *)
(* except for the places that vectors of other projects take, or vectors   *)
(* whose chunk row could not be inserted (dao_sqlite.go:275-288): each of  *)
(* them can cost a question one chunk of its context.                      *)
(***************************************************************************)
FewerOnlyIfCrowded ==
  [][Search /\ database = "SQLite" /\ answer'.outcome # "error" =>
       \/ Searchable \subseteq answer'.parts
       \/ Cardinality(answer'.parts) + Cardinality(foreign \union (vectors \ rows)) >= 2]_vars
===============================================================================
