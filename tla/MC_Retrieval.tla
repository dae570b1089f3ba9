----------------------------- MODULE MC_Retrieval -----------------------------
(* All files of up to MaxSize bytes, each byte white space or part of a word,  *)
(* split as strings.Fields splits them, and files of up to MaxWords letters    *)
(* with one or two bytes of white space before each but, perhaps, the first;   *)
(* up to two vectors of other projects.                                        *)
EXTENDS Retrieval, SequencesExt

CONSTANTS MaxSize, MaxWords, o1, o2

\* Where the words of a file begin (end = TRUE: end).  b[x] says whether byte x
\* belongs to a word.
Edges(b, size, end) ==
  SetToSortSeq({x \in 0..size :
                  LET before == x > 0 /\ b[x - 1]
                      here == x < size /\ b[x]
                  IN  IF end THEN before /\ ~here ELSE here /\ ~before}, <)

ShortTexts ==
  UNION {{[from |-> Edges(b, size, FALSE), to |-> Edges(b, size, TRUE), size |-> size]
            : b \in [0..(size - 1) -> BOOLEAN]} : size \in 0..MaxSize}

\* gaps[w] bytes of white space stand before word w, a letter.
Spaced(n, gaps) ==
  LET from == [w \in 1..n |-> FoldFunction(+, 0, [v \in 1..w |-> gaps[v]]) + w - 1]
  IN  [from |-> from, to |-> [w \in 1..n |-> from[w] + 1], size |-> from[n] + 1]

LongTexts ==
  UNION {{Spaced(n, gaps) : gaps \in {g \in [1..n -> 0..2] :
            g[1] < 2 /\ \A w \in 2..n : g[w] > 0}} : n \in 4..MaxWords}

MC_Texts == ShortTexts \union LongTexts
MC_Foreign == {o1, o2}
===============================================================================
