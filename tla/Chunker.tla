------------------------------- MODULE Chunker -------------------------------
(***************************************************************************)
(* The ingestion chunker (ingestion/src/chunker.rs): paragraphs are packed *)
(* greedily under a budget, a paragraph that is too long is spilled over   *)
(* several units and a word that is too long is cut, a heading starts a    *)
(* chunk, and each chunk begins with the last words of the one before it.  *)
(*                                                                         *)
(* A text is a sequence of paragraphs and a paragraph one of words; a word *)
(* is the range of the characters it stands for, numbered through the      *)
(* text, and whether it begins with '#'.  Words of a paragraph are one     *)
(* blank apart.  A chunk is a sequence of words, or pieces of words, with  *)
(* the number of blank characters before each.                             *)
(***************************************************************************)
EXTENDS Naturals, Sequences, SequencesExt, FiniteSets

CONSTANTS Text,      \* the texts considered
          Size       \* the (max_chars, overlap_chars) asked for

VARIABLES input, chunks

cvars == <<input, chunks>>

Chars(word) == word.to - word.from + 1
Count(ws) == FoldLeft(LAMBDA n, w : n + Chars(w) + w.gap, 0, ws)
Lead(ws, gap) == IF ws = <<>> THEN <<>> ELSE <<[Head(ws) EXCEPT !.gap = gap]>> \o Tail(ws)
Less(a, b) == IF a < b THEN 0 ELSE a - b          \* saturating_sub
AtLeast(a, b) == IF a > b THEN a ELSE b
AtMost(a, b) == IF a < b THEN a ELSE b

\* Chunker::new: the overlap is kept below the size.
max_chars(size) == AtLeast(size[1], 1)
overlap_chars(size) == AtMost(size[2], Less(max_chars(size), 1))

\* Room for packed content, with the next overlap and its blank kept free.
pack_budget(size) == IF overlap_chars(size) = 0 THEN max_chars(size)
                     ELSE AtLeast(Less(max_chars(size), overlap_chars(size) + 1), 1)

\* Cut on character boundaries; only the first piece still begins with '#'.
split_oversized_word(word, budget) ==
  LET n == (Chars(word) + budget - 1) \div budget
  IN  [i \in 1 .. n |->
         [from |-> word.from + (i - 1) * budget,
          to |-> AtMost(word.from + i * budget - 1, word.to),
          hash |-> word.hash /\ i = 1, gap |-> 1]]

\* One unit after another: a unit joins the open one, or closes it.
Packing == [done |-> <<>>, open |-> <<>>]
Add(acc, unit, joins, gap) ==
  IF acc.open = <<>> THEN [acc EXCEPT !.open = Lead(unit, 0)]
  ELSE IF joins THEN [acc EXCEPT !.open = @ \o Lead(unit, gap)]
  ELSE [done |-> Append(acc.done, acc.open), open |-> Lead(unit, 0)]
Closed(acc) == IF acc.open = <<>> THEN acc.done ELSE Append(acc.done, acc.open)

spill(para, budget) ==
  LET pieces == FoldLeft(LAMBDA s, w : s \o split_oversized_word(w, budget), <<>>, para)
  IN  Closed(FoldLeft(LAMBDA acc, p :
               Add(acc, <<p>>, Count(acc.open) + 1 + Chars(p) <= budget, 1), Packing, pieces))

Units(text, budget) ==
  FoldLeft(LAMBDA us, para :
             us \o (IF para = <<>> THEN <<>>
                    ELSE IF Count(Lead(para, 0)) <= budget THEN <<Lead(para, 0)>>
                    ELSE spill(para, budget)), <<>>, text)

is_heading(unit) == Head(unit).hash
Packed(text, budget) ==
  Closed(FoldLeft(LAMBDA acc, u :
           Add(acc, u, ~is_heading(u) /\ Count(acc.open) + 2 + Count(u) <= budget, 2),
           Packing, Units(text, budget)))

\* The last whole words that fit, joined by blanks.
trailing_words(ws, limit) ==
  LET tail(k) == Lead([i \in 1 .. k |-> [ws[Len(ws) - k + i] EXCEPT !.gap = 1]], 0)
      fits == {k \in 0 .. Len(ws) : Count(tail(k)) <= limit}
  IN  tail(CHOOSE k \in fits : \A m \in fits : m <= k)

\* Mutation: the overlap is taken whatever the cap leaves.
Room_Overlap(chunk, size) == overlap_chars(size)

\* What is left under the cap, never more than the overlap.
Room(chunk, size) == AtMost(Less(max_chars(size), Count(chunk) + 1), overlap_chars(size))
apply_overlap(cs, size) ==
  [i \in DOMAIN cs |->
     LET tail == IF i = 1 THEN <<>> ELSE trailing_words(cs[i - 1], Room(cs[i], size))
     IN  IF tail = <<>> THEN cs[i] ELSE tail \o Lead(cs[i], 1)]

split_text(text, size) ==
  apply_overlap(Packed(text, pack_budget(size)), size)

CInit == input \in Text \X Size /\ chunks = <<>>
Chunk == /\ chunks = <<>>
         /\ chunks' = split_text(input[1], input[2])
         /\ chunks' # <<>>
         /\ UNCHANGED input
CNext == Chunk
CSpec == CInit /\ [][CNext]_cvars

-----------------------------------------------------------------------------
Letters(ws) == UNION {w.from .. w.to : w \in ToSet(ws)}
AllLetters(text) == UNION {Letters(p) : p \in ToSet(text)}
Headings(text) == {Head(p).from : p \in {q \in ToSet(text) : q # <<>> /\ Head(q).hash}}
Before(i) == IF i = 1 THEN {} ELSE Letters(chunks[i - 1])

\* However small the size and however long a word: no chunk is empty or longer than
\* max_chars, the chunks together hold every character in the order of the text
\* and repeat only what the chunk before ends with, and nothing but that overlap
\* stands before a heading in its chunk.
ChunkerExact ==
  chunks # <<>> =>
    /\ \A i \in DOMAIN chunks : chunks[i] # <<>> /\ Count(chunks[i]) <= max_chars(input[2])
    /\ UNION {Letters(chunks[i]) : i \in DOMAIN chunks} = AllLetters(input[1])
    /\ \A i \in DOMAIN chunks : \A j, k \in DOMAIN chunks[i] :
         j < k => chunks[i][j].to < chunks[i][k].from
    /\ \A i, j \in DOMAIN chunks : \A x \in Letters(chunks[j]) \ Before(j) :
         i < j => \A y \in Letters(chunks[i]) : y < x
    /\ \A i \in DOMAIN chunks : \A h \in Headings(input[1]) \cap (Letters(chunks[i]) \ Before(i)) :
         \A x \in Letters(chunks[i]) : x < h => x \in Before(i)
=============================================================================
