------------------------------- MODULE Chunking -------------------------------
(***************************************************************************)
(* How the text of a document becomes chunks: services/semantic_chunker.py, *)
(* called by DocumentParser._create_contextual_chunks.  A text is a         *)
(* sequence of clauses, a clause one of sentences.  Of a sentence its       *)
(* length is told, whether its end is one that the truncation finds (a full *)
(* stop is, the end of a line and a question mark of ASCII are not), and    *)
(* where a space is.  Where the meaning changes is what the embeddings say. *)
(***************************************************************************)
EXTENDS Integers, FiniteSets, SequencesExt

CONSTANTS
    Texts,        \* sequences of clauses: whether each has a title, the lengths of its
                  \* sentences, those with an end to find, and the characters before a space
    ShortText,    \* a text below this is one chunk
    MinSentences, \* a clause with fewer is not split
    LeastSplit,   \* a piece must be longer to be split off
    ChunkMax,     \* chunk_max_chars
    SmallTail,    \* a chunk below this joins the one before it
    None

ChunkingAssumption ==
    /\ {ShortText, MinSentences, LeastSplit, ChunkMax, SmallTail} \subseteq Nat \ {0}
    /\ Texts \subseteq Seq([titled : BOOLEAN, lengths : Seq(Nat \ {0}),
                            ends : SUBSET Nat, spaces : SUBSET Nat])
    /\ \A text \in Texts : text # <<>> /\ \A c \in DOMAIN text :
          /\ text[c].lengths # <<>>
          /\ c > 1 => text[c].titled \* a clause begins at its title
    /\ None \notin Nat

VARIABLES
    text,   \* of the document
    clause, \* the one to split next
    chunks, \* so far
    rows,   \* what is stored, or None
    failed  \* clauses whose embeddings could not be had (history)

vars == <<text, clause, chunks, rows, failed>>

\* A chunk has sentences, the last of which may be cut off, and a title: its clause.
Clause == DOMAIN text
Sentence == UNION {{<<c, i>> : i \in DOMAIN text[c].lengths} : c \in Clause}
Chunk == [sentences : Seq(Sentence), length : Nat, cut : BOOLEAN,
          title : {None} \cup Clause]

TypeOK ==
    /\ text \in Texts /\ clause \in 1 .. Len(text) + 1
    /\ chunks \in Seq(Chunk) /\ rows \in {None} \cup Seq(Chunk)
    /\ failed \subseteq Clause

Init == text \in Texts /\ clause = 1 /\ chunks = <<>> /\ rows = None /\ failed = {}

---------------------------------------------------------------------------
Total(lengths) == FoldLeft(LAMBDA a, b : a + b, 0, lengths)
LengthOf(sentences) ==
    Total([i \in DOMAIN sentences |-> text[sentences[i][1]].lengths[sentences[i][2]]])
Piece(sentences) == [sentences |-> sentences, length |-> LengthOf(sentences), cut |-> FALSE]

Count(c) == Len(text[c].lengths)
Between(c, from, to) == [i \in 1 .. to - from + 1 |-> <<c, from + i - 1>>]
SentencesOf(c) == Between(c, 1, Count(c))
TitleOf(c) == IF text[c].titled THEN c ELSE None

\* The last tenth of the distances at most is above the threshold.
Breaks(c) ==
    LET distances == Count(c) - 1
    IN  {b \in SUBSET (1 .. distances) : Cardinality(b) <= (distances + 8) \div 10}

\* A piece that is too short stays with the one after it.
SplitAt(c, breaks) ==
    LET Split(t, b) ==
            LET piece == Piece(Between(c, t.start, b))
            IN  IF b \in breaks /\ piece.length > LeastSplit
                THEN [start |-> b + 1, pieces |-> Append(t.pieces, piece)] ELSE t
        t == FoldLeft(Split, [start |-> 1, pieces |-> <<>>], [b \in 1 .. Count(c) |-> b])
    IN  IF t.start > Count(c) THEN t.pieces
        ELSE Append(t.pieces, Piece(Between(c, t.start, Count(c))))

\* Pieces are joined as long as they stay below the limit.
MergePieces(pieces) ==
    LET Merge(t, p) ==
            IF LengthOf(t.current) + p.length < ChunkMax
            THEN [t EXCEPT !.current = @ \o p.sentences]
            ELSE [merged |-> IF t.current = <<>> THEN t.merged
                             ELSE Append(t.merged, Piece(t.current)),
                  current |-> p.sentences]
        t == FoldLeft(Merge, [merged |-> <<>>, current |-> <<>>], pieces)
    IN  Append(t.merged, Piece(t.current))

\* Where a chunk that is too long ends: at the last end of a sentence beyond its half
\* that is found, or else at the last space in the end of it, or at the limit.
LastBreak(chunk) ==
    LET s == chunk.sentences
        c == s[1][1]
        start == LengthOf(Between(c, 1, s[1][2] - 1))
        ends == {length \in {LengthOf(SubSeq(s, 1, i)) :
                                i \in {j \in DOMAIN s : s[j][2] \in text[c].ends}} :
                    length <= ChunkMax /\ 2 * (length - 1) > ChunkMax}
        spaces == {length \in {space - start : space \in text[c].spaces} :
                      length < ChunkMax /\ 10 * length > 7 * ChunkMax}
    IN  IF ends # {} THEN Max(ends) ELSE IF spaces # {} THEN Max(spaces) ELSE ChunkMax

\* What follows the break is not kept anywhere.
SmartTruncate(chunk) ==
    LET s == chunk.sentences
        length == LastBreak(chunk)
        last == Min({i \in DOMAIN s : LengthOf(SubSeq(s, 1, i)) >= length})
    IN  IF chunk.length <= ChunkMax THEN chunk
        ELSE [sentences |-> SubSeq(s, 1, last), length |-> length,
              cut |-> LengthOf(SubSeq(s, 1, last)) > length]

SemanticSplit(c, breaks) ==
    LET merged == MergePieces(SplitAt(c, breaks))
    IN  [i \in DOMAIN merged |-> SmartTruncate(merged[i])]

Titled(pieces, title) ==
    [i \in DOMAIN pieces |-> [sentences |-> pieces[i].sentences, length |-> pieces[i].length,
                              cut |-> pieces[i].cut, title |-> title]]

\* A small chunk joins the one before, which takes its title if it has none.
MergeSmallTails(all) ==
    LET Join(done, ch) ==
            LET end == Len(done)
            IN  IF done # <<>> /\ ch.length < SmallTail
                THEN [done EXCEPT ![end] =
                        [sentences |-> @.sentences \o ch.sentences,
                         length |-> @.length + ch.length,
                         cut |-> @.cut \/ ch.cut,
                         title |-> IF @.title = None THEN ch.title ELSE @.title]]
                ELSE Append(done, ch)
    IN  FoldLeft(Join, <<>>, all)

---------------------------------------------------------------------------
WholeText == Total([c \in Clause |-> LengthOf(SentencesOf(c))])
AllSentences == FoldLeft(LAMBDA s, c : s \o SentencesOf(c), <<>>, [c \in Clause |-> c])

\* A short text is one chunk; its title is looked for in the first line alone.
KeepWhole ==
    /\ rows = None /\ clause = 1 /\ WholeText < ShortText
    /\ rows' = Titled(<<Piece(AllSentences)>>, TitleOf(1))
    /\ UNCHANGED <<text, clause, chunks, failed>>

\* The next clause; without embeddings, or with few sentences, it stays in one piece.
SplitClause ==
    /\ clause <= Len(text) /\ WholeText >= ShortText
    /\ \/ /\ Count(clause) >= MinSentences
          /\ \E b \in Breaks(clause) :
                chunks' = chunks \o
                    Titled(SemanticSplit(clause, b), TitleOf(clause))
          /\ UNCHANGED failed
       \/ /\ chunks' = chunks \o Titled(<<Piece(SentencesOf(clause))>>, TitleOf(clause))
          /\ failed' = IF Count(clause) >= MinSentences
                       THEN failed \cup {clause} ELSE failed
    /\ clause' = clause + 1
    /\ UNCHANGED <<text, rows>>

StoreChunks ==
    /\ rows = None /\ clause = Len(text) + 1
    /\ rows' = MergeSmallTails(chunks)
    /\ UNCHANGED <<text, clause, chunks, failed>>

Next == KeepWhole \/ SplitClause \/ StoreChunks

Spec == Init /\ [][Next]_vars

---------------------------------------------------------------------------
(* Properties of the stored chunks.                                         *)

Stored == UNION {Range(rows[i].sentences) : i \in DOMAIN rows}
Lost == Sentence \ Stored
Before(s, t) == s[1] < t[1] \/ (s[1] = t[1] /\ s[2] < t[2])

\* The chunks have the sentences of the text in their order and once each.  One is
\* lost only when the truncation dropped it: the chunk is more than half full, and would
\* have been too long with it, or, if its end is none that is found, with it and others
\* that are lost as well (such a sentence may well have fitted).
TextIsKept ==
    /\ \A i, j \in DOMAIN rows :
          \A m \in DOMAIN rows[i].sentences, n \in DOMAIN rows[j].sentences :
              i < j \/ (i = j /\ m < n) => Before(rows[i].sentences[m], rows[j].sentences[n])
    /\ \A s \in Lost :
          \E i \in DOMAIN rows : \E n \in DOMAIN rows[i].sentences :
              LET kept == SubSeq(rows[i].sentences, 1, n)
                  last == rows[i].sentences[n]
              IN  /\ last[1] = s[1] /\ last[2] < s[2]
                  /\ 2 * LengthOf(kept) > ChunkMax
                  /\ \E to \in s[2] .. Count(s[1]) :
                        LET gap == Between(s[1], last[2] + 1, to)
                        IN  /\ Range(gap) \subseteq Lost
                            /\ LengthOf(kept) + LengthOf(gap) > ChunkMax
                            /\ s[2] \in text[s[1]].ends => to = s[2]

\* A chunk has the title of the first of its clauses that has one, and only the first
\* chunk is a small one.
TitlesFit ==
    \A i \in DOMAIN rows :
        LET titles == {c \in Clause : text[c].titled /\ \E n \in DOMAIN rows[i].sentences :
                                              rows[i].sentences[n][1] = c}
        IN  /\ WholeText >= ShortText =>
                 rows[i].title = IF titles = {} THEN None
                                 ELSE CHOOSE c \in titles : \A d \in titles : c <= d
            /\ i > 1 => rows[i].length >= SmallTail

ChunksTell == rows # None => TextIsKept /\ TitlesFit

---------------------------------------------------------------------------
(* The inductive invariant.                                                 *)

ClauseOf(ch) == ch.sentences[1][1]
First(ch) == ch.sentences[1][2]
End(ch) == ch.sentences[Len(ch.sentences)][2]

\* Sentences of a clause that follow each other.
IsRun(ch) ==
    /\ ch.sentences # <<>> /\ ClauseOf(ch) \in Clause
    /\ First(ch) \in 1 .. Count(ClauseOf(ch)) /\ End(ch) \in First(ch) .. Count(ClauseOf(ch))
    /\ ch.sentences = Between(ClauseOf(ch), First(ch), End(ch))

\* The sentences up to b were cut off.
TooLong(ch, b) ==
    /\ 2 * LengthOf(ch.sentences) > ChunkMax
    /\ \A i \in End(ch) + 1 .. b : \E to \in i .. b :
          /\ LengthOf(ch.sentences) + LengthOf(Between(ClauseOf(ch), End(ch) + 1, to)) > ChunkMax
          /\ i \in text[ClauseOf(ch)].ends => to = i

\* The end of its clause, but for what was cut off.
Ends(ch) == End(ch) < Count(ClauseOf(ch)) => TooLong(ch, Count(ClauseOf(ch)))

Follows(ch, next) ==
    \/ /\ ClauseOf(next) = ClauseOf(ch) /\ End(ch) < First(next)
       /\ End(ch) + 1 < First(next) => TooLong(ch, First(next) - 1)
    \/ ClauseOf(next) = ClauseOf(ch) + 1 /\ First(next) = 1 /\ Ends(ch)

\* The chunks so far are those of the clauses that were split.
ChunksInv ==
    /\ \A j \in DOMAIN chunks :
          IsRun(chunks[j]) /\ chunks[j].title = TitleOf(ClauseOf(chunks[j]))
    /\ \A j \in 1 .. Len(chunks) - 1 : Follows(chunks[j], chunks[j + 1])
    /\ clause = 1 => chunks = <<>>
    /\ clause > 1 =>
          /\ chunks # <<>> /\ ClauseOf(chunks[1]) = 1 /\ First(chunks[1]) = 1
          /\ ClauseOf(chunks[Len(chunks)]) = clause - 1 /\ Ends(chunks[Len(chunks)])

IInv == TypeOK /\ ChunksInv /\ ChunksTell
=============================================================================
