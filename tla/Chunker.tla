-------------------------------- MODULE Chunker --------------------------------
(***************************************************************************)
(* internal/chunker: pages are split at section headers, sections that are *)
(* too long at paragraphs, these at sentences, and these at words; then    *)
(* every chunk is given the end of the one before.                         *)
(*                                                                         *)
(* A text is a sequence of words, parts of words and marks (".", "!" and   *)
(* "?"); the gap of each says what is before it: nothing (it goes on with  *)
(* what is there), a space, a blank line, or the line break before what    *)
(* looks like a header.                                                    *)
(***************************************************************************)
EXTENDS Naturals, Sequences, FiniteSets, SequencesExt

CONSTANTS
    MaxTokens, OverlapTokens,    \* ChunkerConfig
    CountTokens(_)               \* the tokenizer's count for a text

ASSUME ChunkerAssumption == MaxTokens \in Nat \ {0} /\ OverlapTokens \in Nat

Gaps == {"none", "space", "paragraph", "header"}

\* The pieces of a text between the gaps given.
Cut(s, gaps) ==
    LET Put(parts, t) ==
          IF parts = <<>> \/ t.gap \in gaps THEN Append(parts, <<t>>)
          ELSE [parts EXCEPT ![Len(parts)] = Append(@, t)]
    IN  FoldLeft(Put, <<>>, s)

\* An empty page is one empty section.
SplitBySection(s) == IF s = <<>> THEN <<s>> ELSE Cut(s, {"header"})
SplitParagraphs(s) == Cut(s, {"paragraph"})

\* The sentences between the marks that have a space behind them, the last without
\* such marks.
Sentences(s) ==
    LET New(t) == IF t.mark THEN [body |-> <<>>, marks |-> <<t>>]
                  ELSE [body |-> <<t>>, marks |-> <<>>]
        Longer(p, t) == IF t.mark THEN [p EXCEPT !.marks = Append(@, t)]
                        ELSE [body |-> Append(p.body \o p.marks, t), marks |-> <<>>]
        Put(parts, t) ==
          IF parts = <<>> \/ (Last(parts).marks # <<>> /\ t.gap # "none")
          THEN Append(parts, New(t))
          ELSE [parts EXCEPT ![Len(parts)] = Longer(@, t)]
        parts == FoldLeft(Put, <<>>, s)
    IN  Append(Front(parts), [body |-> Last(parts).body \o Last(parts).marks,
                              marks |-> <<>>])

\* Sentences without words are left out but their marks are not: the sentences that
\* are left get the first marks, one after the other, and the last marks are lost.
SplitSentences(s) ==
    LET parts == Sentences(s)
        left == SelectSeq(parts, LAMBDA p : p.body # <<>>)
        Attached(marks) == [i \in DOMAIN marks |-> [marks[i] EXCEPT !.gap = "none"]]
    IN  [i \in DOMAIN left |->
           left[i].body \o (IF i < Len(left) THEN Attached(parts[i].marks) ELSE <<>>)]
Words(s) == Cut(s, Gaps \ {"none"})

------------------------------------------------------------------------------
\* The chunks so far and the text being collected.
Nothing == [chunks |-> <<>>, text |-> <<>>, tokens |-> 0]

Flush(a) ==
    IF a.text = <<>> THEN a
    ELSE [Nothing EXCEPT !.chunks = Append(a.chunks, a.text)]

\* What joins the pieces is not counted, nor what the tokenizer makes of them together.
Add(a, piece) ==
    LET n == CountTokens(piece)
        b == IF a.tokens + n > MaxTokens THEN Flush(a) ELSE a
    IN  [b EXCEPT !.text = @ \o piece, !.tokens = @ + n]

SplitByWords(s) == Flush(FoldLeft(Add, Nothing, Words(s))).chunks

\* A piece that is too long alone is split further.
SplitBySentences(s) ==
    LET Take(a, piece) ==
          IF CountTokens(piece) > MaxTokens
          THEN [Flush(a) EXCEPT !.chunks = @ \o SplitByWords(piece)]
          ELSE Add(a, piece)
    IN  Flush(FoldLeft(Take, Nothing, SplitSentences(s))).chunks

\* Mutant: what was collected is not flushed before a long paragraph.
SplitByParagraphsUnflushed(s) ==
    LET Take(a, piece) ==
          IF CountTokens(piece) > MaxTokens
          THEN [a EXCEPT !.chunks = @ \o SplitBySentences(piece)]
          ELSE Add(a, piece)
    IN  Flush(FoldLeft(Take, Nothing, SplitParagraphs(s))).chunks

SplitByParagraphs(s) ==
    LET Take(a, piece) ==
          IF CountTokens(piece) > MaxTokens
          THEN [Flush(a) EXCEPT !.chunks = @ \o SplitBySentences(piece)]
          ELSE Add(a, piece)
    IN  Flush(FoldLeft(Take, Nothing, SplitParagraphs(s))).chunks

ChunkSection(s) ==
    IF CountTokens(s) <= MaxTokens THEN <<s>> ELSE SplitByParagraphs(s)

------------------------------------------------------------------------------
\* Two texts read the same whatever is before their first tokens.
Trim(s) == IF s = <<>> THEN s ELSE [s EXCEPT ![1].gap = "space"]

\* The last tokens, without the first word or what is left of it when a space
\* comes in their first half; words and marks are taken to be of one length.
GetOverlapText(s) ==
    LET n == CHOOSE k \in 0 .. Len(s) :
               /\ CountTokens(SubSeq(s, Len(s) - k + 1, Len(s))) <= OverlapTokens
               /\ \A m \in k + 1 .. Len(s) :
                     CountTokens(SubSeq(s, Len(s) - m + 1, Len(s))) > OverlapTokens
        last == SubSeq(s, Len(s) - n + 1, Len(s))
        parts == Cut(last, {"space"})
    IN  IF CountTokens(s) <= OverlapTokens THEN <<>>
        ELSE IF Len(parts) > 1 /\ 2 * Len(parts[1]) < Len(last)
             THEN SubSeq(last, Len(parts[1]) + 1, Len(last))
             ELSE last

CreateChunk(page, text) == [page |-> page, text |-> text, tokens |-> CountTokens(text)]

\* From the first chunk on: the end of a chunk may itself come from the one
\* before.
AddOverlap(chunks) ==
    LET WithOverlap(done, c) ==
          LET overlap == IF done = <<>> THEN <<>> ELSE GetOverlapText(Last(done).text)
          IN  Append(done,
                IF overlap = <<>> \/ IsPrefix(Trim(overlap), Trim(c.text)) THEN c
                ELSE CreateChunk(c.page, Trim(overlap) \o Trim(c.text)))
    IN  FoldLeft(WithOverlap, <<>>, chunks)

\* The chunks of a document before they overlap.
Pieces(pages) ==
    LET Section(n, s) == LET texts == ChunkSection(s)
                         IN  [i \in DOMAIN texts |-> CreateChunk(n, texts[i])]
        Page(n) == LET sections == SplitBySection(pages[n])
                   IN  FlattenSeq([i \in DOMAIN sections |-> Section(n, sections[i])])
    IN  FlattenSeq([n \in DOMAIN pages |-> Page(n)])

ChunkPages(pages) == AddOverlap(Pieces(pages))

\* HTML is one page, and a blank one has no chunks.
Chunk(s) == IF s = <<>> THEN <<>> ELSE ChunkPages(<<s>>)
===============================================================================
