------------------------------- MODULE Knowledge -------------------------------
(***************************************************************************)
(* The two ends of the knowledge base: the documents that the process      *)
(* command cuts into chunks, and the questions answered from chunks.  What *)
(* a chunk says is open to the searches, so only the table joins them.     *)
(***************************************************************************)
EXTENDS Retrieval, Chunker

CONSTANTS
    PDFs,     \* documents as sequences of pages
    HTMLs     \* documents as texts

VARIABLE document    \* the last one chunked: [pages, chunks]

knowledgeVars == <<vars, document>>
NoDocument == [pages |-> <<>>, chunks |-> <<>>]

\* The chunker keeps nothing from one document to the next, and the retrieval
\* nothing of the documents: a behaviour has one document, or the questions.
ChunkDocument ==
    /\ document = NoDocument /\ at = "idle" /\ changes = 0
    /\ \E pages \in PDFs :
          document' = [pages |-> pages, chunks |-> ChunkPages(pages)]
    /\ UNCHANGED vars

ProcessHTMLContent ==
    /\ document = NoDocument /\ at = "idle" /\ changes = 0
    /\ \E s \in HTMLs : document' = [pages |-> <<s>>, chunks |-> Chunk(s)]
    /\ UNCHANGED vars

Question == document = NoDocument /\ Next /\ UNCHANGED document

KnowledgeInit == Init /\ document = NoDocument
KnowledgeNext == ChunkDocument \/ ProcessHTMLContent \/ Question
KnowledgeSpec == KnowledgeInit /\ [][KnowledgeNext]_knowledgeVars

------------------------------------------------------------------------------
TextOf(chunks) == FlattenSeq([i \in DOMAIN chunks |-> chunks[i].text])

WithoutMarks(s) == SelectSeq(s, LAMBDA t : ~t.mark)
FollowsWord(t) == t.mark => t.gap = "none"

(***************************************************************************)
(* A document is covered by its chunks, whatever the tokenizer counts:     *)
(* read one after the other, without what each repeats of the one before,  *)
(* they have the words of its pages, none lost, doubled or out of place,   *)
(* and the marks too unless some mark of the page stands alone.  What a    *)
(* chunk repeats is the end of the one before.  No chunk is of two pages   *)
(* or sections.                                                            *)
(***************************************************************************)
ChunksCoverDocument ==
    LET chunks == document.chunks
        \* What chunk i repeats: as much as its text is longer than its piece.
        own == Pieces(document.pages)
        More(i) == Len(chunks[i].text) - Len(own[i].text)
    IN  chunks # <<>> =>
          /\ Len(own) = Len(chunks)
          /\ \A n \in DOMAIN document.pages :
                LET page == document.pages[n]
                    text == TextOf(SelectSeq(own, LAMBDA c : c.page = n))
                IN  /\ WithoutMarks(text) = WithoutMarks(page)
                    /\ (\A k \in DOMAIN page : FollowsWord(page[k])) => text = page
          /\ \A i \in DOMAIN chunks :
                LET text == own[i].text
                IN  /\ \A k \in 2 .. Len(text) : text[k].gap # "header"
                    /\ More(i) >= 0
                    /\ Trim(SubSeq(chunks[i].text, More(i) + 1, Len(chunks[i].text)))
                         = Trim(text)
                    /\ More(i) > 0 =>
                         LET before == chunks[i - 1].text
                         IN  SubSeq(chunks[i].text, 1, More(i)) =
                               Trim(SubSeq(before, Len(before) - More(i) + 1, Len(before)))
                    /\ chunks[i].page = own[i].page
                    /\ chunks[i].tokens = CountTokens(chunks[i].text)
===============================================================================
