------------------------------ MODULE MCKnowledge ------------------------------
(***************************************************************************)
(* Instances of Knowledge.  Questions: a table for each kind of question,  *)
(* so that the rankings stay few, with more chunks than fit and with       *)
(* chunks that each of the filters turns away.  Documents: all texts up to *)
(* a length, of different tokens or of one that repeats, and some of two   *)
(* pages, of which one may be empty.                                       *)
(***************************************************************************)
EXTENDS Knowledge

Entry(doc, source, category, standard, age) ==
    [document |-> doc, source |-> source, category |-> category,
     standard |-> standard, age |-> age]

New == Entry("d1", "bnm", "circulars", "any", 10)
Old == Entry("d2", "bnm", "circulars", "any", 400)
Guide == Entry("d3", "bnm", "guidelines", "any", Undated)
Standard8 == Entry("d4", "aaoifi", "sukuk", "SS 8", Undated)
Standard9 == Entry("d5", "aaoifi", "sukuk", "SS 9", Undated)
Selangor(d) == Entry(d, "fatwa_selangor", "muamalat", "any", Undated)
FederalChunk == Entry("d7", "fatwa_federal", "muamalat", "any", Undated)

MCTables == {{New, Old, Guide}, {Old, Standard8, Standard9},
             {New, Selangor("d6"), Selangor("d8"), FederalChunk}}
MCVolatile == {New}

Asked(tool, topK) ==
    [tool |-> tool, valid |-> TRUE, topK |-> topK, category |-> NotGiven,
     standard |-> NotGiven, from |-> Unset, to |-> Unset, list |-> <<>>,
     type |-> "default"]

MCQuestions ==
    {Asked("bnm", 0), Asked("bnm", 4), Asked("direct", 0),
     Asked("aaoifi", 1), Asked("fatwa", 0), Asked("compare", 0),
     [Asked("bnm", 1) EXCEPT !.category = "guidelines"],
     [Asked("bnm", 0) EXCEPT !.from = 30, !.category = "all"],
     [Asked("bnm", 0) EXCEPT !.from = 500, !.to = 100],
     [Asked("latest", 4) EXCEPT !.from = 0],
     [Asked("latest", 0) EXCEPT !.from = 500],
     [Asked("aaoifi", 0) EXCEPT !.standard = "SS 8"],
     [Asked("fatwa", 1) EXCEPT !.list = <<"fatwa_selangor">>],
     [Asked("fatwa", 1) EXCEPT !.category = "muamalat"],
     [Asked("compare", 4) EXCEPT !.list = <<"bnm", "fatwa">>],
     [Asked("compare", 1) EXCEPT !.list = <<"fatwa">>],
     [Asked("compare", 1) EXCEPT !.list = <<"bnm", "scx">>],
     [Asked("direct", 2) EXCEPT !.type = "keyword"],
     [Asked("direct", 1) EXCEPT !.type = "semantic"],
     Asked("sc", 0), Asked("iifa", 1),
     [Asked("bnm", 1) EXCEPT !.valid = FALSE]}

MCStates == <<"fatwa_selangor", "fatwa_federal">>
MCToolLimit == [default |-> 2, max |-> 3]
MCCompareLimit == [default |-> 1, max |-> 2]

\* A word or a mark of each kind; the texts tell the places apart, unless they repeat.
Kinds == {"none", "space", "paragraph", "header", "stop", "alone", "leading"}
Token(kind, text) ==
    [text |-> text,
     mark |-> kind \in {"stop", "alone", "leading"},
     gap  |-> CASE kind = "stop" -> "none" [] kind = "alone" -> "space"
                [] kind = "leading" -> "paragraph" [] OTHER -> kind]
Text(kinds, repeats) ==
    [i \in DOMAIN kinds |-> Token(kinds[i], IF repeats THEN 1 ELSE i)]
Texts(n, inner, repeats) ==
    {Text(<<"header">> \o rest, repeats) : rest \in [1 .. n - 1 -> inner]}

\* A blank line and some words at the start of a text are a token more, marks in a
\* row are one: the count of a text is neither the sum of its pieces' nor at most it.
MCCountTokens(s) ==
    Len(s) + Cardinality({i \in 2 .. Len(s) : s[i].gap = "paragraph"})
      + Cardinality({i \in 1 .. Len(s) : i = 1 /\ s[i].text % 3 = 0})
      - Cardinality({i \in 2 .. Len(s) :
                       s[i].mark /\ s[i - 1].mark /\ s[i].gap = "none"})

\* Long enough for two chunks of MaxTokens that overlap, and for a piece that
\* is split again at each level.
MCPDFs ==
    {<<s>> : s \in Texts(8, {"space", "paragraph"}, FALSE)
                     \cup Texts(7, {"none", "space", "stop"}, FALSE)
                     \cup Texts(7, {"space", "stop", "alone"}, FALSE)
                     \cup Texts(6, {"none", "space", "paragraph", "stop"}, FALSE)
                     \cup Texts(5, Kinds, FALSE)
                     \cup Texts(6, {"space", "paragraph"}, TRUE)}
      \cup {<<s, t>> : s, t \in {<<>>} \cup Texts(3, {"space", "paragraph"}, FALSE)
                                \cup Texts(5, {"space"}, FALSE)}
MCHTMLs == {<<>>} \cup Texts(4, Kinds, TRUE)
===============================================================================
