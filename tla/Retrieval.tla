------------------------------- MODULE Retrieval -------------------------------
(***************************************************************************)
(* Retrieval for one question: the tools of internal/tools, the hybrid     *)
(* retriever of internal/rag and the searches of the vector store, while   *)
(* the ingest adds and removes chunks and any call may fail.               *)
(*                                                                         *)
(* A chunk is what the filters look at: its document, source type,         *)
(* category, standard number and the age of its effective date in days.    *)
(* What is similar to a query is open: a search may rank any of the chunks *)
(* its filters admit in any order.                                         *)
(***************************************************************************)
EXTENDS Naturals, Sequences, FiniteSets, SequencesExt

CONSTANTS
    Tables,         \* what the store may hold: sets of chunks
    Volatile,       \* the chunks the ingest may add or remove meanwhile
    MaxChanges,     \* bound: how often it does
    Questions,      \* what may be asked of the tools and of the retriever
    FatwaStates,    \* the source types of the states, in the tools' order
    Federal,        \* the one compare_standards begins with
    ToolLimit,      \* [default, max] of top_k
    CompareLimit,   \* the same of compare_standards
    DefaultTopK,    \* RetrieverConfig
    RRFConstant, SemanticWeight, KeywordWeight,
    HybridModes     \* the settings of EnableHybridSearch

Known == (UNION Tables) \cup Volatile     \* every chunk there may ever be

\* The tools that take no list leave it empty; the sources in one are names
\* of their own, not the empty filter.
Tools == {"bnm", "sc", "aaoifi", "iifa", "latest", "fatwa", "compare", "direct"}
Limits == [default : Nat \ {0}, max : Nat \ {0}]
SourceLists == Seq(STRING \ {"any"})
Requests ==
    [tool : Tools, valid : BOOLEAN, topK : Nat, category : STRING,
     standard : STRING, from : Nat, to : Nat, list : SourceLists,
     type : {"default", "semantic", "keyword", "hybrid"}]

\* What a store can hold and a request can carry.  NewRetriever replaces a
\* weight, a constant or a number of chunks that is zero by its default.
ASSUME RetrievalAssumption ==
    /\ \A chunks \in Tables : IsFiniteSet(chunks)
    /\ IsFiniteSet(Volatile)
    /\ \A c \in Known : c.age \in Nat
    /\ Questions \subseteq Requests
    /\ FatwaStates \in SourceLists /\ Federal \in STRING
    /\ ToolLimit \in Limits /\ CompareLimit \in Limits
    /\ DefaultTopK \in Nat \ {0} /\ RRFConstant \in Nat \ {0}
    /\ SemanticWeight \in Nat \ {0} /\ KeywordWeight \in Nat \ {0}
    /\ HybridModes \subseteq BOOLEAN

VARIABLES
    hybrid,      \* RetrieverConfig.EnableHybridSearch, fixed
    table,       \* the searchable chunks, those of active documents
    changes,     \* how often the ingest has changed them
    question,    \* what is being answered
    plan,        \* the retrievals still to do for the source at hand
    at,          \* where that one is
    sem,         \* the result of its semantic search
    fusion,      \* the last fusion: [sem, kw, topK, fused]
    found,       \* the chunks found for each source so far, the last at hand
    answer       \* [failed, lists]: a list of chunks per source

vars == <<hybrid, table, changes, question, plan, at, sem, fusion, found, answer>>

NoAnswer == [failed |-> FALSE, lists |-> <<>>]
NoFusion == [sem |-> <<>>, kw |-> <<>>, topK |-> 0, fused |-> <<>>]

------------------------------------------------------------------------------
(* The tools: parameters into retrievals.  "any" stands for a parameter     *)
(* that is missing or empty, or a date that does not parse.                 *)

NotGiven == "any"
Unset == 9999
Undated == 10000

Clamp(n, limit) ==
    IF n = 0 THEN limit.default ELSE IF n > limit.max THEN limit.max ELSE n

\* The value that stands for every category differs between the tools.
EveryCategory(q) == IF q.tool \in {"bnm", "sc"} THEN "all" ELSE "general"
Categories(q) ==
    IF q.category \in {NotGiven, EveryCategory(q)} THEN {} ELSE {q.category}

Retrieval(source, topK) ==
    [source |-> source, categories |-> {}, standard |-> NotGiven,
     from |-> Unset, to |-> Unset, topK |-> topK, type |-> "default", probe |-> FALSE]

DatedPlan(q, source) ==
    <<[Retrieval(source, Clamp(q.topK, ToolLimit)) EXCEPT
         !.categories = Categories(q), !.from = q.from, !.to = q.to]>>
SearchBNM(q) == DatedPlan(q, "bnm")
SearchSC(q) == DatedPlan(q, "sc")

NumberedPlan(q, source) ==
    <<[Retrieval(source, Clamp(q.topK, ToolLimit)) EXCEPT
         !.categories = Categories(q), !.standard = q.standard]>>
SearchAAOIFI(q) == NumberedPlan(q, "aaoifi")
SearchIIFA(q) == NumberedPlan(q, "iifa")

\* get_latest_circulars: the last 30 days, or as many as asked for up to 365.
LatestPlan(q) ==
    <<[Retrieval("bnm", Clamp(q.topK, ToolLimit)) EXCEPT
         !.categories = {"circulars", "policy_documents"},
         !.from = Clamp(q.from, [default |-> 30, max |-> 365]), !.to = 0]>>

\* search_state_fatwa: one retrieval per state.
StatesOf(q) ==
    IF q.list = <<>> \/ "all" \in ToSet(q.list) THEN FatwaStates ELSE q.list
FatwaPlan(q) ==
    [i \in DOMAIN StatesOf(q) |->
       [Retrieval(StatesOf(q)[i], Clamp(q.topK, ToolLimit)) EXCEPT
          !.categories = Categories(q)]]

\* compare_standards, one source after the other: for "fatwa" the federal
\* territory, and when that went well all states, whose chunks take the place
\* of the first ones.
SourcesOf(q) == IF q.list = <<>> THEN <<"bnm", "aaoifi">> ELSE q.list
ComparePlan(q, i) ==
    LET topK == Clamp(q.topK, CompareLimit)
    IN  IF SourcesOf(q)[i] = "fatwa"
        THEN <<[Retrieval(Federal, topK) EXCEPT !.probe = TRUE]>>
             \o [s \in DOMAIN FatwaStates |-> Retrieval(FatwaStates[s], topK)]
        ELSE <<Retrieval(SourcesOf(q)[i], topK)>>

\* The initial retrieval of the agent, and others that ask the retriever
\* itself: its own default, and the type of search they want.
DirectPlan(q) ==
    <<[Retrieval(NotGiven, IF q.topK = 0 THEN DefaultTopK ELSE q.topK) EXCEPT
         !.type = q.type]>>

\* How many lists an answer has, and the retrievals for the i-th of them.
Lists(q) == IF q.tool = "compare" THEN Len(SourcesOf(q)) ELSE 1
Plan(q, i) ==
    CASE q.tool = "bnm" -> SearchBNM(q)
      [] q.tool = "sc" -> SearchSC(q)
      [] q.tool = "aaoifi" -> SearchAAOIFI(q)
      [] q.tool = "iifa" -> SearchIIFA(q)
      [] q.tool = "latest" -> LatestPlan(q)
      [] q.tool = "fatwa" -> FatwaPlan(q)
      [] q.tool = "compare" -> ComparePlan(q, i)
      [] q.tool = "direct" -> DirectPlan(q)

\* A query that is empty, an unknown source, less than two sources.
Refused(q) ==
    \/ ~q.valid
    \/ /\ q.tool = "compare"
       /\ \/ \E i \in DOMAIN SourcesOf(q) :
                SourcesOf(q)[i] \notin {"bnm", "aaoifi", "sc", "iifa", "fatwa"}
          \/ Len(SourcesOf(q)) < 2

------------------------------------------------------------------------------
(* The store's searches.                                                    *)

Rankings(chunks, n) ==
    LET most == IF n < Cardinality(chunks) THEN n ELSE Cardinality(chunks)
    IN  UNION {{s \in [1 .. m -> chunks] : IsInjective(s)} : m \in 0 .. most}

InCategories(c, r) == r.categories = {} \/ c.category \in r.categories

\* A document without a date fails a comparison with one.
InDates(c, r) ==
    /\ r.from # Unset => c.age <= r.from
    /\ r.to # Unset => c.age # Undated /\ c.age >= r.to

SearchMatches(r) ==
    {c \in table : /\ r.source \in {NotGiven, c.source}
                   /\ InCategories(c, r)
                   /\ r.standard \in {NotGiven, c.standard}
                   /\ InDates(c, r)}

\* Mutant: the source type is not among the keyword search's options.
KeywordMatchesAnySource(r) == {c \in table : InCategories(c, r)}

\* keywordSearch hands on two of the filters only.
KeywordMatches(r) ==
    {c \in table : r.source \in {NotGiven, c.source} /\ InCategories(c, r)}

\* The ranked chunks above the threshold, the first n of them.
Search(r, n) == Rankings(SearchMatches(r), n)
KeywordSearch(r, n) == Rankings(KeywordMatches(r), n)

------------------------------------------------------------------------------
(* Reciprocal rank fusion, with fractions <<numerator, denominator>>.       *)

Less(x, y) == x[1] * y[2] < y[1] * x[2]
Plus(x, y) == <<x[1] * y[2] + y[1] * x[2], x[2] * y[2]>>

Rank(list, c) == CHOOSE i \in DOMAIN list : list[i] = c
Share(list, c, weight) ==
    IF c \in ToSet(list) THEN <<weight, RRFConstant + Rank(list, c)>> ELSE <<0, 1>>

\* Mutant: the second list's share replaces the first one's.
ScoreLast(semantic, keyword, c) ==
    IF c \in ToSet(keyword) THEN Share(keyword, c, KeywordWeight)
    ELSE Share(semantic, c, SemanticWeight)

Score(semantic, keyword, c) ==
    Plus(Share(semantic, c, SemanticWeight), Share(keyword, c, KeywordWeight))

Item(c, similarity) == [chunk |-> c, similarity |-> similarity]
Chunks(items) == [i \in DOMAIN items |-> items[i].chunk]
FirstOf(s, n) == SubSeq(s, 1, IF n < Len(s) THEN n ELSE Len(s))

\* The map's order and sort.Slice leave ties in any order.
Fused(semantic, keyword, topK) ==
    LET all == ToSet(semantic) \cup ToSet(keyword)
        ByScore == {s \in [1 .. Cardinality(all) -> all] :
                      /\ IsInjective(s)
                      /\ \A j \in 1 .. Cardinality(all), i \in 1 .. Cardinality(all) :
                            i < j => ~Less(Score(semantic, keyword, s[i]),
                                           Score(semantic, keyword, s[j]))}
    IN  {LET s == FirstOf(order, topK)
         IN  [i \in DOMAIN s |-> Item(s[i], Score(semantic, keyword, s[i]))]
           : order \in ByScore}

\* The similarities of a search alone are of another scale: cosines or text
\* ranks, which may be below or above any fused score.
Scales == {"below", "above"}
Alone(list, scale) ==
    [i \in DOMAIN list |->
       Item(list[i], IF scale = "below" THEN <<0, 1>> ELSE <<1 + Len(list) - i, 1>>)]

------------------------------------------------------------------------------
(* One retrieval after the other.                                           *)

This == Head(plan)
Begin(p) == IF p = <<>> THEN "finish"
            ELSE IF Head(p).type = "keyword" THEN "keyword" ELSE "embed"

Ask ==
    /\ at = "idle"
    /\ \E q \in Questions :
          /\ question' = q
          /\ IF Refused(q)
             THEN /\ at' = "done"
                  /\ answer' = [NoAnswer EXCEPT !.failed = TRUE]
                  /\ UNCHANGED <<plan, found>>
             ELSE /\ plan' = Plan(q, 1)
                  /\ at' = Begin(Plan(q, 1))
                  /\ found' = <<<<>>>>
                  /\ UNCHANGED answer
    /\ UNCHANGED <<hybrid, table, changes, sem, fusion>>

\* The retrieval at hand is over.  The probe's chunks are not kept.  The last
\* retrieval for a source is followed by the first one for the next.
Keep(items) ==
    IF This.probe THEN found ELSE [found EXCEPT ![Len(found)] = @ \o items]
LastOfSource == Tail(plan) = <<>> /\ Len(found) < Lists(question)
Following == IF LastOfSource THEN Plan(question, Len(found) + 1) ELSE Tail(plan)
Collect(items) ==
    /\ found' = IF LastOfSource THEN Append(Keep(items), <<>>) ELSE Keep(items)
    /\ plan' = Following
    /\ at' = Begin(Following)
    /\ sem' = <<>>

Mode == IF This.type = "default" THEN (IF hybrid THEN "hybrid" ELSE "semantic")
        ELSE This.type

\* getQueryEmbedding: without an embedding the semantic search finds nothing
\* and the hybrid search turns into a keyword search.
Embed ==
    /\ at = "embed"
    /\ \/ at' = "semantic" /\ UNCHANGED <<plan, found, sem>>
       \/ Mode = "hybrid" /\ at' = "fallback" /\ UNCHANGED <<plan, found, sem>>
       \/ Mode = "semantic" /\ Collect(<<>>)
    /\ fusion' = NoFusion
    /\ UNCHANGED <<hybrid, table, changes, question, answer>>

\* semanticSearch; an error is an empty result.
SemanticSearch ==
    /\ at = "semantic" /\ Mode = "semantic"
    /\ \E list \in Search(This, This.topK), scale \in Scales :
          Collect(Alone(list, scale))
    /\ fusion' = NoFusion
    /\ UNCHANGED <<hybrid, table, changes, question, answer>>

\* The first half of hybridSearch asks for twice as many.
HybridSemantic ==
    /\ at = "semantic" /\ Mode = "hybrid"
    /\ \E list \in Search(This, 2 * This.topK) : sem' = list
    /\ at' = "fuse"
    /\ fusion' = NoFusion
    /\ UNCHANGED <<hybrid, table, changes, question, plan, found, answer>>

\* The second half.
HybridKeyword ==
    /\ at = "fuse"
    /\ \E list \in KeywordSearch(This, 2 * This.topK) :
          \E items \in Fused(sem, list, This.topK) :
             /\ Collect(items)
             /\ fusion' = [sem |-> sem, kw |-> list, topK |-> This.topK,
                           fused |-> Chunks(items)]
    /\ UNCHANGED <<hybrid, table, changes, question, answer>>

KeywordOnly ==
    /\ at \in {"keyword", "fallback"}
    /\ \E list \in KeywordSearch(This, This.topK), scale \in Scales :
          Collect(Alone(list, scale))
    /\ fusion' = NoFusion
    /\ UNCHANGED <<hybrid, table, changes, question, answer>>

------------------------------------------------------------------------------
(* The answer.                                                              *)

\* A bubble sort is stable.
Place(items, i) ==
    Cardinality({j \in DOMAIN items :
        \/ Less(items[i].similarity, items[j].similarity)
        \/ /\ ~Less(items[j].similarity, items[i].similarity)
           /\ j <= i})
BySimilarity(items) ==
    [n \in DOMAIN items |-> items[CHOOSE i \in DOMAIN items : Place(items, i) = n]]

\* Mutant: the chunks are cut before they are sorted.
LimitAndSortChunks(items, topK) == BySimilarity(FirstOf(items, topK))

\* What fits is not sorted.
SortAndLimitChunks(items, topK) ==
    IF Len(items) <= topK THEN items ELSE FirstOf(BySimilarity(items), topK)

IsFatwa(q, i) ==
    \/ q.tool = "fatwa"
    \/ q.tool = "compare" /\ SourcesOf(q)[i] = "fatwa"
LimitOf(q) == Clamp(q.topK, IF q.tool = "compare" THEN CompareLimit ELSE ToolLimit)

\* compare_standards fails when no source has anything.
Finish ==
    /\ at = "finish"
    /\ at' = "done"
    /\ answer' =
         [failed |-> question.tool = "compare"
                       /\ \A i \in DOMAIN found : found[i] = <<>>,
          lists |-> [i \in DOMAIN found |->
                       IF IsFatwa(question, i)
                       THEN SortAndLimitChunks(found[i], LimitOf(question))
                       ELSE found[i]]]
    /\ fusion' = NoFusion
    /\ UNCHANGED <<hybrid, table, changes, question, plan, sem, found>>

------------------------------------------------------------------------------
(* The ingest, meanwhile.  A batch is one transaction.                      *)

Change(new) ==
    /\ changes < MaxChanges
    /\ at \notin {"idle", "done"}
    /\ new # table
    /\ table' = new
    /\ changes' = changes + 1
    /\ fusion' = NoFusion
    /\ UNCHANGED <<hybrid, question, plan, at, sem, found, answer>>

UpsertBatch == \E chunks \in SUBSET Volatile : Change(table \cup chunks)
Delete(c) == Change(table \ {c})
DeleteByDocument(d) == Change({c \in table : c.document # d})

Init ==
    /\ hybrid \in HybridModes
    /\ table \in Tables
    /\ changes = 0
    /\ question = [tool |-> "none"]
    /\ plan = <<>>
    /\ at = "idle"
    /\ sem = <<>>
    /\ fusion = NoFusion
    /\ found = <<>>
    /\ answer = NoAnswer

Next ==
    \/ Ask \/ Embed \/ SemanticSearch \/ HybridSemantic \/ HybridKeyword
    \/ KeywordOnly \/ Finish
    \/ UpsertBatch
    \/ \E c \in Volatile : Delete(c) \/ DeleteByDocument(c.document)

Spec == Init /\ [][Next]_vars

------------------------------------------------------------------------------
\* The source types a question is about.
AskedSources(q, i) ==
    CASE q.tool = "latest" -> {"bnm"}
      [] q.tool = "fatwa" -> ToSet(StatesOf(q))
      [] q.tool = "compare" ->
           IF SourcesOf(q)[i] = "fatwa" THEN ToSet(FatwaStates) ELSE {SourcesOf(q)[i]}
      [] q.tool = "direct" -> {c.source : c \in Known}
      [] OTHER -> {q.tool}

\* A chunk that may be in the i-th list, with fused results or without.
Fits(c, q, i, fused) ==
    /\ c.source \in AskedSources(q, i)
    /\ q.tool \in {"bnm", "aaoifi", "sc", "iifa", "fatwa"} =>
         Categories(q) \in {{}, {c.category}}
    /\ q.tool = "latest" => c.category \in {"circulars", "policy_documents"}
    /\ ~fused /\ q.tool \in {"bnm", "sc"} => InDates(c, q)
    /\ ~fused /\ q.tool = "latest" => c.age <= 365
    /\ ~fused /\ q.tool \in {"aaoifi", "iifa"} =>
         q.standard \in {NotGiven, c.standard}

(***************************************************************************)
(* An answer has chunks of the sources and the category asked for only,    *)
(* and each list at most as many as asked for, whichever search found      *)
(* them and whatever failed.  Of the dates and the standard number that    *)
(* holds only where no keyword search takes part: it is not given them.    *)
(***************************************************************************)
AnswersTheQuestion ==
    at = "done" =>
        \A i \in DOMAIN answer.lists :
            /\ question.tool # "direct" =>
                 Len(answer.lists[i]) <= LimitOf(question)
            /\ \A item \in ToSet(answer.lists[i]) : Fits(item.chunk, question, i, hybrid)

Position(list, c) == IF c \in ToSet(list) THEN Rank(list, c) ELSE Len(list) + 1

\* b is nowhere behind a, and somewhere before it.
Beats(b, a) ==
    /\ Position(fusion.sem, b) <= Position(fusion.sem, a)
    /\ Position(fusion.kw, b) <= Position(fusion.kw, a)
    /\ \/ Position(fusion.sem, b) < Position(fusion.sem, a)
       \/ Position(fusion.kw, b) < Position(fusion.kw, a)

(***************************************************************************)
(* A fusion loses nothing it has room for, has nothing twice though both   *)
(* searches find it, and puts no chunk behind one that it beats in the     *)
(* rankings: with one search down it is the other one's ranking.           *)
(***************************************************************************)
FusionKeepsOrder ==
    LET all == ToSet(fusion.sem) \cup ToSet(fusion.kw)
        fused == fusion.fused
    IN  /\ IsInjective(fused)
        /\ ToSet(fused) \subseteq all
        /\ Len(fused) = (IF fusion.topK < Cardinality(all) THEN fusion.topK
                         ELSE Cardinality(all))
        /\ \A i \in DOMAIN fused, b \in all :
              Beats(b, fused[i]) => \E j \in 1 .. i - 1 : fused[j] = b

(***************************************************************************)
(* Nothing that was found is left out for less: of the chunks of all the   *)
(* states the most similar ones are kept, and only a full list leaves any  *)
(* out.  compare_standards fails exactly when nothing was found or it was  *)
(* asked for nothing it can compare.                                       *)
(***************************************************************************)
NothingBetterLeftOut ==
    at = "done" =>
        /\ \A i \in DOMAIN answer.lists :
              LET kept == ToSet(answer.lists[i])
              IN  /\ kept \subseteq ToSet(found[i])
                  /\ ToSet(found[i]) # kept =>
                       Len(answer.lists[i]) = LimitOf(question)
                  /\ \A x \in ToSet(found[i]) \ kept, y \in kept :
                        ~Less(y.similarity, x.similarity)
        /\ answer.failed <=> \/ Refused(question)
                             \/ /\ question.tool = "compare"
                                /\ \A i \in DOMAIN answer.lists :
                                      answer.lists[i] = <<>>
===============================================================================
