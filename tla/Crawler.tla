------------------------------- MODULE Crawler -------------------------------
(***************************************************************************)
(* The site crawlers of internal/crawler: BNM, SC, IIFA and the fatwa      *)
(* portals.  A crawl is a loop of one goroutine over pages; every page is  *)
(* one rate-limited exchange that is retried, and the loop reads the       *)
(* context between pages.  The same exchange downloads the PDFs, then from *)
(* several goroutines at once: `call' holds one per goroutine.             *)
(*                                                                         *)
(* Bodies are abstracted to what the callers read from them: the document  *)
(* links of a page, the resolution links and the "next" mark of a listing. *)
(* Delays are left out: a backoff ends at any moment.                      *)
(***************************************************************************)
EXTENDS SequenceEntries, SequencesExt

CONSTANTS
    Main,         \* the goroutine that runs the command
    Workers,      \* the goroutines it starts
    BnmPages,     \* the target pages of each site, sequences of URLs
    ScPages,
    Portals,      \* the fatwa states to process; NoPortal: one without URL
    NoPortal,
    Resolutions,  \* URLs of the IIFA resolution pages
    Links,        \* URLs of PDF documents
    LocalFiles,   \* PDFs on the local disk
    Base,         \* the last path element of each link and local file
    PageLinks,    \* the link sequences a page may have
    Listings,     \* the resolution-link sequences a listing may have
    ListingPages, \* URLs of the listing pages, up to the "Safety limit"
    MaxRetries    \* attempts after the first

ASSUME CrawlerAssumption ==
    /\ Main \notin Workers /\ IsFiniteSet(Workers)
    /\ MaxRetries \in Nat
    \* The target pages are fixed lists of different URLs (GetTargetPages).
    /\ \A s \in {BnmPages, ScPages} : s \in Seq(Range(s)) /\ IsInjective(s)
    /\ DOMAIN Base = Links \cup LocalFiles
    /\ Links \cap LocalFiles = {}
    /\ \A s \in Listings : IsInjective(s) /\ s \in Seq(Resolutions)
    /\ \A s \in PageLinks : IsInjective(s) /\ s \in Seq(Links)
    /\ IsFiniteSet(LocalFiles) /\ IsFiniteSet(Portals)
    /\ ListingPages \in Seq(Range(ListingPages))

VARIABLES
    crawl,     \* the crawl in progress: its kind and control point
    session,   \* CrawlState
    docs,      \* the documents the crawl has gathered
    call,      \* the HTTP exchange of each goroutine
    cancelled  \* the context of the command

crawlVars == <<crawl, session, docs, call, cancelled>>

Procs == {Main} \cup Workers
MaxListings == Len(ListingPages)
Urls == Range(BnmPages) \cup Range(ScPages) \cup Portals \cup Resolutions
        \cup Range(ListingPages) \cup Links \cup LocalFiles

NoCall == [at |-> "idle", url |-> "none", attempt |-> 0]
CallTypes == [at : {"idle", "limiter", "get", "backoff", "got", "failed"},
              url : Urls \cup {"none"}, attempt : 0 .. MaxRetries]

------------------------------------------------------------------------------
(* The exchange: DownloadPDF, fetchWithRetry, fetch.                        *)

\* Where a crawl waits for the exchange of a page.
PageStages == {"page", "listing", "resolution"}

Dial(p, u) == [call EXCEPT ![p] = [at |-> "limiter", url |-> u, attempt |-> 0]]
HangUp(p) == [call EXCEPT ![p] = NoCall]
Got(p) == call[p].at = "got"
Failed(p) == call[p].at = "failed"

\* rateLimiter.Wait(ctx) fails at once when the context is done.
WaitForToken(p) ==
    /\ call[p].at = "limiter"
    /\ call' = [call EXCEPT ![p].at = IF cancelled THEN "failed" ELSE "get"]
    /\ UNCHANGED <<crawl, session, docs, cancelled>>

\* One attempt ends: with a body, or with an error after which the loop
\* backs off unless it was the last attempt.
Answer(p) ==
    /\ call[p].at = "get"
    /\ \/ call' = [call EXCEPT ![p].at = "got"]
       \/ /\ call[p].attempt < MaxRetries
          /\ call' = [call EXCEPT ![p].at = "backoff"]
       \/ /\ call[p].attempt = MaxRetries
          /\ call' = [call EXCEPT ![p].at = "failed"]
    /\ UNCHANGED <<crawl, session, docs, cancelled>>

\* The select between the context and the delay; a retry takes no token.
Backoff(p) ==
    /\ call[p].at = "backoff"
    /\ IF cancelled
       THEN call' = [call EXCEPT ![p].at = "failed"]
       ELSE call' = [call EXCEPT ![p].at = "get", ![p].attempt = @ + 1]
    /\ UNCHANGED <<crawl, session, docs, cancelled>>

Exchange(p) == WaitForToken(p) \/ Answer(p) \/ Backoff(p)

\* Every crawler has a copy of the exchange for its own pages; all the rest
\* goes through the BNM crawler's.
PageExchange(kind) == crawl.kind = kind /\ crawl.at \in PageStages
SCFetchWithRetry == PageExchange("sc") /\ Exchange(Main)
IIFAFetchWithRetry == PageExchange("iifa") /\ Exchange(Main)
FatwaFetchWithRetry == PageExchange("fatwa") /\ Exchange(Main)
BNMFetchWithRetry(p) ==
    /\ p = Main => \A kind \in {"sc", "iifa", "fatwa"} : ~PageExchange(kind)
    /\ Exchange(p)

------------------------------------------------------------------------------
(* CrawlState.                                                              *)

NoSession == [source |-> "none", status |-> "none", processed |-> {},
              errors |-> 0, successes |-> 0]
InitState(source) == [NoSession EXCEPT !.source = source, !.status = "running"]
CompleteState(s) == [s EXCEPT !.status = "completed"]
IsProcessed(u) == u \in session.processed
\* Mutant: crawled pages are not remembered.
MarkNothing(s, u) == s

MarkProcessed(s, u) == [s EXCEPT !.processed = @ \cup {u}]
IncrementError(s) == [s EXCEPT !.errors = @ + 1]
IncrementSuccess(s) == [s EXCEPT !.successes = @ + 1]

Document(u, pdfs, text) == [url |-> u, pdfs |-> pdfs, text |-> text]

\* What the pages and files of a crawl may hold; every extractor drops the
\* links it has seen.  A links file that cannot be read counts as empty.
ExtractPDFLinks == PageLinks
ExtractSCDocumentLinks == PageLinks
ExtractResolutionLinks == Listings
ReadLinksFile == PageLinks \cup {<<>>}
ScanForPDFs == {SetToSeq(F) : F \in SUBSET LocalFiles}

\* What a crawl returns: crawl.at = "returned" with its error in crawl.err.
Return(err, s) ==
    /\ crawl' = [crawl EXCEPT !.at = "returned", !.err = err]
    /\ session' = CompleteState(s)
    /\ UNCHANGED call

------------------------------------------------------------------------------
(* Crawls of a fixed list of pages: BNM and SC.                             *)

StartCrawl(kind, source, pages) ==
    /\ crawl' = [kind |-> kind, at |-> "loop", todo |-> pages, page |-> 1,
                 more |-> FALSE, err |-> FALSE]
    /\ session' = InitState(source)
    /\ docs' = <<>>
    /\ UNCHANGED <<call, cancelled>>

StartBNM == StartCrawl("bnm", "bnm", BnmPages)
StartSC == StartCrawl("sc", "sc", ScPages)

\* The head of the loop: the context, then the next page.
NextTarget ==
    /\ crawl.at = "loop"
    /\ \/ /\ cancelled \/ crawl.todo = <<>>
          /\ Return(cancelled /\ crawl.todo # <<>>, session)
       \/ /\ ~cancelled
          /\ crawl.todo # <<>>
          /\ IF IsProcessed(Head(crawl.todo))
             THEN /\ crawl' = [crawl EXCEPT !.todo = Tail(@)]
                  /\ UNCHANGED call
             ELSE /\ call' = Dial(Main, Head(crawl.todo))
                  /\ crawl' = [crawl EXCEPT !.at = "page"]
          /\ UNCHANGED session
    /\ UNCHANGED <<docs, cancelled>>

\* CrawlPage: the page becomes one document with its links.
PageCrawled(Extracted) ==
    /\ crawl.at = "page"
    /\ Got(Main)
    /\ \E pdfs \in Extracted, text \in BOOLEAN :
          docs' = Append(docs, Document(Head(crawl.todo), pdfs, text))
    /\ session' = IncrementSuccess(MarkProcessed(session, Head(crawl.todo)))
    /\ crawl' = [crawl EXCEPT !.at = "loop", !.todo = Tail(@)]
    /\ call' = HangUp(Main)
    /\ UNCHANGED cancelled

\* Mutant: the page that failed is not counted.
PageFailedUncounted ==
    /\ crawl.at = "page"
    /\ Failed(Main)
    /\ crawl' = [crawl EXCEPT !.at = "loop", !.todo = Tail(@)]
    /\ call' = HangUp(Main)
    /\ UNCHANGED <<session, docs, cancelled>>

\* An error is counted and the loop goes on with the next page.
PageFailed ==
    /\ crawl.at = "page"
    /\ Failed(Main)
    /\ session' = IncrementError(session)
    /\ crawl' = [crawl EXCEPT !.at = "loop", !.todo = Tail(@)]
    /\ call' = HangUp(Main)
    /\ UNCHANGED <<docs, cancelled>>

BNMCrawl == crawl.kind = "bnm" /\ NextTarget
BNMCrawlPage ==
    crawl.kind = "bnm" /\ (PageCrawled(ExtractPDFLinks) \/ PageFailed)
SCCrawl == crawl.kind = "sc" /\ NextTarget
SCCrawlPage ==
    crawl.kind = "sc" /\ (PageCrawled(ExtractSCDocumentLinks) \/ PageFailed)

------------------------------------------------------------------------------
(* A fatwa portal: one page, whose error the crawl returns.                 *)

StartFatwa(portal) == StartCrawl("fatwa", "fatwa", <<portal>>)

FatwaCrawl ==
    /\ crawl.kind = "fatwa"
    /\ crawl.at = "loop"
    /\ call' = Dial(Main, Head(crawl.todo))
    /\ crawl' = [crawl EXCEPT !.at = "page"]
    /\ UNCHANGED <<session, docs, cancelled>>

FatwaCrawlPage ==
    /\ crawl.kind = "fatwa"
    /\ crawl.at = "page"
    /\ \/ /\ Got(Main)
          /\ \E pdfs \in ExtractPDFLinks :
                docs' = <<Document(Head(crawl.todo), pdfs, TRUE)>>
          /\ session' = CompleteState(IncrementSuccess(
                           MarkProcessed(session, Head(crawl.todo))))
          /\ crawl' = [crawl EXCEPT !.at = "returned"]
       \/ /\ Failed(Main)
          /\ session' = CompleteState(IncrementError(session))
          /\ crawl' = [crawl EXCEPT !.at = "returned", !.err = TRUE]
          /\ UNCHANGED docs
    /\ call' = HangUp(Main)
    /\ UNCHANGED cancelled

------------------------------------------------------------------------------
(* IIFA: a paged listing whose links are crawled one by one.  A resolution  *)
(* listed on two pages is crawled once.                                     *)

StartIIFA == StartCrawl("iifa", "iifa", <<>>)

\* The head of the outer loop fetches the listing page.
IIFAListing ==
    /\ crawl.kind = "iifa"
    /\ crawl.at = "loop"
    /\ IF cancelled \/ crawl.page > MaxListings
       THEN Return(cancelled /\ crawl.page <= MaxListings, session)
       ELSE /\ call' = Dial(Main, ListingPages[crawl.page])
            /\ crawl' = [crawl EXCEPT !.at = "listing"]
            /\ UNCHANGED session
    /\ UNCHANGED <<docs, cancelled>>

\* extractResolutionLinks: no links or an error ends the crawl.
IIFAExtractLinks ==
    /\ crawl.kind = "iifa"
    /\ crawl.at = "listing"
    /\ \/ /\ Got(Main)
          /\ \E links \in ExtractResolutionLinks, more \in BOOLEAN :
                IF links = <<>>
                THEN /\ crawl' = [crawl EXCEPT !.at = "returned"]
                     /\ session' = CompleteState(session)
                ELSE /\ crawl' = [crawl EXCEPT !.at = "links",
                                               !.todo = links, !.more = more]
                     /\ UNCHANGED session
       \/ /\ Failed(Main)
          /\ crawl' = [crawl EXCEPT !.at = "returned"]
          /\ session' = CompleteState(IncrementError(session))
    /\ call' = HangUp(Main)
    /\ UNCHANGED <<docs, cancelled>>

\* Mutant: the page number is not advanced.
IIFANextLinkSamePage ==
    /\ crawl.kind = "iifa"
    /\ crawl.at = "links"
    /\ IF crawl.todo = <<>>
       THEN IF crawl.more
            THEN /\ crawl' = [crawl EXCEPT !.at = "loop"]
                 /\ UNCHANGED <<session, call>>
            ELSE Return(FALSE, session)
       ELSE /\ crawl' = [crawl EXCEPT !.todo = Tail(@)]
            /\ UNCHANGED <<session, call>>
    /\ UNCHANGED <<docs, cancelled>>

\* The inner loop: the context, then pages not crawled before.
IIFANextLink ==
    /\ crawl.kind = "iifa"
    /\ crawl.at = "links"
    /\ \/ /\ crawl.todo = <<>>
          /\ IF crawl.more
             THEN /\ crawl' = [crawl EXCEPT !.at = "loop", !.page = @ + 1]
                  /\ UNCHANGED <<session, call>>
             ELSE Return(FALSE, session)
       \/ /\ crawl.todo # <<>>
          /\ cancelled
          /\ Return(TRUE, session)
       \/ /\ crawl.todo # <<>>
          /\ ~cancelled
          /\ IF IsProcessed(Head(crawl.todo))
             THEN /\ crawl' = [crawl EXCEPT !.todo = Tail(@)]
                  /\ UNCHANGED call
             ELSE /\ call' = Dial(Main, Head(crawl.todo))
                  /\ crawl' = [crawl EXCEPT !.at = "resolution"]
          /\ UNCHANGED session
    /\ UNCHANGED <<docs, cancelled>>

IIFAResolution ==
    /\ crawl.kind = "iifa"
    /\ crawl.at = "resolution"
    /\ \/ /\ Got(Main)
          /\ \E pdfs \in ExtractPDFLinks :
                docs' = Append(docs, Document(Head(crawl.todo), pdfs, TRUE))
          /\ session' = IncrementSuccess(MarkProcessed(session, Head(crawl.todo)))
       \/ /\ Failed(Main)
          /\ session' = IncrementError(session)
          /\ UNCHANGED docs
    /\ crawl' = [crawl EXCEPT !.at = "links", !.todo = Tail(@)]
    /\ call' = HangUp(Main)
    /\ UNCHANGED cancelled

------------------------------------------------------------------------------
(* BNM policy documents: a browser filters a table and clicks through its   *)
(* pages.  An error after the first load ends the loop, not the crawl.      *)

StartPolicy == StartCrawl("policy", "bnm-policy", <<>>)

\* deduplicateDocuments: by link, first occurrence first.
Deduplicate(links) ==
    Entries(links, {i \in DOMAIN links : \A j \in 1 .. i - 1 : links[j] # links[i]})

PolicyLoad ==
    /\ crawl.kind = "policy"
    /\ crawl.at = "loop"
    /\ \/ Return(TRUE, session)
       \/ /\ ~cancelled
          /\ crawl' = [crawl EXCEPT !.at = "table"]
          /\ UNCHANGED <<session, call>>
    /\ UNCHANGED <<docs, cancelled>>

\* One table page: its links, a click on the next page or the end.
PolicyTable ==
    /\ crawl.kind = "policy"
    /\ crawl.at = "table"
    /\ \/ /\ ~cancelled
          /\ \E links \in PageLinks :
                /\ crawl' = [crawl EXCEPT !.todo = @ \o links,
                                !.page = @ + 1,
                                !.at = IF crawl.page < MaxListings
                                       THEN "table" ELSE "tabled"]
       \/ crawl' = [crawl EXCEPT !.at = "tabled"]
    /\ UNCHANGED <<session, call, docs, cancelled>>

PolicyReturn ==
    /\ crawl.kind = "policy"
    /\ crawl.at = "tabled"
    /\ docs' = [i \in DOMAIN Deduplicate(crawl.todo) |->
                  Document(ListingPages[1], <<Deduplicate(crawl.todo)[i]>>, FALSE)]
    /\ Return(FALSE, session)
    /\ UNCHANGED cancelled

------------------------------------------------------------------------------
(* CrawlWithRScript: a child process downloads files and lists links; links *)
(* whose file name was not downloaded become documents too.                 *)

ScriptDocuments(files, links) ==
    LET names == {Base[f] : f \in Range(files)}
    IN  [i \in DOMAIN files |-> Document(ListingPages[1], <<files[i]>>, FALSE)]
        \o LET rest == Entries(links, {i \in DOMAIN links : Base[links[i]] \notin names})
           IN  [i \in DOMAIN rest |-> Document(rest[i], <<rest[i]>>, FALSE)]

StartScript(site) == StartCrawl("script", site, <<>>)

\* Mutant: the script is not bound to the context.
ScriptFailsByItself ==
    /\ crawl.kind = "script"
    /\ crawl.at = "loop"
    /\ IF cancelled THEN UNCHANGED <<crawl, session, call>>
       ELSE Return(TRUE, session)
    /\ UNCHANGED <<docs, cancelled>>

\* cmd.Run of a command whose context is done fails; the script may fail.
ScriptFails ==
    /\ crawl.kind = "script"
    /\ crawl.at = "loop"
    /\ Return(TRUE, session)
    /\ UNCHANGED <<docs, cancelled>>

ScriptEnds(source, LinkFiles) ==
    /\ crawl.kind = "script"
    /\ crawl.at = "loop"
    /\ session.source = source
    /\ ~cancelled
    /\ \E files \in ScanForPDFs, links \in LinkFiles :
          docs' = ScriptDocuments(files, links)
    /\ Return(FALSE, session)
    /\ UNCHANGED cancelled

BNMScript == ScriptEnds("bnm-rscript", ReadLinksFile)
SCScript == ScriptEnds("sc-rscript", ReadLinksFile)

\* The IIFA script leaves a second file with the links to PDFs.
ReadTwoLinksFiles == {l \o m : l \in ReadLinksFile, m \in ReadLinksFile}
IIFAScript == ScriptEnds("iifa-rscript", ReadTwoLinksFiles)

------------------------------------------------------------------------------
CrawlStep ==
    \/ BNMCrawl \/ BNMCrawlPage \/ SCCrawl \/ SCCrawlPage
    \/ FatwaCrawl \/ FatwaCrawlPage
    \/ IIFAListing \/ IIFAExtractLinks \/ IIFANextLink \/ IIFAResolution
    \/ PolicyLoad \/ PolicyTable \/ PolicyReturn
    \/ ScriptFails \/ BNMScript \/ SCScript \/ IIFAScript

CrawlInit ==
    /\ crawl = [kind |-> "none", at |-> "none", todo |-> <<>>, page |-> 1,
                more |-> FALSE, err |-> FALSE]
    /\ session = NoSession
    /\ docs = <<>>
    /\ call = [p \in Procs |-> NoCall]
    /\ cancelled = FALSE

CrawlTypeOK ==
    /\ crawl.at \in {"none", "loop", "page", "listing", "links", "resolution",
                     "table", "tabled", "returned"}
    /\ session.status \in {"none", "running", "completed"}
    /\ session.processed \subseteq Urls
    /\ call \in [Procs -> CallTypes]
    /\ cancelled \in BOOLEAN

(***************************************************************************)
(* No page is crawled twice in a session: the documents of a site crawl    *)
(* come from different URLs, though IIFA's listing pages may overlap.      *)
(***************************************************************************)
PagesOnce ==
    crawl.kind \in {"bnm", "sc", "iifa", "fatwa"} =>
        IsInjective([i \in DOMAIN docs |-> docs[i].url])

(***************************************************************************)
(* A crawl accounts for every page it was given: when it returns without   *)
(* an error every target has been counted, once, as a success or as an     *)
(* error, and the successes are the documents.                             *)
(***************************************************************************)
EveryTargetCounted ==
    /\ session.status # "none" /\ crawl.kind \in {"bnm", "sc", "iifa", "fatwa"}
          => session.successes = Len(docs)
    /\ crawl.at = "returned" /\ ~crawl.err /\ crawl.kind \in {"bnm", "sc"}
          => session.successes + session.errors
               = Len(IF crawl.kind = "bnm" THEN BnmPages ELSE ScPages)
==============================================================================
