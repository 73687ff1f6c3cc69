-------------------------------- MODULE Ingest --------------------------------
(***************************************************************************)
(* The ingest command of cmd/crawler: one goroutine crawls a source, then  *)
(* downloads, splits, chunks and embeds every document it found, and       *)
(* prints the statistics; local AAOIFI files are processed by several      *)
(* goroutines.  An interrupt cancels the context at any moment.            *)
(*                                                                         *)
(* A document is its number of pages; every page yields one chunk, and the *)
(* chunks of a document are embedded in one batch.                         *)
(***************************************************************************)
EXTENDS StoreBatch

CONSTANTS
    Commands,     \* the commands to run: records of `Command'
    Files,        \* the files of an input directory, a sequence
    PageCounts,   \* how many pages a PDF may have
    EmbedRetries, \* attempts of an embedding call after the first
    BrowserModes  \* BNMCrawlerConfig.UseBrowser

ASSUME IngestAssumption ==
    /\ Len(Files) <= Cardinality(Workers)
    /\ Files \in Seq(LocalFiles)
    /\ PageCounts \subseteq Nat
    /\ EmbedRetries \in Nat
    /\ BrowserModes \subseteq BOOLEAN

VARIABLES
    cmd,      \* the command, fixed
    browser,  \* whether BNM exchanges go through the browser, fixed
    pc,       \* control point of the command
    queue,    \* documents (or portals) still to process
    current,  \* the document being processed
    job,      \* the PDF each goroutine processes
    stats,    \* IngestionStats
    printed,  \* printStats has run
    result    \* how the command ended

ingestVars == <<cmd, browser, pc, queue, current, job, stats, printed, result>>
vars == <<crawlVars, batchVars, ingestVars>>

------------------------------------------------------------------------------
(* Options and dispatch.                                                    *)

\* "process" stands for the process command, which takes one file.
Sources == {"", "bnm", "aaoifi", "sc", "iifa", "fatwa", "process"}
Command == [source : Sources, input : BOOLEAN, url : BOOLEAN,
            policy : BOOLEAN, script : BOOLEAN, embed : BOOLEAN,
            dryRun : BOOLEAN]

\* IngestSource; a BNM directory comes before the category.
SourceHandler(c) ==
    IF c.source # "bnm" THEN c.source
    ELSE IF c.input THEN "directory"
    ELSE IF c.policy THEN "policy" ELSE "bnm"

\* A source comes before a file, a file before a URL (runIngest).
Handler(c) ==
    IF c.source # "" THEN SourceHandler(c)
    ELSE IF c.input THEN "file"
    ELSE IF c.url THEN "url" ELSE "nothing"

Stats == [found |-> 0, processed |-> 0, downloaded |-> 0, pages |-> 0,
          chunks |-> 0, embeddings |-> 0, errors |-> 0]
Count(s, field, n) == [s EXCEPT ![field] = @ + n]

NoJob == [at |-> "none", link |-> "none", how |-> "none", total |-> 0,
          pages |-> <<>>, attempt |-> 0]
NewJob(at, link, how) ==
    [NoJob EXCEPT !.at = at, !.link = link, !.how = how]
NoDocument == Document("none", <<>>, FALSE)

Running == result = "running"
End(r) == result' = r /\ pc' = "ended"

\* printStats comes last: the command then returns.
PrintStats ==
    /\ printed' = TRUE
    /\ pc' = "printed"
    /\ UNCHANGED result

------------------------------------------------------------------------------
(* One PDF: processPDFFromURL, ...FromURLWithSource, ...FromFileWithSource, *)
(* IngestFile, IngestURL and the body of processFilesParallel.              *)

JobUnchanged == UNCHANGED <<cmd, browser, pc, queue, current, printed, result,
                            batchVars>>
JobOver(p) == job[p].at \in {"done", "failed"}
Fail(p) == job' = [job EXCEPT ![p].at = "failed"]

\* The download of DownloadPDF is over.
AfterDownload(p, how) ==
    /\ job[p].at = "fetch"
    /\ job[p].how = how
    /\ call' = HangUp(p)
    /\ JobUnchanged
    /\ UNCHANGED <<crawl, session, docs, cancelled>>

\* What a browser returns is the markup of a page: not valid PDF bytes.
ProcessPDFFromURL(p) ==
    /\ AfterDownload(p, "url")
    /\ \/ (Failed(p) \/ Got(p)) /\ Fail(p)
       \/ Got(p) /\ ~browser /\ job' = [job EXCEPT ![p].at = "open"]
    /\ UNCHANGED stats

ProcessPDFFromURLWithSource(p) ==
    /\ AfterDownload(p, "source")
    /\ \/ Failed(p) /\ Fail(p)
       \/ Got(p) /\ job' = [job EXCEPT ![p].at = "open"]
    /\ UNCHANGED stats

IngestURLDownloaded(p) ==
    /\ AfterDownload(p, "ingestURL")
    /\ \/ Failed(p) /\ Fail(p) /\ UNCHANGED stats
       \/ /\ Got(p)
          /\ job' = [job EXCEPT ![p].at = "open"]
          /\ stats' = Count(stats, "downloaded", 1)

\* ProcessPDF: the file opens, or is not a document.
OpenPDF(p) ==
    /\ job[p].at = "open"
    /\ \/ Fail(p)
       \/ \E n \in PageCounts :
             job' = [job EXCEPT ![p].at = "pages", ![p].total = n]
    /\ JobUnchanged
    /\ UNCHANGED <<crawlVars, stats>>

\* processPages: page by page, reading the context before each; a page that
\* fails keeps its place, with number 0.  The whole document is then chunked.
ProcessPage(p) ==
    /\ job[p].at = "pages"
    /\ Len(job[p].pages) < job[p].total
    /\ \/ cancelled /\ Fail(p)
       \/ /\ ~cancelled
          /\ \E number \in {0, Len(job[p].pages) + 1} :
                job' = [job EXCEPT ![p].pages = Append(@, number)]
    /\ JobUnchanged
    /\ UNCHANGED <<crawlVars, stats>>

ChunkDocument(p) ==
    /\ job[p].at = "pages"
    /\ Len(job[p].pages) = job[p].total
    /\ stats' = Count(Count(stats, "pages", job[p].total),
                      "chunks", Len(job[p].pages))
    /\ job' = [job EXCEPT ![p].at =
                 IF cmd.embed THEN "embed"
                 ELSE IF job[p].how \in {"ingestFile", "ingestURL"}
                      THEN "save" ELSE "done"]
    /\ JobUnchanged
    /\ UNCHANGED crawlVars

\* generateEmbeddings: one batch, retried; its failure is logged and no more.
\* The callers with a source count the embeddings a second time.
AfterEmbedding(p) ==
    IF job[p].how \in {"ingestFile", "ingestURL"} THEN "save" ELSE "done"
CountedTwice == {"source", "file"}

Embedded(p) ==
    /\ job[p].at = "embed"
    /\ job' = [job EXCEPT ![p].at = AfterEmbedding(p)]
    /\ stats' = Count(stats, "embeddings",
                      (IF job[p].how \in CountedTwice THEN 2 ELSE 1)
                      * Len(job[p].pages))
    /\ JobUnchanged
    /\ UNCHANGED crawlVars

EmbedRetry(p) ==
    /\ job[p].at = "embed"
    /\ ~cancelled
    /\ job[p].attempt < EmbedRetries
    /\ job' = [job EXCEPT ![p].attempt = @ + 1]
    /\ JobUnchanged
    /\ UNCHANGED <<crawlVars, stats>>

EmbedGivesUp(p) ==
    /\ job[p].at = "embed"
    /\ cancelled \/ job[p].attempt = EmbedRetries
    /\ job' = [job EXCEPT ![p].at = AfterEmbedding(p)]
    /\ JobUnchanged
    /\ UNCHANGED <<crawlVars, stats>>

\* saveResults, unless a dry run.
SaveResults(p) ==
    /\ job[p].at = "save"
    /\ \/ job' = [job EXCEPT ![p].at = "done"]
       \/ ~cmd.dryRun /\ Fail(p)
    /\ JobUnchanged
    /\ UNCHANGED <<crawlVars, stats>>

JobStep(p) ==
    \/ ProcessPDFFromURL(p) \/ ProcessPDFFromURLWithSource(p)
    \/ IngestURLDownloaded(p)
    \/ OpenPDF(p) \/ ProcessPage(p) \/ ChunkDocument(p)
    \/ Embedded(p) \/ EmbedRetry(p) \/ EmbedGivesUp(p) \/ SaveResults(p)

------------------------------------------------------------------------------
(* The sources.                                                             *)

\* Everything a driver step leaves alone unless it says otherwise.
Fixed == UNCHANGED <<cmd, browser, batchVars>>

\* The start of a command, by its handler.
Starts(h) ==
    /\ pc = "start"
    /\ Handler(cmd) = h
    /\ Fixed /\ UNCHANGED <<current, printed>>

StartNothing ==
    /\ Starts("nothing")
    /\ End("error")
    /\ UNCHANGED <<crawlVars, queue, job, stats>>

\* A source that is crawled, by its Go crawler or by its R script.
StartCrawling(h, ByGo, ByScript) ==
    /\ Starts(h)
    /\ pc' = "crawl"
    /\ IF cmd.script /\ h # "bnm" THEN ByScript ELSE ByGo
    /\ UNCHANGED <<queue, job, stats, result>>

IngestBNM == StartCrawling("bnm", StartBNM, StartBNM)
IngestPolicy == StartCrawling("policy", StartPolicy, StartScript("bnm-rscript"))
IngestSC == StartCrawling("sc", StartSC, StartScript("sc-rscript"))
IngestIIFA == StartCrawling("iifa", StartIIFA, StartScript("iifa-rscript"))

\* Local directories: an empty one is an error.
StartDirectory(h, at) ==
    /\ Starts(h)
    /\ IF Files = <<>> THEN End("error") ELSE pc' = at /\ UNCHANGED result
    /\ queue' = [i \in DOMAIN Files |->
                   Document(Files[i], <<Files[i]>>, FALSE)]
    /\ stats' = Count(stats, "found", Len(Files))
    /\ UNCHANGED <<crawlVars, job>>

IngestDirectory == StartDirectory("directory", "docs")
IngestAAOIFI == StartDirectory("aaoifi", "spawn")

IngestFile ==
    /\ Starts("file") \/ Starts("process")
    /\ pc' = "single"
    /\ job' = [job EXCEPT ![Main] = NewJob("open", Files[1], "ingestFile")]
    /\ UNCHANGED <<crawlVars, queue, stats, result>>

IngestURL ==
    /\ Starts("url")
    /\ pc' = "single"
    /\ \E u \in Links :
          /\ job' = [job EXCEPT ![Main] = NewJob("fetch", u, "ingestURL")]
          /\ call' = Dial(Main, u)
    /\ UNCHANGED <<crawl, session, docs, cancelled, queue, stats, result>>

\* A crawl has returned: its error ends the command, its documents are found.
\* The policy source ends here when there are none, with nothing printed.
Crawled ==
    /\ pc = "crawl"
    /\ crawl.at = "returned"
    /\ IF crawl.err
       THEN End("error") /\ UNCHANGED <<queue, stats>>
       ELSE /\ queue' = docs
            /\ stats' = Count(stats, "found", Len(docs))
            /\ IF Handler(cmd) = "policy" /\ docs = <<>>
               THEN End("ok")
               ELSE pc' = "docs" /\ UNCHANGED result
    /\ Fixed /\ UNCHANGED <<crawlVars, current, job, printed>>

\* The loop over documents reads the context before each of them.
NextDocument ==
    /\ pc = "docs"
    /\ \/ /\ queue = <<>>
          /\ PrintStats
          /\ UNCHANGED <<queue, current>>
       \/ /\ queue # <<>>
          /\ cancelled
          /\ End("error")
          /\ UNCHANGED <<queue, current, printed>>
       \/ /\ queue # <<>>
          /\ ~cancelled
          /\ current' = Head(queue)
          /\ queue' = Tail(queue)
          /\ pc' = "links"
          /\ UNCHANGED <<result, printed>>
    /\ Fixed /\ UNCHANGED <<crawlVars, job, stats>>

\* The next PDF of a document.  Only the policy and directory sources read a
\* local file from the disk; the others download whatever the link is.
Local(l) == l \in LocalFiles
ReadsDisk == Handler(cmd) \in {"policy", "directory"}

NextLink ==
    /\ pc = "links"
    /\ current.pdfs # <<>>
    /\ LET l == Head(current.pdfs)
       IN  IF ReadsDisk /\ Local(l)
           THEN /\ job' = [job EXCEPT ![Main] = NewJob("open", l, "file")]
                /\ UNCHANGED call
           ELSE /\ job' = [job EXCEPT ![Main] =
                     NewJob("fetch", l,
                            IF Handler(cmd) = "bnm" THEN "url" ELSE "source")]
                /\ call' = Dial(Main, l)
    /\ current' = [current EXCEPT !.pdfs = Tail(@)]
    /\ pc' = "job"
    /\ Fixed /\ UNCHANGED <<crawl, session, docs, cancelled, queue, stats,
                            printed, result>>

\* Mutant: the loop does not go on with the next link after an error.
LinkDoneFallsThrough ==
    /\ pc = "job"
    /\ JobOver(Main)
    /\ stats' = Count(Count(stats, "downloaded", 1), "errors",
                      IF job[Main].at = "done" THEN 0 ELSE 1)
    /\ job' = [job EXCEPT ![Main] = NoJob]
    /\ pc' = "links"
    /\ Fixed /\ UNCHANGED <<crawlVars, queue, current, printed, result>>

\* An error is counted and the next link tried.
LinkDone ==
    /\ pc = "job"
    /\ JobOver(Main)
    /\ stats' = Count(stats, IF job[Main].at = "done" THEN "downloaded"
                             ELSE "errors", 1)
    /\ job' = [job EXCEPT ![Main] = NoJob]
    /\ pc' = "links"
    /\ Fixed /\ UNCHANGED <<crawlVars, queue, current, printed, result>>

\* A BNM page without links is chunked itself (processHTMLContent).
DocumentDone ==
    /\ pc = "links"
    /\ current.pdfs = <<>>
    /\ LET html == /\ Handler(cmd) = "bnm"
                   /\ current.text
                   /\ \A i \in DOMAIN docs :
                         docs[i].url = current.url => docs[i].pdfs = <<>>
           s == Count(stats, "processed", 1)
       IN  IF ~html THEN stats' = s
           ELSE \E n \in {0, 1} :
                   /\ n = 1 => cmd.embed
                   /\ stats' = Count(Count(s, "chunks", 1), "embeddings", n)
    /\ pc' = IF Handler(cmd) = "fatwa" THEN "portals" ELSE "docs"
    /\ current' = NoDocument
    /\ Fixed /\ UNCHANGED <<crawlVars, queue, job, printed, result>>

\* The loops of the sources, all of the same form.
DocumentLoop(h) ==
    /\ Handler(cmd) = h
    /\ NextDocument \/ NextLink \/ LinkDone \/ DocumentDone

BNMDocuments == DocumentLoop("bnm")
PolicyDocuments == DocumentLoop("policy")
DirectoryDocuments == DocumentLoop("directory")
SCDocuments == DocumentLoop("sc")
IIFADocuments == DocumentLoop("iifa")
FatwaDocuments == DocumentLoop("fatwa")

\* IngestFile and IngestURL: an error ends the command, nothing is printed.
SingleDone ==
    /\ pc = "single"
    /\ JobOver(Main)
    /\ IF job[Main].at = "failed"
       THEN End("error") /\ UNCHANGED <<stats, printed>>
       ELSE PrintStats /\ stats' = Count(stats, "processed", 1)
    /\ Fixed /\ UNCHANGED <<crawlVars, queue, current, job>>

------------------------------------------------------------------------------
(* ingestFatwa: the context is read between portals only, and a crawl that  *)
(* fails is counted.                                                        *)

GetStatesToProcess == SetToSeq(Portals)
HasBaseURL(portal) == portal # NoPortal

IngestFatwa ==
    /\ Starts("fatwa")
    /\ IF Portals = {} THEN End("error") ELSE pc' = "portals" /\ UNCHANGED result
    /\ queue' = GetStatesToProcess
    /\ UNCHANGED <<crawlVars, job, stats>>

NextPortal ==
    /\ pc = "portals"
    /\ \/ /\ queue = <<>>
          /\ PrintStats
          /\ UNCHANGED <<queue, crawlVars>>
       \/ /\ queue # <<>>
          /\ cancelled
          /\ End("error")
          /\ UNCHANGED <<queue, crawlVars, printed>>
       \/ /\ queue # <<>>
          /\ ~cancelled
          /\ queue' = Tail(queue)
          /\ IF HasBaseURL(Head(queue))
             THEN pc' = "portal" /\ StartFatwa(Head(queue))
             ELSE UNCHANGED <<pc, crawlVars>>
          /\ UNCHANGED <<result, printed>>
    /\ Fixed /\ UNCHANGED <<current, job, stats>>

FatwaCrawled ==
    /\ pc = "portal"
    /\ crawl.at = "returned"
    /\ IF crawl.err
       THEN /\ stats' = Count(stats, "errors", 1)
            /\ pc' = "portals"
            /\ UNCHANGED current
       ELSE /\ stats' = Count(stats, "found", Len(docs))
            /\ current' = docs[1]
            /\ pc' = "links"
    /\ Fixed /\ UNCHANGED <<crawlVars, queue, job, printed, result>>

------------------------------------------------------------------------------
(* processFilesParallel: a goroutine per file, a semaphore of opts.Workers. *)

InSlot(p) == job[p].at \notin {"none", "queued", "done", "failed"}

Spawn ==
    /\ pc = "spawn"
    /\ \/ /\ queue = <<>>
          /\ pc' = "wait"
          /\ UNCHANGED <<queue, job, result>>
       \/ /\ queue # <<>>
          /\ cancelled
          /\ End("error")
          /\ UNCHANGED <<queue, job>>
       \/ /\ queue # <<>>
          /\ ~cancelled
          /\ queue' = Tail(queue)
          /\ job' = [job EXCEPT ![Len(Files) - Len(queue) + 1] =
                       NewJob("queued", Head(queue).url, "parallel")]
          /\ UNCHANGED <<pc, result>>
    /\ Fixed /\ UNCHANGED <<crawlVars, current, stats, printed>>

TakeSlot(w) ==
    /\ job[w].at = "queued"
    /\ job[w].how = "parallel"
    /\ Cardinality({p \in Workers : InSlot(p)}) < Parallelism
    /\ job' = [job EXCEPT ![w].at = "open"]
    /\ JobUnchanged
    /\ UNCHANGED <<crawlVars, stats>>

\* The goroutine counts its document and gives its slot back.
FileDone(w) ==
    /\ job[w].how = "parallel"
    /\ JobOver(w)
    /\ stats' = Count(stats, IF job[w].at = "done" THEN "processed"
                             ELSE "errors", 1)
    /\ job' = [job EXCEPT ![w] = NoJob]
    /\ JobUnchanged
    /\ UNCHANGED crawlVars

\* Mutant: the statistics are printed when the last goroutine has started.
WaitForNobody ==
    /\ pc = "wait"
    /\ PrintStats
    /\ Fixed /\ UNCHANGED <<crawlVars, queue, current, job, stats>>

\* wg.Wait, then the statistics.
Wait ==
    /\ pc = "wait"
    /\ \A w \in Workers : job[w] = NoJob
    /\ PrintStats
    /\ Fixed /\ UNCHANGED <<crawlVars, queue, current, job, stats>>

------------------------------------------------------------------------------
\* The process is gone once the command has returned.
ReturnToShell ==
    /\ pc = "printed"
    /\ End("ok")
    /\ Fixed /\ UNCHANGED <<crawlVars, queue, current, job, stats, printed>>

\* The batches have no command: a program that uses the package runs them.
LibraryBatch ==
    /\ pc = "library"
    /\ pc' = "batch"
    /\ \E b \in Batches : StartBatch(b)
    /\ UNCHANGED <<cmd, browser, queue, current, job, stats, printed, result>>

LibraryReturn ==
    /\ pc = "batch"
    /\ BatchOver
    /\ End("ok")
    /\ Fixed /\ UNCHANGED <<crawlVars, queue, current, job, stats, printed>>

\* The handler of runIngest cancels the context once; it stays installed, so
\* a second signal does nothing.  The process command has no handler.
Interrupt ==
    /\ Running
    /\ Handler(cmd) # "process"
    /\ ~cancelled
    /\ cancelled' = TRUE
    /\ UNCHANGED <<crawl, session, docs, call, batchVars, ingestVars>>

Kill ==
    /\ Running
    /\ Handler(cmd) = "process"
    /\ End("killed")
    /\ Fixed /\ UNCHANGED <<crawlVars, queue, current, job, stats, printed>>

Drive ==
    /\ Running
    /\ \/ StartNothing \/ IngestBNM \/ IngestPolicy \/ IngestSC \/ IngestIIFA
       \/ IngestDirectory \/ IngestAAOIFI \/ IngestFile \/ IngestURL
       \/ Crawled \/ SingleDone
       \/ BNMDocuments \/ PolicyDocuments \/ DirectoryDocuments
       \/ SCDocuments \/ IIFADocuments \/ FatwaDocuments
       \/ IngestFatwa \/ NextPortal \/ FatwaCrawled
       \/ Spawn \/ Wait \/ ReturnToShell
       \/ LibraryBatch \/ LibraryReturn
       \/ CrawlStep /\ UNCHANGED <<batchVars, ingestVars>>

Goroutine(p) ==
    /\ Running
    /\ \/ BNMFetchWithRetry(p) /\ UNCHANGED <<batchVars, ingestVars>>
       \/ /\ p = Main
          /\ SCFetchWithRetry \/ IIFAFetchWithRetry \/ FatwaFetchWithRetry
          /\ UNCHANGED <<batchVars, ingestVars>>
       \/ JobStep(p)
       \/ p \in Workers /\ (TakeSlot(p) \/ FileDone(p))
       \/ p \in Workers /\ BatchGoroutine(p) /\ UNCHANGED ingestVars

Over == ~Running /\ UNCHANGED vars

Init ==
    /\ CrawlInit
    /\ BatchInit
    /\ cmd \in Commands
    /\ browser \in (IF Handler(cmd) = "bnm" THEN BrowserModes ELSE {TRUE})
    /\ pc \in {"start"} \cup (IF Handler(cmd) = "nothing" THEN {"library"} ELSE {})
    /\ queue = <<>>
    /\ current = NoDocument
    /\ job = [p \in Procs |-> NoJob]
    /\ stats = Stats
    /\ printed = FALSE
    /\ result = "running"

Next == Interrupt \/ Kill \/ Drive \/ (\E p \in Procs : Goroutine(p)) \/ Over

\* The Go scheduler runs every goroutine; requests and embedding calls have
\* time limits, so they end.  The R script has none: only the cancellation of
\* its context is sure to end it.
ScriptRuns == crawl.kind = "script" /\ crawl.at = "loop" /\ ~cancelled
Fairness ==
    /\ WF_vars(Drive /\ ~ScriptRuns)
    /\ \A p \in Procs : WF_vars(Goroutine(p))

Spec == Init /\ [][Next]_vars /\ Fairness

------------------------------------------------------------------------------
TypeOK ==
    /\ CrawlTypeOK
    /\ BatchTypeOK
    /\ cmd \in Commands
    /\ result \in {"running", "ok", "error", "killed"}
    /\ DOMAIN job = Procs
    /\ \A p \in Procs :
          job[p].at \in {"none", "queued", "fetch", "open", "pages", "embed",
                         "save", "done", "failed"}
    /\ stats \in [DOMAIN Stats -> Nat]

(***************************************************************************)
(* The printed statistics account for all that was found.  A source read   *)
(* document by document has processed every one, and counted every PDF     *)
(* link as a download or as an error; of files processed in parallel each  *)
(* is processed or an error, however the goroutines interleave.  At any    *)
(* time no embedding is counted that has no chunk, except by the functions *)
(* that count after generateEmbeddings has counted: each counts twice.     *)
(***************************************************************************)
StatsAddUp ==
    /\ stats.embeddings <=
          (IF Handler(cmd) \in {"policy", "sc", "iifa", "fatwa", "directory"}
           THEN 2 ELSE 1) * stats.chunks
    /\ printed =>
        LET h == Handler(cmd)
            links == Cardinality(UNION {{i} \X DOMAIN docs[i].pdfs : i \in DOMAIN docs})
        IN  /\ h = "aaoifi" =>
                 stats.processed + stats.errors = stats.found
            /\ h \in {"bnm", "policy", "sc", "iifa", "fatwa", "directory"} =>
                 stats.processed = stats.found
            /\ h \in {"bnm", "policy", "sc", "iifa"} =>
                 stats.downloaded + stats.errors = links
            /\ h = "directory" =>
                 stats.downloaded + stats.errors = stats.found

(***************************************************************************)
(* What printStats prints is final: nothing is still being counted by a    *)
(* goroutine when it runs.                                                 *)
(***************************************************************************)
PrintedIsFinal == [][printed => stats' = stats]_vars

(***************************************************************************)
(* An interrupt ends the command, wherever it finds it: in a listing, in a *)
(* backoff, in a script, with goroutines waiting for a slot.  Without one  *)
(* a command that runs no script ends by itself, though IIFA's listing may *)
(* announce a next page for ever and every request may fail.               *)
(***************************************************************************)
CommandEnds == (cancelled \/ ~cmd.script) ~> ~Running
===============================================================================
