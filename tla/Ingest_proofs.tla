----------------------------- MODULE Ingest_proofs -----------------------------
(***************************************************************************)
(* Proofs about Ingest, with the Crawler and the StoreBatch it is made of, *)
(* for any commands, sites, files, batches and numbers of goroutines.      *)
(***************************************************************************)
EXTENDS Ingest, FiniteSetTheorems, SequenceTheorems, TLAPS

IsSeq(s) == \E S : s \in Seq(S)

\* A sequence of anything stays one when something is added.
LEMMA IsSeqAppend ==
  ASSUME NEW s, NEW e, IsSeq(s)
  PROVE  /\ IsSeq(Append(s, e)) /\ Len(Append(s, e)) = Len(s) + 1 /\ Len(s) \in Nat
         /\ DOMAIN s = 1 .. Len(s) /\ DOMAIN Append(s, e) = 1 .. Len(s) + 1
         /\ \A i \in 1 .. Len(s) : Append(s, e)[i] = s[i]
         /\ Append(s, e)[Len(s) + 1] = e
<1>1. PICK S : s \in Seq(S)
  BY DEF IsSeq
<1>2. s \in Seq(S \cup {e})
  BY <1>1, SeqMonotonic
<1>3. Append(s, e) \in Seq(S \cup {e})
  BY <1>2
<1>4. IsSeq(Append(s, e))
  BY <1>3 DEF IsSeq
<1> QED
  BY <1>2, <1>4

-----------------------------------------------------------------------------
(* The phases of a command *)

\* What the steps need to know of the types.
ShapeOK ==
    /\ DOMAIN crawl = {"kind", "at", "todo", "page", "more", "err"}
    /\ DOMAIN session = {"source", "status", "processed", "errors", "successes"}
    /\ session.errors \in Nat /\ session.successes \in Nat
    /\ DOMAIN job = Procs

\* A batch runs where nothing is crawled, and only there.
PhaseInv ==
    /\ pc = "ended" => ~Running
    /\ pc \in {"library", "batch"} => crawl.kind = "none"
    /\ IF batch = NoBatch
       THEN stored = <<>> /\ objects = <<>>
       ELSE pc \in {"batch", "ended"} /\ crawl.kind = "none" /\ batch \in Batches

-----------------------------------------------------------------------------
(* The crawls of a site *)

SiteInv ==
    crawl.kind \in {"bnm", "sc", "iifa", "fatwa"} =>
        /\ IsSeq(docs) /\ session.successes = Len(docs)
        /\ \A i, j \in DOMAIN docs : docs[i].url = docs[j].url => i = j
        /\ \A i \in DOMAIN docs : docs[i].url \in session.processed
        /\ crawl.kind # "fatwa" /\ crawl.at \in {"page", "resolution"} =>
             Head(crawl.todo) \notin session.processed
        /\ crawl.kind = "fatwa" /\ crawl.at # "returned" => docs = <<>>

\* The pages of a fixed list: those counted so far, and the others to do.
Counted(pages, n) ==
    /\ crawl.todo \in Seq(Range(pages))
    /\ Len(crawl.todo) + n = Len(pages)
    /\ \A i \in 1 .. Len(crawl.todo) : crawl.todo[i] = pages[n + i]
    /\ \A u \in session.processed : \E i \in 1 .. n : pages[i] = u

TargetInv ==
    crawl.kind \in {"bnm", "sc"} =>
        /\ Counted(IF crawl.kind = "bnm" THEN BnmPages ELSE ScPages,
                   session.successes + session.errors)
        /\ crawl.at = "page" => crawl.todo # <<>>
        /\ crawl.at = "returned" /\ ~crawl.err => crawl.todo = <<>>

-----------------------------------------------------------------------------
(* The batches *)

Finished == {w \in Workers : put[w].at = "finished"}
Results(b) == {<<l, StorePath(b.site, l)>> : l \in Range(b.links)}

PutInv ==
    /\ DOMAIN put = Workers
    /\ \A w \in Workers :
         /\ DOMAIN put[w] = {"at", "link"}
         /\ put[w].at = "none" <=> w \notin DOMAIN batch.links
         /\ put[w].at # "none" => put[w].link \in Range(batch.links)
         /\ put[w].at = "report" =>
              StorePath(batch.site, put[w].link) \in DOMAIN objects

StoreInv ==
    /\ \A path \in DOMAIN objects :
         /\ objects[path] \in Range(batch.links)
         /\ path = StorePath(batch.site, objects[path])
    /\ stored \in Seq(Results(batch))
    /\ \A i \in DOMAIN stored : stored[i][2] \in DOMAIN objects

CountInv ==
    batch.site = "bnm" =>
        /\ session.successes = Len(stored)
        /\ session.successes + session.errors <= Cardinality(Finished)
        /\ ~cancelled =>
             session.successes + session.errors = Cardinality(Finished)

BatchInv == batch # NoBatch => PutInv /\ StoreInv /\ CountInv

-----------------------------------------------------------------------------
(* The statistics *)

Idle(p) == job[p].at \in {"none", "done", "failed"}

PrintInv ==
    /\ \A w \in Workers : job[w] # NoJob => pc \in {"spawn", "wait", "ended"}
    /\ ~Idle(Main) => pc \in {"job", "single", "ended"}
    /\ pc = "spawn" => IsSeq(queue) /\ Len(queue) <= Len(Files)
    /\ printed => /\ pc \in {"printed", "ended"}
                  /\ Idle(Main) /\ \A w \in Workers : job[w] = NoJob

-----------------------------------------------------------------------------
(* What a step may do to the crawl and to the batch *)

Begins ==
    \/ \E source : StartCrawl("bnm", source, BnmPages)
    \/ \E source : StartCrawl("sc", source, ScPages)
    \/ \E source, kind : /\ kind \in {"iifa", "policy", "script"}
                         /\ StartCrawl(kind, source, <<>>)
    \/ \E portal : StartCrawl("fatwa", "fatwa", <<portal>>)

Quiet == /\ UNCHANGED <<crawl, session, docs, batchVars>>
         /\ cancelled' = cancelled \/ cancelled' = TRUE

\* pc stays, or moves on to a point that is not of a batch; from a batch it
\* moves to the end.
Moves == \/ pc' = pc /\ result' = result
         \/ /\ pc' \notin {"library", "batch"}
            /\ pc \in {"library", "batch", "ended"} => pc' = "ended"
            /\ (pc' = "ended") = (result' # "running")

LEMMA GoroutineEffect ==
  ASSUME NEW p \in Procs, Goroutine(p)
  PROVE  /\ pc' = pc /\ result' = result
         /\ \/ Quiet
            \/ p \in Workers /\ BatchGoroutine(p)
<1>1. CASE BNMFetchWithRetry(p) /\ UNCHANGED <<batchVars, ingestVars>>
  BY <1>1 DEF BNMFetchWithRetry, Exchange, WaitForToken, Answer, Backoff, Quiet,
              ingestVars
<1>2. CASE /\ SCFetchWithRetry \/ IIFAFetchWithRetry \/ FatwaFetchWithRetry
           /\ UNCHANGED <<batchVars, ingestVars>>
  BY <1>2 DEF SCFetchWithRetry, IIFAFetchWithRetry, FatwaFetchWithRetry,
              Exchange, WaitForToken, Answer, Backoff, Quiet, ingestVars
<1>3. CASE JobStep(p)
  BY <1>3 DEF JobStep, ProcessPDFFromURL, ProcessPDFFromURLWithSource,
              IngestURLDownloaded, AfterDownload, OpenPDF, ProcessPage,
              ChunkDocument, Embedded, EmbedRetry, EmbedGivesUp, SaveResults,
              JobUnchanged, crawlVars, Quiet
<1>4. CASE TakeSlot(p) \/ FileDone(p)
  BY <1>4 DEF TakeSlot, FileDone, JobUnchanged, crawlVars, Quiet
<1>5. CASE p \in Workers /\ BatchGoroutine(p) /\ UNCHANGED ingestVars
  BY <1>5 DEF ingestVars
<1> QED
  BY <1>1, <1>2, <1>3, <1>4, <1>5 DEF Goroutine

LEMMA DriveEffect ==
  ASSUME Drive
  PROVE  \/ Quiet /\ Moves
         \/ CrawlStep /\ UNCHANGED <<batchVars, ingestVars>>
         \/ /\ pc \in {"start", "portals"} /\ Moves
            /\ Begins /\ UNCHANGED batchVars
         \/ /\ pc = "library" /\ pc' = "batch" /\ result' = result
            /\ \E b \in Batches : StartBatch(b)
<1>0. result = "running"
  BY DEF Drive, Running
<1>1. CASE StartNothing
  BY <1>0, <1>1 DEF StartNothing, Starts, Fixed, End, crawlVars, Quiet, Moves
<1>2. CASE IngestBNM
  BY <1>0, <1>2 DEF IngestBNM, StartCrawling, Starts, Fixed, StartBNM, Begins, Moves
<1>3. CASE IngestPolicy
  BY <1>0, <1>3 DEF IngestPolicy, StartCrawling, Starts, Fixed, StartPolicy,
              StartScript, Begins, Moves
<1>4. CASE IngestSC
  BY <1>0, <1>4 DEF IngestSC, StartCrawling, Starts, Fixed, StartSC, StartScript,
              Begins, Moves
<1>5. CASE IngestIIFA
  BY <1>0, <1>5 DEF IngestIIFA, StartCrawling, Starts, Fixed, StartIIFA,
              StartScript, Begins, Moves
<1>6. CASE IngestDirectory \/ IngestAAOIFI
  BY <1>0, <1>6 DEF IngestDirectory, IngestAAOIFI, StartDirectory, Starts, Fixed, End,
              crawlVars, Quiet, Moves
<1>7. CASE IngestFile
  BY <1>0, <1>7 DEF IngestFile, Starts, Fixed, crawlVars, Quiet, Moves
<1>8. CASE IngestURL
  BY <1>0, <1>8 DEF IngestURL, Starts, Fixed, Quiet, Moves
<1>9. CASE Crawled
  BY <1>0, <1>9 DEF Crawled, Fixed, End, crawlVars, Quiet, Moves
<1>10. CASE SingleDone
  BY <1>0, <1>10 DEF SingleDone, PrintStats, Fixed, End, crawlVars, Quiet, Moves
<1>11. ASSUME NEW h, DocumentLoop(h) PROVE Quiet /\ Moves
  <2>1. CASE NextDocument
    BY <1>0, <2>1 DEF NextDocument, PrintStats, Fixed, End, crawlVars, Quiet, Moves
  <2>2. CASE NextLink
    BY <1>0, <2>2 DEF NextLink, Fixed, Quiet, Moves
  <2>3. CASE LinkDone
    BY <1>0, <2>3 DEF LinkDone, Fixed, crawlVars, Quiet, Moves
  <2>4. CASE DocumentDone
    BY <1>0, <2>4 DEF DocumentDone, Fixed, crawlVars, Quiet, Moves
  <2> QED
    BY <1>11, <2>1, <2>2, <2>3, <2>4 DEF DocumentLoop
<1>12. CASE IngestFatwa
  BY <1>0, <1>12 DEF IngestFatwa, Starts, Fixed, End, crawlVars, Quiet, Moves
<1>13. CASE NextPortal
  <2>1. CASE HasBaseURL(Head(queue)) /\ pc' = "portal" /\ StartFatwa(Head(queue))
    <3>1. StartCrawl("fatwa", "fatwa", <<Head(queue)>>)
      BY <2>1 DEF StartFatwa
    <3>2. Begins
      BY <3>1 DEF Begins
    <3>3. pc = "portals" /\ UNCHANGED batchVars /\ result' = result
      BY <1>0, <1>13, <2>1 DEF NextPortal, PrintStats, End, Fixed
    <3> QED
      BY <1>0, <2>1, <3>2, <3>3 DEF Moves
  <2>2. CASE UNCHANGED crawlVars
    BY <1>0, <1>13, <2>2 DEF NextPortal, PrintStats, Fixed, End, crawlVars, Quiet, Moves
  <2> QED
    BY <1>0, <1>13, <2>1, <2>2 DEF NextPortal
<1>14. CASE FatwaCrawled
  BY <1>0, <1>14 DEF FatwaCrawled, Fixed, crawlVars, Quiet, Moves
<1>15. CASE Spawn
  BY <1>0, <1>15 DEF Spawn, Fixed, End, crawlVars, Quiet, Moves
<1>16. CASE Wait
  BY <1>0, <1>16 DEF Wait, PrintStats, Fixed, crawlVars, Quiet, Moves
<1>17. CASE ReturnToShell
  BY <1>0, <1>17 DEF ReturnToShell, Fixed, End, crawlVars, Quiet, Moves
<1>18. CASE LibraryBatch
  BY <1>0, <1>18 DEF LibraryBatch
<1>19. CASE LibraryReturn
  BY <1>0, <1>19 DEF LibraryReturn, Fixed, End, crawlVars, Quiet, Moves
<1> QED
  BY <1>1, <1>2, <1>3, <1>4, <1>5, <1>6, <1>7, <1>8, <1>9, <1>10, <1>11, <1>12,
     <1>13, <1>14, <1>15, <1>16, <1>17, <1>18, <1>19
     DEF Drive, BNMDocuments, PolicyDocuments, DirectoryDocuments, SCDocuments,
         IIFADocuments, FatwaDocuments

\* A step begins a crawl, takes it on, begins the batch, or takes that on.
LEMMA Effects ==
  ASSUME [Next]_vars
  PROVE  \/ Quiet /\ Moves
         \/ Running /\ CrawlStep /\ UNCHANGED <<batchVars, ingestVars>>
         \/ /\ Running /\ pc \in {"start", "portals"} /\ Moves
            /\ Begins /\ UNCHANGED batchVars
         \/ /\ Running /\ pc = "library" /\ pc' = "batch" /\ result' = result
            /\ \E b \in Batches : StartBatch(b)
         \/ /\ Running /\ pc' = pc /\ result' = result
            /\ \E w \in Workers : BatchGoroutine(w)
<1>1. CASE Interrupt
  BY <1>1 DEF Interrupt, Quiet, Moves, ingestVars
<1>2. CASE Kill
  BY <1>2 DEF Kill, End, Fixed, crawlVars, Quiet, Moves
<1>3. CASE Drive
  BY <1>3, DriveEffect DEF Drive
<1>4. ASSUME NEW p \in Procs, Goroutine(p)
      PROVE  \/ Quiet /\ Moves
             \/ Running /\ pc' = pc /\ result' = result /\ p \in Workers /\ BatchGoroutine(p)
  <2>1. Running
    BY <1>4 DEF Goroutine
  <2> QED
    BY <1>4, <2>1, GoroutineEffect DEF Moves
<1>5. CASE Over \/ UNCHANGED vars
  BY <1>5 DEF Over, vars, crawlVars, ingestVars, Quiet, Moves
<1> QED
  BY <1>1, <1>2, <1>3, <1>4, <1>5 DEF Next

-----------------------------------------------------------------------------
(* The phases *)

SessionFields == {"source", "status", "processed", "errors", "successes"}

Same(s, t) == /\ DOMAIN t = SessionFields /\ t.processed = s.processed
              /\ t.successes = s.successes /\ t.errors = s.errors
OneMore(s, t) == /\ DOMAIN t = SessionFields /\ t.processed = s.processed
                 /\ t.successes = s.successes /\ t.errors = s.errors + 1
OnePage(s, u, t) == /\ DOMAIN t = SessionFields /\ t.processed = s.processed \cup {u}
                    /\ t.successes = s.successes + 1 /\ t.errors = s.errors

\* What the operations on a CrawlState change.
LEMMA SessionOps ==
  ASSUME NEW s, DOMAIN s = SessionFields
  PROVE  /\ Same(s, CompleteState(s))
         /\ OneMore(s, IncrementError(s))
         /\ OneMore(s, CompleteState(IncrementError(s)))
         /\ \A u : /\ OnePage(s, u, IncrementSuccess(MarkProcessed(s, u)))
                  /\ OnePage(s, u, CompleteState(IncrementSuccess(MarkProcessed(s, u))))
<1> USE DEF SessionFields
<1>1. Same(s, CompleteState(s))
  BY DEF CompleteState, Same
<1>2. OneMore(s, IncrementError(s))
  BY DEF IncrementError, OneMore
<1>3. ASSUME NEW u PROVE OnePage(s, u, IncrementSuccess(MarkProcessed(s, u)))
  <2>1. PICK t : t = MarkProcessed(s, u)
    OBVIOUS
  <2>2. DOMAIN t = SessionFields /\ t.processed = s.processed \cup {u}
        /\ t.successes = s.successes /\ t.errors = s.errors
    BY <2>1 DEF MarkProcessed
  <2>3. OnePage(s, u, IncrementSuccess(t))
    BY <2>2 DEF IncrementSuccess, OnePage
  <2> QED
    BY <2>1, <2>3
<1>4. ASSUME NEW u, NEW t, OnePage(s, u, t) PROVE OnePage(s, u, CompleteState(t))
  BY <1>4 DEF CompleteState, OnePage
<1>5. ASSUME NEW t, OneMore(s, t) PROVE OneMore(s, CompleteState(t))
  BY <1>5 DEF CompleteState, OneMore
<1> QED
  BY <1>1, <1>2, <1>3, <1>4, <1>5

\* A crawl stays of the kind it was begun as, and counts in numbers.
LEMMA CrawlStepShape ==
  ASSUME ShapeOK, CrawlStep
  PROVE  /\ crawl'.kind = crawl.kind /\ crawl.kind # "none"
         /\ DOMAIN crawl' = DOMAIN crawl
         /\ \/ session' = session \/ Same(session, session')
            \/ OneMore(session, session') \/ \E u : OnePage(session, u, session')
<1>0. /\ DOMAIN session = SessionFields
      /\ DOMAIN crawl = {"kind", "at", "todo", "page", "more", "err"}
  BY DEF ShapeOK, SessionFields
<1>1. ASSUME NEW err, Return(err, session)
      PROVE  /\ crawl'.kind = crawl.kind /\ DOMAIN crawl' = DOMAIN crawl
             /\ Same(session, session')
  BY <1>0, <1>1, SessionOps DEF Return
<1>2. CASE BNMCrawl \/ SCCrawl
  <2>1. CASE Return(cancelled /\ crawl.todo # <<>>, session)
    BY <1>1, <1>2, <2>1 DEF BNMCrawl, SCCrawl
  <2>2. CASE UNCHANGED session
    BY <1>0, <1>2, <2>2 DEF BNMCrawl, SCCrawl, NextTarget, Return
  <2> QED
    BY <1>2, <2>1, <2>2 DEF BNMCrawl, SCCrawl, NextTarget
<1>3. CASE BNMCrawlPage \/ SCCrawlPage
  <2>1. /\ crawl.kind \in {"bnm", "sc"}
        /\ \E E : PageCrawled(E) \/ PageFailed
    BY <1>3 DEF BNMCrawlPage, SCCrawlPage
  <2>2. crawl' = [crawl EXCEPT !.at = "loop", !.todo = Tail(@)]
    BY <2>1 DEF PageCrawled, PageFailed
  <2>3. \/ session' = IncrementSuccess(MarkProcessed(session, Head(crawl.todo)))
        \/ session' = IncrementError(session)
    BY <2>1 DEF PageCrawled, PageFailed
  <2> QED
    BY <1>0, <2>1, <2>2, <2>3, SessionOps
<1>4. CASE FatwaCrawl
  BY <1>0, <1>4 DEF FatwaCrawl
<1>5. CASE FatwaCrawlPage
  <2>1. \/ crawl' = [crawl EXCEPT !.at = "returned"]
        \/ crawl' = [crawl EXCEPT !.at = "returned", !.err = TRUE]
    BY <1>5 DEF FatwaCrawlPage
  <2>2. \/ session' = CompleteState(IncrementSuccess(
                         MarkProcessed(session, Head(crawl.todo))))
        \/ session' = CompleteState(IncrementError(session))
    BY <1>5 DEF FatwaCrawlPage
  <2>3. crawl.kind = "fatwa"
    BY <1>5 DEF FatwaCrawlPage
  <2>4. crawl'.kind = crawl.kind /\ DOMAIN crawl' = DOMAIN crawl
    BY <1>0, <2>1
  <2>5. OneMore(session, session') \/ \E u : OnePage(session, u, session')
    BY <1>0, <2>2, SessionOps
  <2> QED
    BY <2>3, <2>4, <2>5
<1>6. CASE IIFAListing
  <2>1. CASE Return(cancelled /\ crawl.page <= MaxListings, session)
    BY <1>1, <1>6, <2>1 DEF IIFAListing
  <2>2. CASE crawl' = [crawl EXCEPT !.at = "listing"] /\ UNCHANGED session
    BY <1>0, <1>6, <2>2 DEF IIFAListing
  <2> QED
    BY <1>6, <2>1, <2>2 DEF IIFAListing
<1>7. CASE IIFAExtractLinks
  <2>1. \/ crawl' = [crawl EXCEPT !.at = "returned"]
        \/ \E links, more : crawl' = [crawl EXCEPT !.at = "links",
                                        !.todo = links, !.more = more]
    BY <1>7, Zenon DEF IIFAExtractLinks
  <2>2. \/ session' = CompleteState(session) \/ session' = session
        \/ session' = CompleteState(IncrementError(session))
    BY <1>7 DEF IIFAExtractLinks
  <2>3. crawl.kind = "iifa"
    BY <1>7 DEF IIFAExtractLinks
  <2>4. crawl'.kind = crawl.kind /\ DOMAIN crawl' = DOMAIN crawl
    BY <1>0, <2>1
  <2>5. Same(session, session') \/ session' = session \/ OneMore(session, session')
    BY <1>0, <2>2, SessionOps
  <2> QED
    BY <2>3, <2>4, <2>5
<1>8. CASE IIFANextLink
  <2>1. CASE Return(FALSE, session) \/ Return(TRUE, session)
    BY <1>1, <1>8, <2>1 DEF IIFANextLink
  <2>2. CASE UNCHANGED session /\ ~(Return(FALSE, session) \/ Return(TRUE, session))
    BY <1>0, <1>8, <2>2 DEF IIFANextLink
  <2> QED
    BY <1>8, <2>1, <2>2 DEF IIFANextLink
<1>9. CASE IIFAResolution
  <2>1. crawl' = [crawl EXCEPT !.at = "links", !.todo = Tail(@)]
    BY <1>9 DEF IIFAResolution
  <2>2. \/ session' = IncrementSuccess(MarkProcessed(session, Head(crawl.todo)))
        \/ session' = IncrementError(session)
    BY <1>9 DEF IIFAResolution
  <2>3. crawl.kind = "iifa"
    BY <1>9 DEF IIFAResolution
  <2> QED
    BY <1>0, <2>1, <2>2, <2>3, SessionOps
<1>10. CASE PolicyLoad \/ PolicyReturn \/ ScriptFails
  <2>1. CASE Return(FALSE, session) \/ Return(TRUE, session)
    BY <1>1, <1>10, <2>1 DEF PolicyLoad, PolicyReturn, ScriptFails
  <2>2. CASE UNCHANGED session /\ ~(Return(FALSE, session) \/ Return(TRUE, session))
    BY <1>0, <1>10, <2>2 DEF PolicyLoad, PolicyReturn, ScriptFails
  <2> QED
    BY <1>10, <2>1, <2>2 DEF PolicyLoad, PolicyReturn, ScriptFails
<1>11. CASE PolicyTable
  BY <1>0, <1>11 DEF PolicyTable
<1>12. BNMScript \/ SCScript \/ IIFAScript =>
         crawl.kind = "script" /\ Return(FALSE, session)
  <2>1. BNMScript => crawl.kind = "script" /\ Return(FALSE, session)
    BY Zenon DEF BNMScript, ScriptEnds
  <2>2. SCScript => crawl.kind = "script" /\ Return(FALSE, session)
    BY Zenon DEF SCScript, ScriptEnds
  <2>3. IIFAScript => crawl.kind = "script" /\ Return(FALSE, session)
    BY Zenon DEF IIFAScript, ScriptEnds
  <2> QED
    BY <2>1, <2>2, <2>3
<1>13. CASE BNMScript \/ SCScript \/ IIFAScript
  BY <1>1, <1>12, <1>13
<1> QED
  BY <1>2, <1>3, <1>4, <1>5, <1>6, <1>7, <1>8, <1>9, <1>10, <1>11, <1>13 DEF CrawlStep

LEMMA BatchGoroutineShape ==
  ASSUME ShapeOK, NEW w \in Workers, BatchGoroutine(w)
  PROVE  /\ batch # NoBatch /\ batch' = batch /\ UNCHANGED <<crawl, docs>>
         /\ DOMAIN session' = DOMAIN session
         /\ session'.errors \in Nat /\ session'.successes \in Nat
         /\ StoreLink(w)
<1> USE DEF ShapeOK, BatchError, BatchSuccess, IncrementError, IncrementSuccess, crawlVars
<1>1. StoreLink(w) /\ batch # NoBatch
  BY DEF BatchGoroutine, BNMProcessAndStore, DownloadAll, SCProcessAndStore,
         IIFAProcessAndStore, NoBatch
<1>2. CASE TakeBatchSlot(w) \/ FirstToken(w)
  BY <1>1, <1>2 DEF TakeBatchSlot, FirstToken
<1>3. CASE DownloadAndStore(w) \/ UploadLocal(w)
  BY <1>1, <1>3 DEF DownloadAndStore, UploadLocal
<1>4. CASE Upload(w) \/ Report(w)
  BY <1>1, <1>4 DEF Upload, Report
<1> QED
  BY <1>1, <1>2, <1>3, <1>4 DEF StoreLink

LEMMA BeginsShape ==
  ASSUME Begins
  PROVE  /\ DOMAIN crawl' = {"kind", "at", "todo", "page", "more", "err"}
         /\ DOMAIN session' = SessionFields
         /\ session'.processed = {} /\ session'.errors = 0 /\ session'.successes = 0
         /\ docs' = <<>> /\ crawl'.at = "loop"
         /\ \/ crawl'.kind = "bnm" /\ crawl'.todo = BnmPages
            \/ crawl'.kind = "sc" /\ crawl'.todo = ScPages
            \/ crawl'.kind \in {"iifa", "policy", "script", "fatwa"}
<1>1. PICK kind, source, pages :
        /\ StartCrawl(kind, source, pages)
        /\ \/ kind = "bnm" /\ pages = BnmPages
           \/ kind = "sc" /\ pages = ScPages
           \/ kind \in {"iifa", "policy", "script", "fatwa"}
  BY Zenon DEF Begins
<1>2. /\ crawl' = [kind |-> kind, at |-> "loop", todo |-> pages, page |-> 1,
                   more |-> FALSE, err |-> FALSE]
      /\ session' = InitState(source) /\ docs' = <<>>
  BY <1>1 DEF StartCrawl
<1>3. /\ DOMAIN session' = SessionFields
      /\ session'.processed = {} /\ session'.errors = 0 /\ session'.successes = 0
  BY <1>2 DEF InitState, NoSession, SessionFields
<1> QED
  BY <1>1, <1>2, <1>3

LEMMA ShapeNext ==
  ASSUME ShapeOK, [Next]_vars PROVE ShapeOK'
<1>0. /\ DOMAIN session = SessionFields
      /\ DOMAIN crawl = {"kind", "at", "todo", "page", "more", "err"}
      /\ session.errors \in Nat /\ session.successes \in Nat
  BY DEF ShapeOK, SessionFields
<1>1. DOMAIN job' = Procs
  <2>1. CASE Interrupt \/ Over \/ UNCHANGED vars
    BY <2>1 DEF Interrupt, Over, vars, ingestVars, ShapeOK
  <2>2. CASE Kill
    BY <2>2 DEF Kill, ShapeOK
  <2>3. ASSUME NEW p \in Procs, Goroutine(p) PROVE DOMAIN job' = Procs
    <3>1. CASE UNCHANGED ingestVars
      BY <3>1 DEF ingestVars, ShapeOK
    <3>2. CASE JobStep(p)
      BY <3>2 DEF JobStep, ProcessPDFFromURL, ProcessPDFFromURLWithSource,
                  IngestURLDownloaded, Fail, OpenPDF, ProcessPage, ChunkDocument,
                  Embedded, EmbedRetry, EmbedGivesUp, SaveResults, ShapeOK
    <3>3. CASE TakeSlot(p) \/ FileDone(p)
      BY <3>3 DEF TakeSlot, FileDone, ShapeOK
    <3> QED
      BY <2>3, <3>1, <3>2, <3>3 DEF Goroutine
  <2>4. CASE Drive
    <3>1. ASSUME NEW h, DocumentLoop(h) PROVE DOMAIN job' = Procs
      BY <3>1 DEF DocumentLoop, NextDocument, NextLink, LinkDone, DocumentDone, ShapeOK
    <3>2. CASE \/ BNMDocuments \/ PolicyDocuments \/ DirectoryDocuments
               \/ SCDocuments \/ IIFADocuments \/ FatwaDocuments
      BY <3>1, <3>2 DEF BNMDocuments, PolicyDocuments, DirectoryDocuments,
                        SCDocuments, IIFADocuments, FatwaDocuments
    <3>3. CASE \/ StartNothing \/ IngestBNM \/ IngestPolicy \/ IngestSC \/ IngestIIFA
               \/ IngestDirectory \/ IngestAAOIFI \/ IngestFile \/ IngestURL
               \/ IngestFatwa
      BY <3>3 DEF StartNothing, IngestBNM, IngestPolicy, IngestSC, IngestIIFA,
                  StartCrawling, IngestDirectory, IngestAAOIFI, StartDirectory,
                  IngestFile, IngestURL, IngestFatwa, ShapeOK
    <3>4. CASE Crawled \/ SingleDone \/ NextPortal \/ FatwaCrawled
      BY <3>4 DEF Crawled, SingleDone, NextPortal, FatwaCrawled, ShapeOK
    <3>5. CASE Spawn
      BY <3>5 DEF Spawn, ShapeOK
    <3>6. CASE Wait \/ ReturnToShell \/ LibraryBatch \/ LibraryReturn
      BY <3>6 DEF Wait, ReturnToShell, LibraryBatch, LibraryReturn, ShapeOK
    <3>7. CASE CrawlStep /\ UNCHANGED <<batchVars, ingestVars>>
      BY <3>7 DEF ingestVars, ShapeOK
    <3> QED
      BY <2>4, <3>2, <3>3, <3>4, <3>5, <3>6, <3>7 DEF Drive
  <2> QED
    BY <2>1, <2>2, <2>3, <2>4 DEF Next
<1>2. /\ DOMAIN crawl' = DOMAIN crawl /\ DOMAIN session' = DOMAIN session
      /\ session'.errors \in Nat /\ session'.successes \in Nat
  <2>1. CASE Quiet
    BY <1>0, <2>1 DEF Quiet
  <2>2. CASE CrawlStep
    BY <1>0, <2>2, CrawlStepShape DEF Same, OneMore, OnePage
  <2>3. CASE Begins
    BY <1>0, <2>3, BeginsShape
  <2>4. ASSUME NEW b \in Batches, StartBatch(b)
        PROVE  /\ DOMAIN crawl' = DOMAIN crawl /\ DOMAIN session' = DOMAIN session
               /\ session'.errors \in Nat /\ session'.successes \in Nat
    BY <1>0, <2>4 DEF StartBatch, CompleteState, InitState, NoSession, SessionFields
  <2>5. CASE \E w \in Workers : BatchGoroutine(w)
    BY <1>0, <2>5, BatchGoroutineShape
  <2> QED
    BY <2>1, <2>2, <2>3, <2>4, <2>5, Effects
<1> QED
  BY <1>0, <1>1, <1>2 DEF ShapeOK

\* While a batch is in progress nothing is crawled, and there is one batch only.
LEMMA PhaseNext ==
  ASSUME ShapeOK, PhaseInv, [Next]_vars PROVE PhaseInv'
<1> USE DEF Running
<1>1. ASSUME Quiet, Moves PROVE PhaseInv'
  BY <1>1 DEF Quiet, Moves, PhaseInv, batchVars
<1>2. ASSUME Running, CrawlStep, UNCHANGED <<batchVars, ingestVars>> PROVE PhaseInv'
  <2>1. crawl'.kind = crawl.kind /\ crawl.kind # "none"
    BY <1>2, CrawlStepShape
  <2> QED
    BY <1>2, <2>1 DEF PhaseInv, batchVars, ingestVars
<1>3. ASSUME Running, pc \in {"start", "portals"}, Moves, Begins, UNCHANGED batchVars
      PROVE  PhaseInv'
  BY <1>3 DEF Moves, PhaseInv, batchVars
<1>4. ASSUME Running, pc = "library", pc' = "batch", result' = result,
             NEW b \in Batches, StartBatch(b)
      PROVE  PhaseInv'
  <2>1. batch' = b /\ crawl' = crawl /\ batch' # NoBatch
    BY <1>4, StoreBatchAssumption DEF StartBatch, NoBatch, BatchSites
  <2> QED
    BY <1>4, <2>1 DEF PhaseInv
<1>5. ASSUME Running, pc' = pc, result' = result,
             NEW w \in Workers, BatchGoroutine(w)
      PROVE  PhaseInv'
  BY <1>5, BatchGoroutineShape DEF PhaseInv
<1> QED
  BY <1>1, <1>2, <1>3, <1>4, <1>5, Effects

-----------------------------------------------------------------------------
(* No page twice *)

\* A step that adds no document, and goes for a page only if it is a new one.
LEMMA SiteKeeps ==
  ASSUME SiteInv, UNCHANGED docs, crawl'.kind = crawl.kind,
         session'.processed = session.processed,
         session'.successes = session.successes,
         crawl'.at # "returned" => crawl.at # "returned",
         crawl'.at \in {"page", "resolution"} =>
           crawl.kind = "fatwa" \/ Head(crawl'.todo) \notin session.processed
  PROVE  SiteInv'
BY DEF SiteInv

\* The page that was fetched becomes a document.
LEMMA SiteAdds ==
  ASSUME SiteInv, ShapeOK, crawl.kind \in {"bnm", "sc", "iifa", "fatwa"},
         crawl'.kind = crawl.kind,
         NEW d, docs' = Append(docs, d), d.url \notin session.processed,
         OnePage(session, d.url, session'), crawl'.at \notin {"page", "resolution"},
         crawl.kind = "fatwa" => crawl'.at = "returned"
  PROVE  SiteInv'
<1>1. /\ IsSeq(docs) /\ session.successes = Len(docs)
      /\ \A i, j \in DOMAIN docs : docs[i].url = docs[j].url => i = j
      /\ \A i \in DOMAIN docs : docs[i].url \in session.processed
  BY DEF SiteInv
<1>2. /\ IsSeq(docs') /\ Len(docs') = Len(docs) + 1 /\ Len(docs) \in Nat
      /\ DOMAIN docs = 1 .. Len(docs) /\ DOMAIN docs' = 1 .. Len(docs) + 1
      /\ \A i \in 1 .. Len(docs) : docs'[i] = docs[i]
      /\ docs'[Len(docs) + 1] = d
  BY <1>1, IsSeqAppend
<1>3. ASSUME NEW i \in DOMAIN docs' PROVE docs'[i].url \in session'.processed
  BY <1>1, <1>2 DEF OnePage
<1>4. ASSUME NEW i \in DOMAIN docs', NEW j \in DOMAIN docs',
             docs'[i].url = docs'[j].url
      PROVE  i = j
  BY <1>1, <1>2, <1>4
<1>5. session'.successes = Len(docs')
  BY <1>1, <1>2 DEF OnePage
<1> QED
  BY <1>2, <1>3, <1>4, <1>5 DEF SiteInv

LEMMA SiteStep ==
  ASSUME SiteInv, ShapeOK, CrawlStep PROVE SiteInv'
<1>0. /\ DOMAIN session = SessionFields
      /\ DOMAIN crawl = {"kind", "at", "todo", "page", "more", "err"}
  BY DEF ShapeOK, SessionFields
<1>1. crawl'.kind = crawl.kind
  BY CrawlStepShape
<1>2. ASSUME NEW err, Return(err, session), UNCHANGED docs,
             crawl.at # "returned" 
      PROVE  SiteInv'
  <2>1. /\ session'.processed = session.processed
        /\ session'.successes = session.successes
    BY <1>0, <1>2, SessionOps DEF Return, Same
  <2>2. crawl'.at = "returned"
    BY <1>0, <1>2 DEF Return
  <2> QED
    BY <1>1, <1>2, <2>1, <2>2, SiteKeeps
<1>3. CASE BNMCrawl \/ SCCrawl
  <2>0. /\ crawl.at = "loop" /\ UNCHANGED docs
        /\ \/ Return(cancelled /\ crawl.todo # <<>>, session)
           \/ /\ UNCHANGED session
              /\ IF IsProcessed(Head(crawl.todo))
                 THEN crawl' = [crawl EXCEPT !.todo = Tail(@)]
                 ELSE crawl' = [crawl EXCEPT !.at = "page"]
    BY <1>3 DEF BNMCrawl, SCCrawl, NextTarget
  <2>1. CASE Return(cancelled /\ crawl.todo # <<>>, session)
    BY <1>2, <2>0, <2>1
  <2>2. CASE UNCHANGED session /\ IsProcessed(Head(crawl.todo))
                 /\ crawl' = [crawl EXCEPT !.todo = Tail(@)]
    BY <1>0, <1>1, <2>0, <2>2, SiteKeeps
  <2>3. CASE UNCHANGED session /\ ~IsProcessed(Head(crawl.todo))
                 /\ crawl' = [crawl EXCEPT !.at = "page"]
    BY <1>0, <1>1, <2>0, <2>3, SiteKeeps DEF IsProcessed
  <2> QED
    BY <2>0, <2>1, <2>2, <2>3
<1>4. CASE BNMCrawlPage \/ SCCrawlPage
  <2>1. /\ crawl.kind \in {"bnm", "sc"} /\ crawl.at = "page"
        /\ crawl' = [crawl EXCEPT !.at = "loop", !.todo = Tail(@)]
    BY <1>4 DEF BNMCrawlPage, SCCrawlPage, PageCrawled, PageFailed
  <2>2. crawl'.at = "loop"
    BY <1>0, <2>1
  <2>3. CASE UNCHANGED docs /\ session' = IncrementError(session)
    BY <1>0, <1>1, <2>1, <2>2, <2>3, SiteKeeps, SessionOps DEF OneMore
  <2>4. ASSUME NEW E, PageCrawled(E) PROVE SiteInv'
    <3>1. PICK d : docs' = Append(docs, d) /\ d.url = Head(crawl.todo)
      BY <2>4 DEF PageCrawled, Document
    <3>2. session' = IncrementSuccess(MarkProcessed(session, Head(crawl.todo)))
      BY <2>4 DEF PageCrawled
    <3>3. OnePage(session, d.url, session')
      BY <1>0, <3>1, <3>2, SessionOps
    <3>4. d.url \notin session.processed
      BY <2>1, <3>1 DEF SiteInv
    <3> QED
      BY <1>1, <2>1, <2>2, <3>1, <3>3, <3>4, SiteAdds
  <2> QED
    BY <1>4, <2>3, <2>4 DEF BNMCrawlPage, SCCrawlPage, PageFailed
<1>5. CASE FatwaCrawl
  BY <1>0, <1>1, <1>5, SiteKeeps DEF FatwaCrawl
<1>6. CASE FatwaCrawlPage
  <2>1. /\ crawl.kind = "fatwa" /\ crawl.at = "page" /\ crawl'.at = "returned"
    BY <1>0, <1>6 DEF FatwaCrawlPage
  <2>2. CASE UNCHANGED docs /\ session' = CompleteState(IncrementError(session))
    BY <1>0, <1>1, <2>1, <2>2, SiteKeeps, SessionOps DEF OneMore
  <2>3. CASE ~(UNCHANGED docs /\ session' = CompleteState(IncrementError(session)))
    <3>1. PICK d : docs' = <<d>> /\ d.url = Head(crawl.todo)
      BY <1>6, <2>3 DEF FatwaCrawlPage, Document
    <3>2. session' = CompleteState(IncrementSuccess(
                       MarkProcessed(session, Head(crawl.todo))))
      BY <1>6, <2>3 DEF FatwaCrawlPage
    <3>3. OnePage(session, d.url, session')
      BY <1>0, <3>1, <3>2, SessionOps
    <3>4. session.successes = 0
      BY <2>1 DEF SiteInv
    <3>5. <<d>> \in Seq({d}) /\ Len(<<d>>) = 1 /\ DOMAIN <<d>> = {1} /\ <<d>>[1] = d
      OBVIOUS
    <3>6. IsSeq(docs') /\ Len(docs') = 1 /\ DOMAIN docs' = {1} /\ docs'[1] = d
      BY <3>1, <3>5 DEF IsSeq
    <3> QED
      BY <1>1, <2>1, <3>3, <3>4, <3>6 DEF SiteInv, OnePage
  <2> QED
    BY <2>2, <2>3
<1>7. CASE IIFAListing
  <2>0. crawl.at = "loop" /\ UNCHANGED docs
    BY <1>7 DEF IIFAListing
  <2>1. CASE Return(cancelled /\ crawl.page <= MaxListings, session)
    BY <1>2, <2>0, <2>1
  <2>2. CASE UNCHANGED session /\ crawl' = [crawl EXCEPT !.at = "listing"]
    BY <1>0, <1>1, <2>0, <2>2, SiteKeeps
  <2> QED
    BY <1>7, <2>1, <2>2 DEF IIFAListing
<1>8. CASE IIFAExtractLinks
  <2>1. crawl.at = "listing" /\ UNCHANGED docs
    BY <1>8 DEF IIFAExtractLinks
  <2>2. crawl'.at \in {"returned", "links"}
    <3>1. \/ crawl' = [crawl EXCEPT !.at = "returned"]
          \/ \E links, more : crawl' = [crawl EXCEPT !.at = "links",
                                          !.todo = links, !.more = more]
      BY <1>8, Zenon DEF IIFAExtractLinks
    <3> QED
      BY <1>0, <3>1
  <2>3. \/ session' = CompleteState(session) \/ session' = session
        \/ session' = CompleteState(IncrementError(session))
    BY <1>8 DEF IIFAExtractLinks
  <2>4. /\ session'.processed = session.processed
        /\ session'.successes = session.successes
    BY <1>0, <2>3, SessionOps DEF Same, OneMore
  <2> QED
    BY <1>1, <2>1, <2>2, <2>4, SiteKeeps
<1>9. CASE IIFANextLink
  <2>0. crawl.at = "links" /\ UNCHANGED docs
    BY <1>9 DEF IIFANextLink
  <2>1. CASE Return(FALSE, session) \/ Return(TRUE, session)
    BY <1>2, <2>0, <2>1
  <2>2. CASE UNCHANGED session /\ crawl' = [crawl EXCEPT !.at = "loop", !.page = @ + 1]
    BY <1>0, <1>1, <2>0, <2>2, SiteKeeps
  <2>3. CASE UNCHANGED session /\ crawl' = [crawl EXCEPT !.todo = Tail(@)]
    BY <1>0, <1>1, <2>0, <2>3, SiteKeeps
  <2>4. CASE /\ UNCHANGED session /\ ~IsProcessed(Head(crawl.todo))
             /\ crawl' = [crawl EXCEPT !.at = "resolution"]
    BY <1>0, <1>1, <2>0, <2>4, SiteKeeps DEF IsProcessed
  <2> QED
    BY <1>9, <2>1, <2>2, <2>3, <2>4 DEF IIFANextLink
<1>10. CASE IIFAResolution
  <2>1. /\ crawl.kind = "iifa" /\ crawl.at = "resolution"
        /\ crawl' = [crawl EXCEPT !.at = "links", !.todo = Tail(@)]
    BY <1>10 DEF IIFAResolution
  <2>2. crawl'.at = "links"
    BY <1>0, <2>1
  <2>3. CASE UNCHANGED docs /\ session' = IncrementError(session)
    BY <1>0, <1>1, <2>1, <2>2, <2>3, SiteKeeps, SessionOps DEF OneMore
  <2>4. ASSUME NEW pdfs, docs' = Append(docs, Document(Head(crawl.todo), pdfs, TRUE)),
               session' = IncrementSuccess(MarkProcessed(session, Head(crawl.todo)))
        PROVE  SiteInv'
    <3>1. PICK d : docs' = Append(docs, d) /\ d.url = Head(crawl.todo)
      BY <2>4 DEF Document
    <3>2. OnePage(session, d.url, session')
      BY <1>0, <2>4, <3>1, SessionOps
    <3>3. d.url \notin session.processed
      BY <2>1, <3>1 DEF SiteInv
    <3> QED
      BY <1>1, <2>1, <2>2, <3>1, <3>2, <3>3, SiteAdds
  <2> QED
    BY <1>10, <2>3, <2>4 DEF IIFAResolution
<1>11. CASE crawl.kind \notin {"bnm", "sc", "iifa", "fatwa"}
  BY <1>1, <1>11 DEF SiteInv
<1> QED
  BY <1>3, <1>4, <1>5, <1>6, <1>7, <1>8, <1>9, <1>10, <1>11
     DEF CrawlStep, PolicyLoad, PolicyTable, PolicyReturn, ScriptFails, BNMScript,
         SCScript, IIFAScript, ScriptEnds

-----------------------------------------------------------------------------
(* Every target counted *)

Targets == IF crawl.kind = "bnm" THEN BnmPages ELSE ScPages

LEMMA TargetStep ==
  ASSUME TargetInv, ShapeOK, CrawlStep PROVE TargetInv'
<1>0. /\ DOMAIN session = SessionFields
      /\ DOMAIN crawl = {"kind", "at", "todo", "page", "more", "err"}
      /\ crawl'.kind = crawl.kind
      /\ session.errors \in Nat /\ session.successes \in Nat
  BY CrawlStepShape DEF ShapeOK, SessionFields
<1>1. CASE crawl.kind \notin {"bnm", "sc"}
  BY <1>0, <1>1 DEF TargetInv
<1> SUFFICES ASSUME crawl.kind \in {"bnm", "sc"} PROVE TargetInv'
  BY <1>1
<1>2. PICK P, n :
        /\ P = Targets /\ n = session.successes + session.errors
        /\ n \in Nat /\ P \in Seq(Range(P)) /\ IsInjective(P)
  BY <1>0, CrawlerAssumption DEF Targets
<1>3. /\ Counted(P, n) /\ P = Targets'
      /\ crawl.at = "page" => crawl.todo # <<>>
      /\ crawl.at = "returned" /\ ~crawl.err => crawl.todo = <<>>
  BY <1>0, <1>2 DEF TargetInv, Targets
<1>4. ASSUME NEW m, m = session'.successes + session'.errors,
             Counted(P, m)', crawl'.at = "page" => crawl'.todo # <<>>,
             crawl'.at = "returned" /\ ~crawl'.err => crawl'.todo = <<>>
      PROVE  TargetInv'
  BY <1>0, <1>3, <1>4 DEF TargetInv, Targets
<1>5. CASE BNMCrawl \/ SCCrawl
  <2>0. /\ crawl.at = "loop"
        /\ \/ /\ cancelled \/ crawl.todo = <<>>
              /\ Return(cancelled /\ crawl.todo # <<>>, session)
           \/ /\ UNCHANGED session /\ crawl.todo # <<>>
              /\ IF IsProcessed(Head(crawl.todo))
                 THEN crawl' = [crawl EXCEPT !.todo = Tail(@)]
                 ELSE crawl' = [crawl EXCEPT !.at = "page"]
    BY <1>5 DEF BNMCrawl, SCCrawl, NextTarget
  <2>1. CASE /\ cancelled \/ crawl.todo = <<>>
             /\ Return(cancelled /\ crawl.todo # <<>>, session)
    <3>1. /\ session'.processed = session.processed
          /\ session'.successes = session.successes
          /\ session'.errors = session.errors
      BY <1>0, <2>1, SessionOps DEF Return, Same
    <3>2. /\ crawl'.at = "returned" /\ crawl'.todo = crawl.todo
          /\ crawl'.err = (cancelled /\ crawl.todo # <<>>)
      BY <1>0, <2>1 DEF Return
    <3>3. Counted(P, n)'
      BY <1>3, <3>1, <3>2 DEF Counted
    <3> QED
      BY <1>2, <1>4, <2>0, <2>1, <3>1, <3>2, <3>3
  <2>2. CASE UNCHANGED session /\ crawl.todo # <<>> /\ IsProcessed(Head(crawl.todo))
    <3>1. /\ crawl.todo \in Seq(Range(P)) /\ Len(crawl.todo) + n = Len(P)
          /\ Head(crawl.todo) = P[n + 1] /\ n + 1 \in DOMAIN P
      BY <1>2, <1>3, <2>2 DEF Counted
    <3>2. PICK i \in 1 .. n : P[i] = P[n + 1]
      BY <1>3, <2>2, <3>1 DEF Counted, IsProcessed
    <3>3. i \in DOMAIN P /\ i # n + 1
      BY <1>2, <3>1
    <3> QED
      BY <1>2, <3>1, <3>2, <3>3 DEF IsInjective
  <2>3. CASE /\ UNCHANGED session /\ crawl.todo # <<>>
             /\ crawl' = [crawl EXCEPT !.at = "page"]
    <3>1. crawl'.at = "page" /\ crawl'.todo = crawl.todo
      BY <1>0, <2>3
    <3>2. Counted(P, n)'
      BY <1>3, <2>3, <3>1 DEF Counted
    <3> QED
      BY <1>2, <1>4, <2>3, <3>1, <3>2
  <2> QED
    BY <2>0, <2>1, <2>2, <2>3
<1>6. CASE BNMCrawlPage \/ SCCrawlPage
  <2>1. /\ crawl.at = "page"
        /\ crawl' = [crawl EXCEPT !.at = "loop", !.todo = Tail(@)]
        /\ \/ session' = IncrementSuccess(MarkProcessed(session, Head(crawl.todo)))
           \/ session' = IncrementError(session)
    BY <1>6 DEF BNMCrawlPage, SCCrawlPage, PageCrawled, PageFailed
  <2>2. crawl'.at = "loop" /\ crawl'.todo = Tail(crawl.todo)
    BY <1>0, <2>1
  <2>3. /\ n + 1 = session'.successes + session'.errors
        /\ session'.processed \subseteq session.processed \cup {Head(crawl.todo)}
    <3>1. \/ OnePage(session, Head(crawl.todo), session')
          \/ OneMore(session, session')
      BY <1>0, <2>1, SessionOps
    <3> QED
      BY <1>0, <1>2, <3>1 DEF OnePage, OneMore
  <2>4. /\ crawl.todo \in Seq(Range(P)) /\ crawl.todo # <<>>
        /\ Len(crawl.todo) + n = Len(P) /\ n \in Nat
        /\ \A i \in 1 .. Len(crawl.todo) : crawl.todo[i] = P[n + i]
    BY <1>2, <1>3, <2>1 DEF Counted
  <2>5. /\ Tail(crawl.todo) \in Seq(Range(P))
        /\ Len(Tail(crawl.todo)) = Len(crawl.todo) - 1
        /\ Len(crawl.todo) \in Nat /\ Len(crawl.todo) >= 1
        /\ \A i \in 1 .. Len(crawl.todo) - 1 : Tail(crawl.todo)[i] = crawl.todo[i + 1]
        /\ Head(crawl.todo) = crawl.todo[1]
    BY <2>4
  <2>6. \A i \in 1 .. Len(crawl.todo) - 1 : Tail(crawl.todo)[i] = P[n + 1 + i]
    <3> SUFFICES ASSUME NEW i \in 1 .. Len(crawl.todo) - 1
                 PROVE  Tail(crawl.todo)[i] = P[n + 1 + i]
      OBVIOUS
    <3>1. i + 1 \in 1 .. Len(crawl.todo) /\ n + (i + 1) = n + 1 + i
      BY <2>4
    <3> QED
      BY <2>4, <2>5, <3>1
  <2>7. ASSUME NEW u \in session'.processed PROVE \E i \in 1 .. n + 1 : P[i] = u
    <3>1. CASE u = Head(crawl.todo)
      BY <2>4, <2>5, <3>1
    <3>2. CASE u \in session.processed
      <4>1. PICK i \in 1 .. n : P[i] = u
        BY <1>3, <3>2 DEF Counted
      <4>2. i \in 1 .. n + 1
        BY <1>2
      <4> QED
        BY <4>1, <4>2
    <3> QED
      BY <2>3, <3>1, <3>2
  <2>8. Len(Tail(crawl.todo)) + (n + 1) = Len(P)
    <3> DEFINE a == Len(crawl.todo)
               b == Len(Tail(crawl.todo))
               c == Len(P)
    <3>1. a \in Nat /\ n \in Nat /\ b = a - 1 /\ a + n = c
      BY <2>4, <2>5
    <3> HIDE DEF a, b, c
    <3>2. b + (n + 1) = c
      BY <3>1
    <3> QED
      BY <3>2 DEF b, c
  <2>9. Counted(P, n + 1)'
    BY <2>2, <2>5, <2>6, <2>7, <2>8 DEF Counted
  <2> QED
    BY <1>4, <2>2, <2>3, <2>9
<1> QED
  BY <1>5, <1>6
     DEF CrawlStep, FatwaCrawl, FatwaCrawlPage, IIFAListing, IIFAExtractLinks,
         IIFANextLink, IIFAResolution, PolicyLoad, PolicyTable, PolicyReturn,
         ScriptFails, BNMScript, SCScript, IIFAScript, ScriptEnds

-----------------------------------------------------------------------------
(* What is reported is stored *)

With(path, l) == [x \in DOMAIN objects \cup {path} |-> IF x = path THEN l ELSE objects[x]]

\* A goroutine goes on or ends; it counts an error, stores or reports on the way.
LEMMA StoreLinkEffect ==
  ASSUME NEW w \in Workers, StoreLink(w)
  PROVE  /\ UNCHANGED <<batch, cancelled>>
         /\ put[w].at \notin {"none", "finished"}
         /\ \E at : /\ at # "none" /\ Move(w, at)
               /\ \/ /\ UNCHANGED <<objects, stored, session>>
                     /\ at # "report" /\ (at = "finished" => cancelled)
                  \/ /\ UNCHANGED <<objects, stored>>
                     /\ at = "finished" /\ BatchError
                  \/ /\ UNCHANGED <<stored, session>> /\ at = "report"
                     /\ objects' = With(StorePath(batch.site, put[w].link), put[w].link)
                  \/ /\ UNCHANGED objects
                     /\ put[w].at = "report" /\ at = "finished" /\ BatchSuccess
                     /\ stored' = Append(stored,
                          <<put[w].link, StorePath(batch.site, put[w].link)>>)
<1>1. CASE TakeBatchSlot(w)
  <2>1. PICK at : at \in {"read", "token"} /\ Move(w, at)
    BY <1>1 DEF TakeBatchSlot
  <2> QED
    BY <1>1, <2>1 DEF TakeBatchSlot, crawlVars
<1>2. CASE FirstToken(w)
  <2>1. \/ Move(w, "finished") /\ cancelled
        \/ Move(w, "fetch")
    BY <1>2 DEF FirstToken
  <2> QED
    BY <1>2, <2>1 DEF FirstToken
<1>3. CASE DownloadAndStore(w)
  BY <1>3 DEF DownloadAndStore
<1>4. CASE UploadLocal(w)
  BY <1>4 DEF UploadLocal
<1>5. CASE Upload(w)
  BY <1>5 DEF Upload, With
<1>6. CASE Report(w)
  BY <1>6 DEF Report
<1> QED
  BY <1>1, <1>2, <1>3, <1>4, <1>5, <1>6 DEF StoreLink

LEMMA PutMoves ==
  ASSUME PutInv, NEW w \in Workers, NEW at, Move(w, at), at # "none",
         put[w].at \notin {"none", "finished"}, batch' = batch,
         DOMAIN objects \subseteq DOMAIN objects',
         at = "report" => StorePath(batch.site, put[w].link) \in DOMAIN objects'
  PROVE  /\ PutInv'
         /\ Finished' = IF at = "finished" THEN Finished \cup {w} ELSE Finished
         /\ w \notin Finished /\ IsFiniteSet(Finished)
         /\ Finished \subseteq DOMAIN batch.links
<1>1. /\ DOMAIN put' = Workers
      /\ put'[w].at = at /\ put'[w].link = put[w].link
      /\ DOMAIN put'[w] = {"at", "link"}
      /\ \A v \in Workers \ {w} : put'[v] = put[v]
  BY DEF Move, PutInv
<1>2. PutInv'
  <2> SUFFICES ASSUME NEW v \in Workers
               PROVE  /\ DOMAIN put'[v] = {"at", "link"}
                      /\ put'[v].at = "none" <=> v \notin DOMAIN batch.links
                      /\ put'[v].at # "none" => put'[v].link \in Range(batch.links)
                      /\ put'[v].at = "report" =>
                           StorePath(batch.site, put'[v].link) \in DOMAIN objects'
    BY <1>1 DEF PutInv
  <2>1. CASE v = w
    BY <1>1, <2>1 DEF PutInv
  <2>2. CASE v # w
    BY <1>1, <2>2 DEF PutInv
  <2> QED
    BY <2>1, <2>2
<1>3. Finished' = IF at = "finished" THEN Finished \cup {w} ELSE Finished
  BY <1>1 DEF Finished
<1>4. IsFiniteSet(Finished)
  BY CrawlerAssumption, FS_Subset DEF Finished
<1> QED
  BY <1>2, <1>3, <1>4 DEF Finished, PutInv

LEMMA BatchGoes ==
  ASSUME ShapeOK, BatchInv, NEW w \in Workers, BatchGoroutine(w)
  PROVE  BatchInv'
<1>1. /\ batch # NoBatch /\ batch' = batch /\ StoreLink(w)
      /\ PutInv /\ StoreInv /\ CountInv
      /\ DOMAIN session = SessionFields
      /\ session.errors \in Nat /\ session.successes \in Nat
  BY BatchGoroutineShape DEF BatchInv, ShapeOK, SessionFields
<1>2. UNCHANGED <<batch, cancelled>> /\ put[w].at \notin {"none", "finished"}
  BY <1>1, StoreLinkEffect
<1>3. PICK at : /\ at # "none" /\ Move(w, at)
                /\ \/ /\ UNCHANGED <<objects, stored, session>>
                      /\ at # "report" /\ (at = "finished" => cancelled)
                   \/ /\ UNCHANGED <<objects, stored>>
                      /\ at = "finished" /\ BatchError
                   \/ /\ UNCHANGED <<stored, session>> /\ at = "report"
                      /\ objects' = With(StorePath(batch.site, put[w].link), put[w].link)
                   \/ /\ UNCHANGED objects
                      /\ put[w].at = "report" /\ at = "finished" /\ BatchSuccess
                      /\ stored' = Append(stored,
                           <<put[w].link, StorePath(batch.site, put[w].link)>>)
  BY <1>1, StoreLinkEffect
<1>4. PICK l : /\ l = put[w].link /\ l \in Range(batch.links)
               /\ put[w].at = "report" => StorePath(batch.site, l) \in DOMAIN objects
  BY <1>1, <1>2 DEF PutInv
<1>5. \/ UNCHANGED objects
      \/ at = "report" /\ objects' = With(StorePath(batch.site, l), l)
  BY <1>3, <1>4
<1>6. /\ DOMAIN objects \subseteq DOMAIN objects'
      /\ at = "report" => StorePath(batch.site, l) \in DOMAIN objects'
  BY <1>3, <1>4, <1>5 DEF With
<1>7. /\ PutInv' /\ w \notin Finished /\ IsFiniteSet(Finished)
      /\ Finished' = IF at = "finished" THEN Finished \cup {w} ELSE Finished
  BY <1>1, <1>2, <1>3, <1>4, <1>6, PutMoves
<1>8. StoreInv'
  <2>1. \A path \in DOMAIN objects' : /\ objects'[path] \in Range(batch.links)
                                      /\ path = StorePath(batch.site, objects'[path])
    BY <1>1, <1>4, <1>5 DEF StoreInv, With
  <2>2. \/ UNCHANGED stored
        \/ /\ stored' = Append(stored, <<l, StorePath(batch.site, l)>>)
           /\ StorePath(batch.site, l) \in DOMAIN objects
    BY <1>3, <1>4
  <2>3. <<l, StorePath(batch.site, l)>> \in Results(batch)
    BY <1>4 DEF Results
  <2>4. stored \in Seq(Results(batch)) /\ \A i \in DOMAIN stored : stored[i][2] \in DOMAIN objects
    BY <1>1 DEF StoreInv
  <2>5. stored' \in Seq(Results(batch))
    BY <2>2, <2>3, <2>4, SMTT(30)
  <2>6. \A i \in DOMAIN stored' : stored'[i][2] \in DOMAIN objects'
    <3>1. CASE UNCHANGED stored
      BY <1>6, <2>4, <3>1
    <3>2. CASE /\ stored' = Append(stored, <<l, StorePath(batch.site, l)>>)
               /\ StorePath(batch.site, l) \in DOMAIN objects
      <4>1. PICK r \in Results(batch) : r = <<l, StorePath(batch.site, l)>>
        BY <2>3
      <4>2. r[2] \in DOMAIN objects
        BY <3>2, <4>1
      <4>3. ASSUME NEW i \in DOMAIN stored'
            PROVE  stored'[i] = r \/ (i \in DOMAIN stored /\ stored'[i] = stored[i])
        BY <2>4, <3>2, <4>1
      <4> QED
        BY <1>6, <2>4, <4>2, <4>3
    <3> QED
      BY <2>2, <3>1, <3>2
  <2> QED
    BY <1>1, <2>1, <2>5, <2>6 DEF StoreInv
<1>9. CountInv'
  <2> SUFFICES ASSUME batch.site = "bnm" PROVE CountInv'
    BY <1>1 DEF CountInv
  <2>1. /\ session.successes = Len(stored)
        /\ session.successes + session.errors <= Cardinality(Finished)
        /\ ~cancelled => session.successes + session.errors = Cardinality(Finished)
        /\ Cardinality(Finished) \in Nat
    BY <1>1, <1>7, FS_CardinalityType DEF CountInv
  <2>2. Cardinality(Finished \cup {w}) = Cardinality(Finished) + 1
    BY <1>7, FS_AddElement
  <2>3. CASE UNCHANGED <<stored, session>> /\ (at = "finished" => cancelled)
    BY <1>1, <1>2, <1>7, <2>1, <2>2, <2>3 DEF CountInv
  <2>4. CASE UNCHANGED stored /\ at = "finished" /\ BatchError
    <3>1. session' = IncrementError(session)
      BY <2>4 DEF BatchError
    <3>2. /\ session'.successes = session.successes
          /\ session'.errors = session.errors + 1
      BY <1>1, <3>1, SessionOps DEF OneMore
    <3> QED
      BY <1>1, <1>2, <1>7, <2>1, <2>2, <2>4, <3>2, SMTT(30) DEF CountInv
  <2>5. CASE /\ at = "finished" /\ BatchSuccess
             /\ stored' = Append(stored, <<put[w].link, StorePath(batch.site, put[w].link)>>)
    <3>1. session' = IncrementSuccess(session)
      BY <2>5 DEF BatchSuccess
    <3>2. /\ session'.successes = session.successes + 1
          /\ session'.errors = session.errors
      BY <1>1, <3>1 DEF IncrementSuccess, SessionFields
    <3>3. IsSeq(stored)
      BY <1>1 DEF StoreInv, IsSeq
    <3>4. Len(stored') = Len(stored) + 1
      BY <2>5, <3>3, IsSeqAppend
    <3> QED
      BY <1>1, <1>2, <1>7, <2>1, <2>2, <2>5, <3>2, <3>4 DEF CountInv
  <2> QED
    BY <1>3, <2>3, <2>4, <2>5
<1> QED
  BY <1>7, <1>8, <1>9 DEF BatchInv

LEMMA BatchBegins ==
  ASSUME ShapeOK, PhaseInv, pc = "library", NEW b \in Batches, StartBatch(b)
  PROVE  BatchInv'
<1>1. batch = NoBatch /\ stored = <<>> /\ objects = <<>>
  BY DEF PhaseInv
<1>2. /\ batch' = b /\ stored' = <<>> /\ objects' = <<>>
      /\ put' = [w \in Workers |-> IF w \in DOMAIN b.links
                   THEN [at |-> "queued", link |-> b.links[w]] ELSE NoPut]
      /\ session' = CompleteState(InitState(b.site))
  BY <1>1 DEF StartBatch
<1>3. session'.errors = 0 /\ session'.successes = 0
  BY <1>2 DEF CompleteState, InitState, NoSession
<1>4. \A w \in Workers : w \in DOMAIN b.links => b.links[w] \in Range(b.links)
  BY DEF Range
<1>5. PutInv'
  BY <1>2, <1>4 DEF PutInv, NoPut
<1>6. StoreInv'
  BY <1>2 DEF StoreInv
<1>7. Finished' = {}
  BY <1>2 DEF Finished, NoPut
<1>8. CountInv'
  BY <1>2, <1>3, <1>7, FS_EmptySet DEF CountInv
<1> QED
  BY <1>5, <1>6, <1>8 DEF BatchInv

-----------------------------------------------------------------------------
(* What is printed is final *)

\* Nothing is printed while a job is in progress, so a job may go on.
LEMMA JobGoes ==
  ASSUME PrintInv, PhaseInv, Running, NEW p \in Procs,
         UNCHANGED <<pc, queue, printed>>,
         \A q \in Procs \ {p} : job'[q] = job[q],
         p \in Workers => job[p] # NoJob, p = Main => ~Idle(Main)
  PROVE  PrintInv' /\ ~printed
<1>1. pc # "ended" /\ Main \notin Workers /\ Procs = {Main} \cup Workers
  BY CrawlerAssumption DEF PhaseInv, Procs
<1>2. CASE p = Main
  BY <1>1, <1>2 DEF PrintInv, Idle
<1>3. CASE p \in Workers
  BY <1>1, <1>3 DEF PrintInv, Idle
<1> QED
  BY <1>1, <1>2, <1>3

LEMMA JobStepRuns ==
  ASSUME ShapeOK, NEW p \in Procs, JobStep(p) \/ TakeSlot(p)
  PROVE  /\ UNCHANGED <<pc, queue, printed>> /\ ~Idle(p) /\ job[p] # NoJob
         /\ \A q \in Procs \ {p} : job'[q] = job[q]
<1>1. CASE \/ ProcessPDFFromURL(p) \/ ProcessPDFFromURLWithSource(p)
           \/ IngestURLDownloaded(p)
  BY <1>1 DEF ProcessPDFFromURL, ProcessPDFFromURLWithSource, IngestURLDownloaded,
              AfterDownload, Fail, JobUnchanged, ShapeOK, Idle, NoJob
<1>2. CASE OpenPDF(p)
  BY <1>2 DEF OpenPDF, Fail, JobUnchanged, ShapeOK, Idle, NoJob
<1>3. CASE ProcessPage(p)
  BY <1>3 DEF ProcessPage, Fail, JobUnchanged, ShapeOK, Idle, NoJob
<1>4. CASE ChunkDocument(p)
  BY <1>4 DEF ChunkDocument, JobUnchanged, ShapeOK, Idle, NoJob
<1>5. CASE Embedded(p) \/ EmbedGivesUp(p)
  <2>1. /\ job[p].at = "embed" /\ JobUnchanged
        /\ job' = [job EXCEPT ![p].at = AfterEmbedding(p)]
    BY <1>5, Zenon DEF Embedded, EmbedGivesUp
  <2> QED
    BY <2>1 DEF JobUnchanged, ShapeOK, Idle, NoJob
<1>8. CASE EmbedRetry(p)
  BY <1>8 DEF EmbedRetry, JobUnchanged, ShapeOK, Idle, NoJob
<1>6. CASE SaveResults(p)
  BY <1>6 DEF SaveResults, Fail, JobUnchanged, ShapeOK, Idle, NoJob
<1>7. CASE TakeSlot(p)
  BY <1>7 DEF TakeSlot, JobUnchanged, ShapeOK, Idle, NoJob
<1> QED
  BY <1>1, <1>2, <1>3, <1>4, <1>5, <1>6, <1>7, <1>8 DEF JobStep

\* A step of the driver that leaves the jobs alone, from a point where nobody
\* works to another one.
LEMMA DriverGoes ==
  ASSUME PrintInv, PhaseInv, Running, UNCHANGED job,
         pc \notin {"job", "single", "spawn", "wait", "printed"},
         printed' = printed \/ pc' = "printed", pc' # "spawn"
  PROVE  PrintInv' /\ ~printed
<1>1. /\ pc # "ended" /\ Idle(Main) /\ \A w \in Workers : job[w] = NoJob
      /\ ~printed
  BY DEF PrintInv, PhaseInv
<1>2. Idle(Main)' /\ \A w \in Workers : job'[w] = NoJob
  BY <1>1 DEF Idle
<1> QED
  BY <1>1, <1>2 DEF PrintInv

LEMMA GoroutinePrints ==
  ASSUME ShapeOK, PhaseInv, PrintInv, NEW p \in Procs, Goroutine(p)
  PROVE  PrintInv' /\ (printed => stats' = stats)
<1>0. Running
  BY DEF Goroutine
<1>1. CASE UNCHANGED ingestVars
  BY <1>1 DEF ingestVars, PrintInv, Idle
<1>2. CASE JobStep(p)
  BY <1>0, <1>2, JobStepRuns, JobGoes
<1>3. CASE p \in Workers /\ TakeSlot(p)
  BY <1>0, <1>3, JobStepRuns, JobGoes, CrawlerAssumption
<1>4. CASE p \in Workers /\ FileDone(p)
  <2>1. job[p] # NoJob /\ p # Main
    BY <1>4, CrawlerAssumption DEF FileDone, JobOver, NoJob
  <2>2. /\ UNCHANGED <<pc, queue, printed>>
        /\ \A q \in Procs \ {p} : job'[q] = job[q]
    BY <1>4 DEF FileDone, JobUnchanged, ShapeOK
  <2> QED
    BY <1>0, <2>1, <2>2, JobGoes
<1> QED
  BY <1>1, <1>2, <1>3, <1>4 DEF Goroutine

LEMMA DrivePrints ==
  ASSUME ShapeOK, PhaseInv, PrintInv, Drive
  PROVE  PrintInv' /\ (printed => stats' = stats)
<1>0. result = "running" /\ Running /\ DOMAIN job = Procs /\ Main \in Procs
      /\ Main \notin Workers /\ Procs = {Main} \cup Workers
  BY CrawlerAssumption DEF Drive, Running, Procs, ShapeOK
<1>1. CASE StartNothing \/ IngestFatwa
  BY <1>0, <1>1, DriverGoes DEF StartNothing, IngestFatwa, Starts, End
<1>2. CASE IngestBNM \/ IngestPolicy \/ IngestSC \/ IngestIIFA
  BY <1>0, <1>2, DriverGoes DEF IngestBNM, IngestPolicy, IngestSC, IngestIIFA,
                                StartCrawling, Starts
<1>3. CASE IngestDirectory
  BY <1>0, <1>3, DriverGoes DEF IngestDirectory, StartDirectory, Starts, End
<1>4. CASE IngestAAOIFI
  <2>1. /\ pc = "start" /\ pc' \in {"spawn", "ended"} /\ UNCHANGED <<job, printed>>
        /\ queue' = [i \in DOMAIN Files |-> Document(Files[i], <<Files[i]>>, FALSE)]
    BY <1>4 DEF IngestAAOIFI, StartDirectory, Starts, End
  <2>2. IsSeq(queue') /\ Len(queue') = Len(Files)
    <3>1. Files \in Seq(LocalFiles) /\ Len(Files) \in Nat /\ DOMAIN Files = 1 .. Len(Files)
      BY IngestAssumption
    <3> DEFINE D == {Document(Files[i], <<Files[i]>>, FALSE) : i \in 1 .. Len(Files)}
    <3>2. queue' \in [1 .. Len(Files) -> D]
      BY <2>1, <3>1
    <3> HIDE DEF D
    <3>3. queue' \in Seq(D) /\ Len(queue') = Len(Files)
      BY <3>1, <3>2
    <3> QED
      BY <3>3 DEF IsSeq
  <2>3. ~printed /\ Idle(Main) /\ \A w \in Workers : job[w] = NoJob
    BY <2>1 DEF PrintInv
  <2>4. Len(Files) \in Nat
    BY IngestAssumption
  <2> QED
    BY <2>1, <2>2, <2>3, <2>4 DEF PrintInv, Idle
<1>5. CASE IngestFile \/ IngestURL
  <2>1. /\ pc = "start" /\ pc' = "single" /\ UNCHANGED printed
        /\ \A q \in Procs \ {Main} : job'[q] = job[q]
    BY <1>0, <1>5 DEF IngestFile, IngestURL, Starts
  <2> QED
    BY <1>0, <2>1 DEF PrintInv
<1>6. CASE Crawled
  BY <1>0, <1>6, DriverGoes DEF Crawled, End
<1>7. CASE SingleDone
  <2>1. /\ pc = "single" /\ Idle(Main) /\ UNCHANGED job
        /\ \/ pc' = "ended" /\ UNCHANGED printed
           \/ pc' = "printed"
    BY <1>7 DEF SingleDone, JobOver, Idle, End, PrintStats
  <2>2. ~printed /\ \A w \in Workers : job[w] = NoJob
    BY <2>1 DEF PrintInv
  <2> QED
    BY <2>1, <2>2 DEF PrintInv, Idle
<1>8. ASSUME NEW h, DocumentLoop(h) PROVE PrintInv' /\ (printed => stats' = stats)
  <2>1. CASE NextDocument
    BY <1>0, <2>1, DriverGoes DEF NextDocument, PrintStats, End
  <2>2. CASE NextLink
    <3>1. /\ pc = "links" /\ pc' = "job" /\ UNCHANGED printed
          /\ \A q \in Procs \ {Main} : job'[q] = job[q]
      BY <1>0, <2>2 DEF NextLink
    <3> QED
      BY <1>0, <3>1 DEF PrintInv
  <2>3. CASE LinkDone
    <3>1. /\ pc = "job" /\ pc' = "links" /\ UNCHANGED printed
          /\ job'[Main] = NoJob /\ \A q \in Procs \ {Main} : job'[q] = job[q]
      BY <1>0, <2>3 DEF LinkDone
    <3>2. Idle(Main)'
      BY <3>1 DEF Idle, NoJob
    <3> QED
      BY <1>0, <3>1, <3>2 DEF PrintInv
  <2>4. CASE DocumentDone
    <3>1. /\ pc = "links" /\ pc' \in {"portals", "docs"} /\ UNCHANGED <<printed, job>>
      BY <2>4 DEF DocumentDone
    <3> QED
      BY <1>0, <3>1, DriverGoes
  <2> QED
    BY <1>8, <2>1, <2>2, <2>3, <2>4 DEF DocumentLoop
<1>9. CASE NextPortal
  <2>1. /\ pc = "portals" /\ pc' \in {"printed", "ended", "portal", "portals"}
        /\ UNCHANGED job
        /\ printed' = printed \/ pc' = "printed"
    BY <1>9 DEF NextPortal, PrintStats, End
  <2> QED
    BY <1>0, <2>1, DriverGoes
<1>10. CASE FatwaCrawled
  BY <1>0, <1>10, DriverGoes DEF FatwaCrawled
<1>11. CASE Spawn
  <2>1. pc = "spawn" /\ ~printed /\ Idle(Main) /\ IsSeq(queue) /\ Len(queue) <= Len(Files)
    BY <1>11 DEF Spawn, PrintInv
  <2>2. CASE pc' \in {"wait", "ended"} /\ UNCHANGED <<job, printed>>
    BY <2>1, <2>2 DEF PrintInv, Idle
  <2>3. CASE /\ queue # <<>> /\ queue' = Tail(queue) /\ UNCHANGED <<pc, printed>>
             /\ job' = [job EXCEPT ![Len(Files) - Len(queue) + 1] =
                          NewJob("queued", Head(queue).url, "parallel")]
    <3>1. PICK S : queue \in Seq(S)
      BY <2>1 DEF IsSeq
    <3>2. /\ Tail(queue) \in Seq(S) /\ Len(Tail(queue)) = Len(queue) - 1
          /\ Len(queue) \in Nat \ {0}
      BY <2>3, <3>1
    <3>3. Cardinality(Workers) \in Nat /\ Len(Files) \in Nat
      BY CrawlerAssumption, IngestAssumption, FS_CardinalityType
    <3>4. Len(Files) - Len(queue) + 1 \in Workers
      BY <2>1, <3>2, <3>3, IngestAssumption, StoreBatchAssumption
    <3>5. job'[Main] = job[Main]
      BY <1>0, <2>3, <3>4
    <3>6. IsSeq(queue') /\ Len(queue') <= Len(Files)
      BY <2>1, <2>3, <3>2, <3>3 DEF IsSeq
    <3> QED
      BY <2>1, <2>3, <3>5, <3>6 DEF PrintInv, Idle
  <2> QED
    BY <1>11, <2>2, <2>3 DEF Spawn, End
<1>12. CASE Wait
  <2>1. /\ pc = "wait" /\ pc' = "printed" /\ UNCHANGED <<job, stats>>
        /\ \A w \in Workers : job[w] = NoJob
    BY <1>12 DEF Wait, PrintStats
  <2> QED
    BY <2>1 DEF PrintInv, Idle
<1>13. CASE ReturnToShell
  BY <1>13 DEF ReturnToShell, End, PrintInv, Idle
<1>14. CASE LibraryBatch \/ LibraryReturn
  <2>1. /\ pc \in {"library", "batch"} /\ pc' \in {"batch", "ended"}
        /\ UNCHANGED <<job, printed>>
    BY <1>14 DEF LibraryBatch, LibraryReturn, End
  <2> QED
    BY <1>0, <2>1, DriverGoes
<1>15. CASE UNCHANGED ingestVars
  BY <1>15 DEF ingestVars, PrintInv, Idle
<1> QED
  BY <1>1, <1>2, <1>3, <1>4, <1>5, <1>6, <1>7, <1>8, <1>9, <1>10, <1>11, <1>12,
     <1>13, <1>14, <1>15
     DEF Drive, BNMDocuments, PolicyDocuments, DirectoryDocuments, SCDocuments,
         IIFADocuments, FatwaDocuments

LEMMA PrintNext ==
  ASSUME ShapeOK, PhaseInv, PrintInv, [Next]_vars
  PROVE  PrintInv' /\ (printed => stats' = stats)
<1>1. CASE Interrupt \/ Over \/ UNCHANGED vars
  BY <1>1 DEF Interrupt, Over, vars, ingestVars, PrintInv, Idle
<1>2. CASE Kill
  BY <1>2 DEF Kill, End, PrintInv, Idle
<1> QED
  BY <1>1, <1>2, DrivePrints, GoroutinePrints DEF Next

-----------------------------------------------------------------------------
(* The invariant of the crawls and the batches *)

IngestInv == /\ ShapeOK /\ PhaseInv /\ SiteInv /\ TargetInv
             /\ BatchInv /\ PrintInv

LEMMA IngestInit == Init => IngestInv
<1> SUFFICES ASSUME Init PROVE IngestInv
  OBVIOUS
<1>1. /\ crawl = [kind |-> "none", at |-> "none", todo |-> <<>>, page |-> 1,
                  more |-> FALSE, err |-> FALSE]
      /\ session = NoSession
      /\ batch = NoBatch /\ objects = <<>> /\ stored = <<>>
      /\ pc \in {"start", "library"} /\ job = [p \in Procs |-> NoJob]
      /\ printed = FALSE
  BY DEF Init, CrawlInit, BatchInit
<1>2. ShapeOK
  BY <1>1 DEF ShapeOK, NoSession
<1>3. PhaseInv /\ SiteInv /\ TargetInv /\ BatchInv
  BY <1>1 DEF PhaseInv, SiteInv, TargetInv, BatchInv
<1>4. Idle(Main) /\ \A w \in Workers : job[w] = NoJob
  BY <1>1 DEF Idle, NoJob, Procs
<1>5. PrintInv
  BY <1>1, <1>4 DEF PrintInv
<1> QED
  BY <1>2, <1>3, <1>5 DEF IngestInv

LEMMA IngestNext ==
  ASSUME IngestInv, [Next]_vars PROVE IngestInv'
<1>1. ShapeOK' /\ PhaseInv' /\ PrintInv'
  BY ShapeNext, PhaseNext, PrintNext DEF IngestInv
<1>2. ASSUME Quiet PROVE SiteInv' /\ TargetInv' /\ BatchInv'
  <2>1. SiteInv' /\ TargetInv'
    BY <1>2 DEF Quiet, IngestInv, SiteInv, TargetInv, Counted
  <2>2. batch # NoBatch => PutInv' /\ StoreInv' /\ CountInv'
    BY <1>2 DEF Quiet, batchVars, IngestInv, BatchInv, PutInv, StoreInv, CountInv,
                Finished
  <2> QED
    BY <1>2, <2>1, <2>2 DEF Quiet, batchVars, BatchInv
<1>3. ASSUME CrawlStep, UNCHANGED batchVars PROVE SiteInv' /\ TargetInv' /\ BatchInv'
  <2>1. batch = NoBatch /\ batch' = batch
    BY <1>3, CrawlStepShape DEF IngestInv, PhaseInv, batchVars
  <2> QED
    BY <1>3, <2>1, SiteStep, TargetStep DEF IngestInv, BatchInv
<1>4. ASSUME pc \in {"start", "portals"}, Begins, UNCHANGED batchVars
      PROVE  SiteInv' /\ TargetInv' /\ BatchInv'
  <2>1. batch = NoBatch /\ batch' = batch
    BY <1>4 DEF IngestInv, PhaseInv, batchVars
  <2>2. SiteInv'
    <3>1. IsSeq(<<>>) /\ Len(<<>>) = 0 /\ DOMAIN <<>> = {}
      BY DEF IsSeq
    <3> QED
      BY <1>4, <3>1, BeginsShape DEF SiteInv
  <2>3. TargetInv'
    <3> SUFFICES ASSUME crawl'.kind \in {"bnm", "sc"} PROVE TargetInv'
      BY DEF TargetInv
    <3>1. PICK P : /\ P = crawl'.todo /\ P \in Seq(Range(P))
                   /\ P = IF crawl'.kind = "bnm" THEN BnmPages ELSE ScPages
      BY <1>4, BeginsShape, CrawlerAssumption
    <3>2. /\ session'.processed = {} /\ session'.errors = 0 /\ session'.successes = 0
          /\ crawl'.at = "loop"
      BY <1>4, BeginsShape
    <3>3. Len(P) + 0 = Len(P) /\ \A i \in 1 .. Len(P) : P[i] = P[0 + i]
      BY <3>1
    <3>4. Counted(P, 0)'
      BY <3>1, <3>2, <3>3 DEF Counted
    <3> QED
      BY <3>1, <3>2, <3>4 DEF TargetInv
  <2> QED
    BY <2>1, <2>2, <2>3 DEF BatchInv
<1>5. ASSUME pc = "library", NEW b \in Batches, StartBatch(b)
      PROVE  SiteInv' /\ TargetInv' /\ BatchInv'
  <2>1. crawl'.kind = "none"
    BY <1>5 DEF IngestInv, PhaseInv, StartBatch
  <2> QED
    BY <1>5, <2>1, BatchBegins DEF IngestInv, SiteInv, TargetInv
<1>6. ASSUME NEW w \in Workers, BatchGoroutine(w)
      PROVE  SiteInv' /\ TargetInv' /\ BatchInv'
  <2>1. crawl'.kind = "none"
    BY <1>6, BatchGoroutineShape DEF IngestInv, PhaseInv
  <2> QED
    BY <1>6, <2>1, BatchGoes DEF IngestInv, SiteInv, TargetInv
<1>7. SiteInv' /\ TargetInv' /\ BatchInv'
  <2>1. CASE Quiet
    BY <1>2, <2>1
  <2>2. CASE ~Quiet
    BY <1>3, <1>4, <1>5, <1>6, <2>2, Effects
  <2> QED
    BY <2>1, <2>2
<1> QED
  BY <1>1, <1>7 DEF IngestInv

LEMMA ReportedOfInv == IngestInv => ReportedIsStored
<1> SUFFICES ASSUME IngestInv PROVE ReportedIsStored
  OBVIOUS
<1>1. CASE batch = NoBatch
  BY <1>1 DEF IngestInv, PhaseInv, ReportedIsStored, NoBatch
<1>2. CASE batch # NoBatch
  <2>1. PutInv /\ StoreInv /\ CountInv
    BY <1>2 DEF IngestInv, BatchInv
  <2>2. ASSUME NEW i \in DOMAIN stored
        PROVE  LET link == stored[i][1]
                   path == stored[i][2]
               IN  /\ path \in DOMAIN objects
                   /\ Base[objects[path]] = Base[link]
                   /\ (\A l \in Range(batch.links) : Base[l] = Base[link] => l = link)
                        => objects[path] = link
    <3>1. stored[i] \in Results(batch) /\ stored[i][2] \in DOMAIN objects
      BY <2>1 DEF StoreInv
    <3>2. PICK l \in Range(batch.links) : stored[i] = <<l, StorePath(batch.site, l)>>
      BY <3>1 DEF Results
    <3>3. stored[i][1] = l /\ stored[i][2] = <<batch.site, Base[l]>>
      BY <3>2 DEF StorePath
    <3>4. PICK m : /\ m = objects[stored[i][2]] /\ m \in Range(batch.links)
                   /\ stored[i][2] = <<batch.site, Base[m]>>
      BY <2>1, <3>1 DEF StoreInv, StorePath
    <3>5. Base[m] = Base[l]
      BY <3>3, <3>4
    <3> QED
      BY <3>1, <3>3, <3>4, <3>5
  <2>3. ASSUME batch.site = "bnm", BatchOver
        PROVE  /\ session.successes = Len(stored)
               /\ session.successes + session.errors <= Len(batch.links)
               /\ ~cancelled =>
                    session.successes + session.errors = Len(batch.links)
    <3>1. /\ batch.links \in Seq(Links \cup LocalFiles)
          /\ Len(batch.links) <= Cardinality(Workers)
          /\ Workers = 1 .. Cardinality(Workers) /\ Cardinality(Workers) \in Nat
      BY <1>2, CrawlerAssumption, StoreBatchAssumption, FS_CardinalityType
         DEF IngestInv, PhaseInv
    <3>2. DOMAIN batch.links = 1 .. Len(batch.links) /\ Len(batch.links) \in Nat
      BY <3>1
    <3>3. 1 .. Len(batch.links) \subseteq Workers
      BY <3>1, <3>2
    <3>4. Finished = 1 .. Len(batch.links)
      <4>1. \A w \in Workers : put[w].at = "finished" <=> w \in DOMAIN batch.links
        BY <2>1, <2>3 DEF PutInv, BatchOver
      <4> QED
        BY <3>2, <3>3, <4>1 DEF Finished
    <3>5. Cardinality(Finished) = Len(batch.links)
      BY <3>2, <3>4, FS_Interval
    <3> QED
      BY <2>1, <2>3, <3>5 DEF CountInv
  <2> QED
    BY <2>2, <2>3 DEF ReportedIsStored
<1> QED
  BY <1>1, <1>2

LEMMA CountedOfInv == IngestInv => EveryTargetCounted
<1> SUFFICES ASSUME IngestInv PROVE EveryTargetCounted
  OBVIOUS
<1>1. ASSUME crawl.kind \in {"bnm", "sc", "iifa", "fatwa"}
      PROVE  session.successes = Len(docs)
  BY <1>1 DEF IngestInv, SiteInv
<1>2. ASSUME crawl.at = "returned", ~crawl.err, crawl.kind \in {"bnm", "sc"}
      PROVE  session.successes + session.errors
               = Len(IF crawl.kind = "bnm" THEN BnmPages ELSE ScPages)
  <2> DEFINE n == session.successes + session.errors
             P == IF crawl.kind = "bnm" THEN BnmPages ELSE ScPages
  <2>1. n \in Nat /\ Counted(P, n) /\ crawl.todo = <<>>
    BY <1>2 DEF IngestInv, TargetInv, ShapeOK
  <2> HIDE DEF n, P
  <2>2. Len(crawl.todo) + n = Len(P) /\ Len(crawl.todo) = 0
    BY <2>1 DEF Counted
  <2>3. n = Len(P)
    BY <2>1, <2>2
  <2> QED
    BY <2>3 DEF n, P
<1> QED
  BY <1>1, <1>2 DEF EveryTargetCounted

LEMMA PagesOfInv == IngestInv => PagesOnce
<1> SUFFICES ASSUME IngestInv, crawl.kind \in {"bnm", "sc", "iifa", "fatwa"}
             PROVE  IsInjective([i \in DOMAIN docs |-> docs[i].url])
  BY DEF PagesOnce
<1>1. \A i, j \in DOMAIN docs : docs[i].url = docs[j].url => i = j
  BY DEF IngestInv, SiteInv
<1> QED
  BY <1>1 DEF IsInjective

-----------------------------------------------------------------------------
(* The links of the documents *)

DocumentFields == {"url", "pdfs", "text"}
IsDocument(d) == DOMAIN d = DocumentFields /\ IsSeq(d.pdfs)
ListsDocuments(s) == IsSeq(s) /\ \A i \in DOMAIN s : IsDocument(s[i])

LinkSet(s) == UNION {{i} \X DOMAIN s[i].pdfs : i \in DOMAIN s}
LinksIn(s) == Cardinality(LinkSet(s))

LEMMA IsSeqTail ==
  ASSUME NEW s, IsSeq(s)
  PROVE  /\ Len(s) \in Nat /\ DOMAIN s = 1 .. Len(s)
         /\ s = <<>> <=> Len(s) = 0
         /\ s # <<>> => /\ IsSeq(Tail(s)) /\ Len(Tail(s)) = Len(s) - 1
                        /\ DOMAIN Tail(s) = 1 .. Len(s) - 1
                        /\ \A i \in 1 .. Len(s) - 1 : Tail(s)[i] = s[i + 1]
                        /\ Head(s) = s[1] /\ 1 \in DOMAIN s
<1>1. PICK S : s \in Seq(S)
  BY DEF IsSeq
<1>2. s # <<>> => Tail(s) \in Seq(S)
  BY <1>1
<1> QED
  BY <1>1, <1>2 DEF IsSeq

\* There are finitely many links.
LEMMA LinksFinite ==
  ASSUME NEW s, ListsDocuments(s)
  PROVE  IsFiniteSet(LinkSet(s)) /\ LinksIn(s) \in Nat
<1> DEFINE R(i) == {i} \X DOMAIN s[i].pdfs
           F == {R(i) : i \in DOMAIN s}
           f == [i \in DOMAIN s |-> R(i)]
<1>1. IsFiniteSet(DOMAIN s)
  BY IsSeqTail, FS_Interval DEF ListsDocuments
<1>2. f \in Surjection(DOMAIN s, F)
  BY DEF Surjection
<1>3. IsFiniteSet(F)
  <2> HIDE DEF F, f
  <2> QED
    BY <1>1, <1>2, FS_Surjection
<1>4. \A i \in DOMAIN s : IsFiniteSet(R(i))
  <2> SUFFICES ASSUME NEW i \in DOMAIN s PROVE IsFiniteSet(R(i))
    OBVIOUS
  <2>1. IsFiniteSet({i})
    BY FS_Singleton
  <2>2. IsFiniteSet(DOMAIN s[i].pdfs)
    <3>1. PICK q : q = s[i].pdfs /\ IsSeq(q)
      BY DEF ListsDocuments, IsDocument
    <3>2. DOMAIN q = 1 .. Len(q) /\ Len(q) \in Nat
      BY <3>1, IsSeqTail
    <3> QED
      BY <3>1, <3>2, FS_Interval
  <2> QED
    BY <2>1, <2>2, FS_Product
<1>5. \A T \in F : IsFiniteSet(T)
  BY <1>4
<1>6. IsFiniteSet(UNION F)
  <2> HIDE DEF F
  <2> QED
    BY <1>3, <1>5, FS_UNION
<1>7. LinkSet(s) = UNION F
  BY DEF LinkSet
<1> QED
  BY <1>6, <1>7, FS_CardinalityType DEF LinksIn

LEMMA LinkOf ==
  ASSUME NEW s, NEW x
  PROVE  x \in LinkSet(s) <=>
           \E i \in DOMAIN s : \E j \in DOMAIN s[i].pdfs : x = <<i, j>>
BY DEF LinkSet

\* The links of a list are those of its first document and those of the others.
LEMMA LinksOfTail ==
  ASSUME NEW s, ListsDocuments(s), s # <<>>
  PROVE  /\ ListsDocuments(Tail(s)) /\ IsDocument(Head(s))
         /\ LinksIn(s) = Len(Head(s).pdfs) + LinksIn(Tail(s))
<1> DEFINE t == Tail(s)
           A == {1} \X DOMAIN s[1].pdfs
           B == LinkSet(s) \ A
           g == [x \in LinkSet(t) |-> <<x[1] + 1, x[2]>>]
<1>1. /\ IsSeq(t) /\ Len(t) = Len(s) - 1 /\ DOMAIN t = 1 .. Len(s) - 1
      /\ \A i \in 1 .. Len(s) - 1 : t[i] = s[i + 1]
      /\ Head(s) = s[1] /\ 1 \in DOMAIN s
      /\ DOMAIN s = 1 .. Len(s) /\ Len(s) \in Nat
  BY IsSeqTail DEF ListsDocuments
<1>2. ListsDocuments(t) /\ IsDocument(s[1])
  <2>1. \A i \in DOMAIN t : i + 1 \in DOMAIN s
    BY <1>1
  <2> QED
    BY <1>1, <2>1 DEF ListsDocuments
<1>3. IsFiniteSet(A) /\ Cardinality(A) = Len(s[1].pdfs)
  <2>1. DOMAIN s[1].pdfs = 1 .. Len(s[1].pdfs) /\ Len(s[1].pdfs) \in Nat
    BY <1>2, IsSeqTail DEF IsDocument
  <2>2. IsFiniteSet({1}) /\ Cardinality({1}) = 1
    BY FS_Singleton
  <2>3. /\ IsFiniteSet(1 .. Len(s[1].pdfs))
        /\ Cardinality(1 .. Len(s[1].pdfs)) = Len(s[1].pdfs)
    BY <2>1, FS_Interval
  <2>4. IsFiniteSet(A) /\ Cardinality(A) = Cardinality({1}) * Cardinality(DOMAIN s[1].pdfs)
    BY <2>1, <2>2, <2>3, FS_Product
  <2> HIDE DEF A
  <2> QED
    BY <2>1, <2>2, <2>3, <2>4
<1>4. LinkSet(s) = A \cup B /\ A \cap B = {}
  <2>1. \A x \in A : x \in LinkSet(s)
    BY <1>1, LinkOf
  <2> QED
    BY <2>1
<1>5. IsFiniteSet(LinkSet(s)) /\ IsFiniteSet(LinkSet(t))
      /\ LinksIn(s) \in Nat /\ LinksIn(t) \in Nat
  BY <1>2, LinksFinite
<1>6. \A i, j : <<i, j>> \in B <=> i \in 2 .. Len(s) /\ j \in DOMAIN s[i].pdfs
  <2>1. \A i, j : <<i, j>> \in LinkSet(s) <=> i \in DOMAIN s /\ j \in DOMAIN s[i].pdfs
    BY LinkOf
  <2>2. \A i, j : <<i, j>> \in A <=> i = 1 /\ j \in DOMAIN s[1].pdfs
    OBVIOUS
  <2>3. \A x : x \in B <=> x \in LinkSet(s) /\ x \notin A
    OBVIOUS
  <2> HIDE DEF A, B
  <2>4. \A i : i \in DOMAIN s /\ i # 1 <=> i \in 2 .. Len(s)
    BY <1>1
  <2>5. \A i, j : <<i, j>> \in B <=> (i \in DOMAIN s /\ i # 1) /\ j \in DOMAIN s[i].pdfs
    BY <2>1, <2>2, <2>3
  <2> QED
    BY <2>4, <2>5
<1>7. \A i, j : <<i, j>> \in LinkSet(t) <=>
                  i \in 1 .. Len(s) - 1 /\ j \in DOMAIN s[i + 1].pdfs
  <2> HIDE DEF t
  <2>1. \A i, j : <<i, j>> \in LinkSet(t) <=> i \in DOMAIN t /\ j \in DOMAIN t[i].pdfs
    BY LinkOf
  <2> QED
    BY <1>1, <2>1
<1>8. \A x \in LinkSet(t) : x = <<x[1], x[2]>> /\ x[1] \in 1 .. Len(s) - 1
  <2> HIDE DEF t
  <2> SUFFICES ASSUME NEW x \in LinkSet(t)
               PROVE  x = <<x[1], x[2]>> /\ x[1] \in 1 .. Len(s) - 1
    OBVIOUS
  <2>1. PICK i, j : i \in DOMAIN t /\ x = <<i, j>>
    BY LinkOf
  <2> QED
    BY <1>1, <2>1
<1>9. \A x \in B : \E i \in 2 .. Len(s) : \E j : x = <<i, j>>
  BY <1>1, <1>6, LinkOf
<1>10. \A x \in LinkSet(t) : g[x] \in B /\ g[x] = <<x[1] + 1, x[2]>>
  <2> SUFFICES ASSUME NEW x \in LinkSet(t) PROVE <<x[1] + 1, x[2]>> \in B
    OBVIOUS
  <2>1. x = <<x[1], x[2]>> /\ x[1] \in 1 .. Len(s) - 1
    BY <1>8
  <2> HIDE DEF B, t
  <2>2. x[2] \in DOMAIN s[x[1] + 1].pdfs
    BY <1>7, <2>1
  <2>3. x[1] + 1 \in 2 .. Len(s)
    BY <1>1, <2>1
  <2> QED
    BY <1>6, <2>2, <2>3
<1> HIDE DEF A, B
<1>11. g \in Bijection(LinkSet(t), B)
  <2>1. g \in [LinkSet(t) -> B]
    BY <1>10
  <2>2. ASSUME NEW x \in LinkSet(t), NEW y \in LinkSet(t), g[x] = g[y] PROVE x = y
    <3>1. x[1] \in Int /\ y[1] \in Int
      BY <1>1, <1>8
    <3>2. <<x[1] + 1, x[2]>> = <<y[1] + 1, y[2]>>
      BY <1>10, <2>2
    <3>3. x[1] + 1 = y[1] + 1 /\ x[2] = y[2]
      BY <3>2
    <3>4. x[1] = y[1]
      BY <3>1, <3>3
    <3>5. x = <<x[1], x[2]>> /\ y = <<y[1], y[2]>>
      BY <1>8
    <3> QED
      BY <3>3, <3>4, <3>5
  <2>3. ASSUME NEW y \in B PROVE \E x \in LinkSet(t) : g[x] = y
    <3>1. PICK i, j : i \in 2 .. Len(s) /\ y = <<i, j>>
      BY <1>9
    <3>2. i - 1 \in 1 .. Len(s) - 1 /\ (i - 1) + 1 = i
      BY <1>1, <3>1
    <3>3. j \in DOMAIN s[i].pdfs
      BY <1>6, <3>1
    <3>4. <<i - 1, j>> \in LinkSet(t)
      BY <1>7, <3>2, <3>3
    <3>5. g[<<i - 1, j>>] = <<(i - 1) + 1, j>>
      BY <1>10, <3>4
    <3> QED
      BY <3>1, <3>2, <3>4, <3>5
  <2> HIDE DEF g
  <2> QED
    BY <2>1, <2>2, <2>3 DEF Bijection, Injection, Surjection, IsInjective
<1>12. IsFiniteSet(B) /\ Cardinality(B) = LinksIn(t)
  <2> HIDE DEF g
  <2>1. ExistsBijection(LinkSet(t), B)
    BY <1>11 DEF ExistsBijection
  <2> QED
    BY <1>5, <2>1, FS_Bijection DEF LinksIn
<1>13. Cardinality(A \cup B) = Cardinality(A) + Cardinality(B) - Cardinality({})
  BY <1>3, <1>4, <1>12, FS_Union
<1>14. Len(s[1].pdfs) \in Nat
  BY <1>2, IsSeqTail DEF IsDocument
<1>15. Cardinality(LinkSet(s)) = Len(s[1].pdfs) + LinksIn(t)
  BY <1>3, <1>4, <1>5, <1>12, <1>13, <1>14, FS_EmptySet
<1> QED
  BY <1>1, <1>2, <1>15 DEF LinksIn

\* No document, no link.
LEMMA LinksOfNone == ListsDocuments(<<>>) /\ LinksIn(<<>>) = 0
<1>1. LinkSet(<<>>) = {}
  BY DEF LinkSet
<1> QED
  BY <1>1, FS_EmptySet DEF LinksIn, ListsDocuments, IsSeq

\* One link each.
LEMMA LinksOfSingles ==
  ASSUME NEW n \in Nat, NEW s, DOMAIN s = 1 .. n, IsSeq(s),
         \A i \in 1 .. n : IsDocument(s[i]) /\ DOMAIN s[i].pdfs = {1}
  PROVE  ListsDocuments(s) /\ LinksIn(s) = n
<1> DEFINE g == [i \in 1 .. n |-> <<i, 1>>]
<1>1. \A x : x \in LinkSet(s) <=> \E i \in 1 .. n : x = <<i, 1>>
  BY LinkOf
<1>2. g \in Bijection(1 .. n, LinkSet(s))
  <2>1. g \in [1 .. n -> LinkSet(s)] /\ \A i \in 1 .. n : g[i] = <<i, 1>>
    BY <1>1
  <2> HIDE DEF g
  <2>2. \A i, j \in 1 .. n : g[i] = g[j] => i = j
    BY <2>1
  <2>3. \A x \in LinkSet(s) : \E i \in 1 .. n : g[i] = x
    BY <1>1, <2>1
  <2> QED
    BY <2>1, <2>2, <2>3 DEF Bijection, Injection, Surjection, IsInjective
<1>3. ExistsBijection(1 .. n, LinkSet(s))
  BY <1>2 DEF ExistsBijection
<1>4. IsFiniteSet(1 .. n) /\ Cardinality(1 .. n) = n
  BY FS_Interval
<1> HIDE DEF g
<1>5. Cardinality(LinkSet(s)) = n
  BY <1>3, <1>4, FS_Bijection
<1> QED
  BY <1>5 DEF LinksIn, ListsDocuments

\* Documents of one link, as the policy pages, the scripts and the local
\* directories give them.
LEMMA SinglesList ==
  ASSUME NEW n \in Nat, NEW s, s = [i \in 1 .. n |-> s[i]],
         \A i \in 1 .. n : \E u, l : s[i] = Document(u, <<l>>, FALSE)
  PROVE  ListsDocuments(s) /\ Len(s) = n /\ LinksIn(s) = n
<1>1. DOMAIN s = 1 .. n
  OBVIOUS
<1>2. PICK S : \A i \in 1 .. n : s[i] \in S
  <2> WITNESS {s[i] : i \in 1 .. n}
  <2> QED
    OBVIOUS
<1>3. s \in [1 .. n -> S]
  BY <1>2
<1>4. s \in Seq(S) /\ Len(s) = n
  BY <1>3
<1>5. IsSeq(s)
  BY <1>4 DEF IsSeq
<1>6. ASSUME NEW i \in 1 .. n PROVE IsDocument(s[i]) /\ DOMAIN s[i].pdfs = {1}
  <2>1. PICK u, l : s[i] = Document(u, <<l>>, FALSE)
    OBVIOUS
  <2>2. DOMAIN s[i] = DocumentFields /\ s[i].pdfs = <<l>>
    BY <2>1 DEF Document, DocumentFields
  <2>3. <<l>> \in Seq({l}) /\ DOMAIN <<l>> = {1}
    OBVIOUS
  <2> QED
    BY <2>2, <2>3 DEF IsDocument, IsSeq
<1> QED
  BY <1>1, <1>4, <1>5, <1>6, LinksOfSingles

LEMMA ListsAppend ==
  ASSUME NEW s, ListsDocuments(s), NEW d, IsDocument(d)
  PROVE  ListsDocuments(Append(s, d))
<1>1. /\ IsSeq(Append(s, d)) /\ Len(s) \in Nat
      /\ DOMAIN s = 1 .. Len(s) /\ DOMAIN Append(s, d) = 1 .. Len(s) + 1
      /\ \A i \in 1 .. Len(s) : Append(s, d)[i] = s[i]
      /\ Append(s, d)[Len(s) + 1] = d
  BY IsSeqAppend DEF ListsDocuments
<1>2. \A i \in 1 .. Len(s) + 1 : i \in 1 .. Len(s) \/ i = Len(s) + 1
  BY <1>1
<1> QED
  BY <1>1, <1>2 DEF ListsDocuments

LEMMA ListsConcat ==
  ASSUME NEW s, ListsDocuments(s), NEW t, ListsDocuments(t)
  PROVE  ListsDocuments(s \o t)
<1>1. PICK S : s \in Seq(S)
  BY DEF ListsDocuments, IsSeq
<1>2. PICK T : t \in Seq(T)
  BY DEF ListsDocuments, IsSeq
<1>3. s \in Seq(S \cup T) /\ t \in Seq(S \cup T)
  BY <1>1, <1>2, SeqMonotonic
<1>4. /\ s \o t \in Seq(S \cup T)
      /\ Len(s) \in Nat /\ Len(t) \in Nat
      /\ DOMAIN s = 1 .. Len(s) /\ DOMAIN t = 1 .. Len(t)
  BY <1>3
<1>5. /\ DOMAIN (s \o t) = 1 .. Len(s) + Len(t)
      /\ \A i \in 1 .. Len(s) + Len(t) :
           (s \o t)[i] = IF i <= Len(s) THEN s[i] ELSE t[i - Len(s)]
  BY <1>3
<1>6. ASSUME NEW i \in 1 .. Len(s) + Len(t) PROVE IsDocument((s \o t)[i])
  <2>1. i \in 1 .. Len(s) \/ (i - Len(s) \in 1 .. Len(t) /\ ~(i <= Len(s)))
    BY <1>4
  <2> QED
    BY <1>4, <1>5, <2>1 DEF ListsDocuments
<1> QED
  BY <1>4, <1>5, <1>6 DEF ListsDocuments, IsSeq

\* What a crawl gathers: documents; a portal that answered gives one, and the
\* links of the policy pages are links.
DocsInv ==
    /\ ListsDocuments(docs)
    /\ crawl.kind = "policy" => crawl.todo \in Seq(Links)
    /\ crawl.kind = "fatwa" /\ crawl.at = "returned" /\ ~crawl.err => Len(docs) = 1

LEMMA PageIsDocument ==
  ASSUME NEW u, NEW pdfs \in PageLinks, NEW text PROVE IsDocument(Document(u, pdfs, text))
<1>1. pdfs \in Seq(Links)
  BY CrawlerAssumption
<1>2. IsSeq(pdfs)
  BY <1>1 DEF IsSeq
<1> QED
  BY <1>2 DEF IsDocument, Document, DocumentFields

LEMMA EntriesMany ==
  ASSUME NEW S, NEW s \in Seq(S), NEW I \in SUBSET (DOMAIN s)
  PROVE  Cardinality(I) \in Nat /\ DOMAIN Entries(s, I) = 1 .. Cardinality(I)
<1>1. IsFiniteSet(DOMAIN s)
  <2>1. DOMAIN s = 1 .. Len(s) /\ Len(s) \in Nat
    OBVIOUS
  <2> QED
    BY <2>1, FS_Interval
<1>2. IsFiniteSet(I)
  BY <1>1, FS_Subset
<1> QED
  BY <1>2, FS_CardinalityType DEF Entries

\* SetToSeq is a sequence of the files found.
LEMMA ScanIsSequence ==
  ASSUME NEW files \in ScanForPDFs
  PROVE  \E n \in Nat : DOMAIN files = 1 .. n
<1>1. PICK F \in SUBSET LocalFiles : files = SetToSeq(F)
  BY DEF ScanForPDFs
<1>2. IsFiniteSet(F)
  BY CrawlerAssumption, FS_Subset
<1>3. Cardinality(F) \in Nat /\ ExistsBijection(1 .. Cardinality(F), F)
  BY <1>2, FS_CardinalityType
<1>4. \E f \in [1 .. Cardinality(F) -> F] : IsInjective(f)
  BY <1>3 DEF ExistsBijection, Bijection, Injection
<1>5. files \in [1 .. Cardinality(F) -> F]
  BY <1>1, <1>4 DEF SetToSeq
<1> QED
  BY <1>3, <1>5

LEMMA ScriptLists ==
  ASSUME NEW files \in ScanForPDFs, NEW links \in Seq(Links)
  PROVE  ListsDocuments(ScriptDocuments(files, links))
<1> DEFINE names == {Base[f] : f \in Range(files)}
           I == {i \in DOMAIN links : Base[links[i]] \notin names}
           rest == Entries(links, I)
           A == [i \in DOMAIN files |-> Document(ListingPages[1], <<files[i]>>, FALSE)]
           B == [i \in DOMAIN rest |-> Document(rest[i], <<rest[i]>>, FALSE)]
<1>1. PICK n \in Nat : DOMAIN files = 1 .. n
  BY ScanIsSequence
<1>2. ListsDocuments(A)
  <2>1. /\ A = [i \in 1 .. n |-> A[i]]
        /\ \A i \in 1 .. n : A[i] = Document(ListingPages[1], <<files[i]>>, FALSE)
    BY <1>1
  <2> HIDE DEF A
  <2> QED
    BY <2>1, SinglesList
<1>3. PICK m \in Nat : DOMAIN rest = 1 .. m
  <2>1. I \in SUBSET (DOMAIN links)
    OBVIOUS
  <2> HIDE DEF I
  <2> QED
    BY <2>1, EntriesMany
<1>4. ListsDocuments(B)
  <2> HIDE DEF rest
  <2>1. /\ B = [i \in 1 .. m |-> B[i]]
        /\ \A i \in 1 .. m : B[i] = Document(rest[i], <<rest[i]>>, FALSE)
    BY <1>3
  <2> HIDE DEF B
  <2>2. \A i \in 1 .. m : \E u, l : B[i] = Document(u, <<l>>, FALSE)
    BY <2>1
  <2> QED
    BY <2>1, <2>2, SinglesList
<1>5. ScriptDocuments(files, links) = A \o B
  BY DEF ScriptDocuments
<1> HIDE DEF A, B
<1> QED
  BY <1>2, <1>4, <1>5, ListsConcat

LEMMA LinksFiles ==
  /\ ReadLinksFile \subseteq Seq(Links)
  /\ ReadTwoLinksFiles \subseteq Seq(Links)
<1>0. <<>> \in Seq(Links)
  OBVIOUS
<1>1. \A l \in ReadLinksFile : l \in Seq(Links)
  BY <1>0, CrawlerAssumption DEF ReadLinksFile
<1>2. ASSUME NEW x \in ReadTwoLinksFiles PROVE x \in Seq(Links)
  <2>1. PICK l \in ReadLinksFile, m \in ReadLinksFile : x = l \o m
    BY DEF ReadTwoLinksFiles
  <2>2. l \in Seq(Links) /\ m \in Seq(Links)
    BY <1>1
  <2> QED
    BY <2>1, <2>2
<1> QED
  BY <1>1, <1>2

LEMMA DocsStep ==
  ASSUME ShapeOK, DocsInv, CrawlStep
  PROVE  DocsInv' /\ crawl.at # "returned" /\ crawl'.kind = crawl.kind
<1>0. DOMAIN crawl = {"kind", "at", "todo", "page", "more", "err"}
      /\ DOMAIN crawl' = DOMAIN crawl /\ crawl'.kind = crawl.kind
  BY CrawlStepShape DEF ShapeOK
<1>1. ASSUME UNCHANGED docs, crawl.kind \notin {"policy", "fatwa"} PROVE DocsInv'
  BY <1>0, <1>1 DEF DocsInv
<1>2. CASE BNMCrawl \/ SCCrawl
  <2>1. UNCHANGED docs /\ crawl.kind \in {"bnm", "sc"} /\ crawl.at = "loop"
    BY <1>2 DEF BNMCrawl, SCCrawl, NextTarget
  <2> QED
    BY <1>0, <1>1, <2>1
<1>3. CASE BNMCrawlPage \/ SCCrawlPage
  <2>1. /\ crawl.kind \in {"bnm", "sc"} /\ crawl.at = "page"
        /\ PageCrawled(PageLinks) \/ PageFailed
    BY <1>3 DEF BNMCrawlPage, SCCrawlPage, ExtractPDFLinks, ExtractSCDocumentLinks,
                PageCrawled, PageFailed
  <2>2. CASE PageFailed
    BY <1>1, <2>1, <2>2 DEF PageFailed
  <2>3. CASE PageCrawled(PageLinks)
    <3>1. PICK pdfs \in PageLinks, text \in BOOLEAN :
             docs' = Append(docs, Document(Head(crawl.todo), pdfs, text))
      BY <2>3 DEF PageCrawled
    <3>2. ListsDocuments(docs')
      BY <3>1, PageIsDocument, ListsAppend DEF DocsInv
    <3> QED
      BY <1>0, <2>1, <3>2 DEF DocsInv
  <2> QED
    BY <2>1, <2>2, <2>3
<1>4. CASE FatwaCrawl
  <2>1. UNCHANGED docs /\ crawl.at = "loop" /\ crawl' = [crawl EXCEPT !.at = "page"]
        /\ crawl.kind = "fatwa"
    BY <1>4 DEF FatwaCrawl
  <2> QED
    BY <1>0, <2>1 DEF DocsInv
<1>5. CASE FatwaCrawlPage
  <2>1. crawl.kind = "fatwa" /\ crawl.at = "page"
    BY <1>5 DEF FatwaCrawlPage
  <2>2. CASE Got(Main)
             /\ \E pdfs \in ExtractPDFLinks :
                  docs' = <<Document(Head(crawl.todo), pdfs, TRUE)>>
    <3>1. PICK pdfs \in PageLinks :
             docs' = <<Document(Head(crawl.todo), pdfs, TRUE)>>
      BY <2>2 DEF ExtractPDFLinks
    <3>2. PICK d : d = Document(Head(crawl.todo), pdfs, TRUE) /\ docs' = <<d>>
      BY <3>1
    <3>3. IsDocument(d)
      BY <3>2, PageIsDocument
    <3>4. docs' \in Seq({d}) /\ Len(docs') = 1 /\ DOMAIN docs' = {1} /\ docs'[1] = d
      BY <3>2
    <3> QED
      BY <1>0, <2>1, <3>3, <3>4 DEF DocsInv, ListsDocuments, IsSeq
  <2>3. CASE crawl' = [crawl EXCEPT !.at = "returned", !.err = TRUE] /\ UNCHANGED docs
    <3>1. crawl'.err
      BY <1>0, <2>3
    <3> QED
      BY <1>0, <2>1, <2>3, <3>1 DEF DocsInv
  <2> QED
    BY <1>5, <2>1, <2>2, <2>3 DEF FatwaCrawlPage
<1>6. CASE IIFAListing \/ IIFAExtractLinks \/ IIFANextLink
  <2>1. UNCHANGED docs /\ crawl.kind = "iifa"
        /\ crawl.at \in {"loop", "listing", "links"}
    BY <1>6, Zenon DEF IIFAListing, IIFAExtractLinks, IIFANextLink
  <2> QED
    BY <1>0, <1>1, <2>1
<1>7. CASE IIFAResolution
  <2>1. crawl.kind = "iifa" /\ crawl.at = "resolution"
    BY <1>7 DEF IIFAResolution
  <2>2. CASE UNCHANGED docs
    BY <1>0, <1>1, <2>1, <2>2
  <2>3. CASE \E pdfs \in ExtractPDFLinks :
               docs' = Append(docs, Document(Head(crawl.todo), pdfs, TRUE))
    <3>1. PICK pdfs \in PageLinks :
             docs' = Append(docs, Document(Head(crawl.todo), pdfs, TRUE))
      BY <2>3 DEF ExtractPDFLinks
    <3>2. ListsDocuments(docs')
      BY <3>1, PageIsDocument, ListsAppend DEF DocsInv
    <3> QED
      BY <1>0, <2>1, <3>2 DEF DocsInv
  <2> QED
    BY <1>7, <2>1, <2>2, <2>3 DEF IIFAResolution
<1>8. CASE PolicyLoad
  <2>1. crawl.kind = "policy" /\ crawl.at = "loop" /\ UNCHANGED docs
        /\ \/ crawl' = [crawl EXCEPT !.at = "returned", !.err = TRUE]
           \/ crawl' = [crawl EXCEPT !.at = "table"]
    BY <1>8 DEF PolicyLoad, Return
  <2>2. crawl'.todo = crawl.todo
    BY <1>0, <2>1
  <2> QED
    BY <1>0, <2>1, <2>2 DEF DocsInv
<1>9. CASE PolicyTable
  <2>1. crawl.kind = "policy" /\ crawl.at = "table" /\ UNCHANGED docs
    BY <1>9 DEF PolicyTable
  <2>2. crawl'.todo \in Seq(Links)
    <3>1. crawl.todo \in Seq(Links)
      BY <2>1 DEF DocsInv
    <3>2. CASE crawl' = [crawl EXCEPT !.at = "tabled"]
      BY <1>0, <3>1, <3>2
    <3>3. ASSUME NEW links \in PageLinks, NEW at,
                 crawl' = [crawl EXCEPT !.todo = @ \o links, !.page = @ + 1, !.at = at]
          PROVE  crawl'.todo \in Seq(Links)
      <4>1. links \in Seq(Links)
        BY CrawlerAssumption
      <4>2. crawl'.todo = crawl.todo \o links
        BY <1>0, <3>3
      <4> QED
        BY <3>1, <4>1, <4>2
    <3> QED
      BY <1>9, <3>2, <3>3 DEF PolicyTable
  <2> QED
    BY <1>0, <2>1, <2>2 DEF DocsInv
<1>10. CASE PolicyReturn
  <2>1. crawl.kind = "policy" /\ crawl.at = "tabled"
        /\ crawl' = [crawl EXCEPT !.at = "returned", !.err = FALSE]
        /\ docs' = [i \in DOMAIN Deduplicate(crawl.todo) |->
                     Document(ListingPages[1], <<Deduplicate(crawl.todo)[i]>>, FALSE)]
    BY <1>10 DEF PolicyReturn, Return
  <2>2. crawl.todo \in Seq(Links) /\ crawl'.todo = crawl.todo
    BY <1>0, <2>1 DEF DocsInv
  <2>3. PICK D : D = Deduplicate(crawl.todo)
    OBVIOUS
  <2>4. PICK I : /\ I \in SUBSET (DOMAIN crawl.todo)
                 /\ D = Entries(crawl.todo, I)
    BY <2>3 DEF Deduplicate
  <2>5. PICK n \in Nat : DOMAIN D = 1 .. n
    BY <2>2, <2>4, EntriesMany
  <2>6. docs' = [i \in 1 .. n |-> Document(ListingPages[1], <<D[i]>>, FALSE)]
    BY <2>1, <2>3, <2>5
  <2>7. docs' = [i \in 1 .. n |-> docs'[i]]
        /\ \A i \in 1 .. n : docs'[i] = Document(ListingPages[1], <<D[i]>>, FALSE)
    BY <2>6
  <2>8. ListsDocuments(docs')
    BY <2>7, SinglesList
  <2> QED
    BY <1>0, <2>1, <2>2, <2>8 DEF DocsInv
<1>11. CASE ScriptFails
  <2>1. crawl.kind = "script" /\ crawl.at = "loop" /\ UNCHANGED docs
    BY <1>11 DEF ScriptFails
  <2> QED
    BY <1>0, <1>1, <2>1
<1>12. CASE BNMScript \/ SCScript \/ IIFAScript
  <2>1. /\ crawl.kind = "script" /\ crawl.at = "loop"
        /\ \E files \in ScanForPDFs, links \in ReadLinksFile \cup ReadTwoLinksFiles :
              docs' = ScriptDocuments(files, links)
    BY <1>12, Zenon DEF BNMScript, SCScript, IIFAScript, ScriptEnds
  <2>2. PICK files \in ScanForPDFs, links \in Seq(Links) :
           docs' = ScriptDocuments(files, links)
    BY <2>1, LinksFiles
  <2>3. ListsDocuments(docs')
    BY <2>2, ScriptLists
  <2> QED
    BY <1>0, <2>1, <2>3 DEF DocsInv
<1> QED
  BY <1>2, <1>3, <1>4, <1>5, <1>6, <1>7, <1>8, <1>9, <1>10, <1>11, <1>12 DEF CrawlStep

\* A crawl that begins has gathered nothing.
LEMMA DocsBegin ==
  ASSUME Begins PROVE DocsInv'
<1>1. /\ docs' = <<>> /\ crawl'.at = "loop"
      /\ crawl'.kind = "policy" => crawl'.todo = <<>>
  BY DEF Begins, StartCrawl
<1>2. ListsDocuments(docs')
  <2>1. docs' = <<>>
    BY <1>1
  <2> QED
    BY <2>1, LinksOfNone, Zenon
<1>3. <<>> \in Seq(Links)
  OBVIOUS
<1> QED
  BY <1>1, <1>2, <1>3 DEF DocsInv

-----------------------------------------------------------------------------
(* The statistics *)

StatFields == {"found", "processed", "downloaded", "pages", "chunks",
               "embeddings", "errors"}
JobFields == {"at", "link", "how", "total", "pages", "attempt"}

\* Sources read document by document, and those whose functions count the
\* embeddings a second time.
Crawlable == {"bnm", "policy", "sc", "iifa"}
Looped == Crawlable \cup {"directory"}
Twice == {"policy", "sc", "iifa", "fatwa", "directory"}

StatShape == stats \in [StatFields -> Nat]

JobShape == \A p \in Procs :
    /\ DOMAIN job[p] = JobFields
    /\ IsSeq(job[p].pages) /\ job[p].total \in Nat
    /\ job[p].how \in CountedTwice => Handler(cmd) \in Twice
    /\ job[p].how = "ingestURL" => Handler(cmd) = "url"

\* Where the command of a source may be, and what has not happened there yet.
PlaceInv ==
    /\ pc = "crawl" => Handler(cmd) \in Crawlable
    /\ pc = "docs" => Handler(cmd) \in Looped
    /\ pc \in {"links", "job"} => Handler(cmd) \in Looped \cup {"fatwa"}
    /\ pc \in {"portals", "portal"} => Handler(cmd) = "fatwa"
    /\ pc = "portal" => crawl.kind = "fatwa"
    /\ pc \in {"spawn", "wait"} => Handler(cmd) = "aaoifi"
    /\ pc = "single" => Handler(cmd) \in {"file", "process", "url"}
    /\ Handler(cmd) \in Crawlable /\ pc \notin {"start", "crawl"} =>
         crawl.at = "returned"
    /\ pc \in {"start", "crawl"} => stats = Stats

\* The pages whose chunks have no embedding yet: each may be counted again.
PendingOf(f) ==
    UNION {{p} \X DOMAIN f[p].pages : p \in {q \in Procs : f[q].at = "embed"}}
Pending == PendingOf(job)
EmbedInv ==
    /\ IsFiniteSet(Pending)
    /\ IF Handler(cmd) \in Twice
       THEN stats.embeddings + 2 * Cardinality(Pending) <= 2 * stats.chunks
       ELSE stats.embeddings + Cardinality(Pending) <= stats.chunks

\* A document taken from the queue is in progress until it is counted, and so
\* is each of its links.
AllLinks == IF Handler(cmd) = "directory" THEN stats.found ELSE LinksIn(docs)
LoopInv == Handler(cmd) \in Looped /\ pc \in {"docs", "links", "job"} =>
    /\ ListsDocuments(queue)
    /\ pc # "docs" => IsDocument(current)
    /\ stats.processed + Len(queue) + (IF pc = "docs" THEN 0 ELSE 1) = stats.found
    /\ stats.downloaded + stats.errors + LinksIn(queue)
         + (IF pc = "docs" THEN 0 ELSE Len(current.pdfs))
         + (IF pc = "job" THEN 1 ELSE 0) = AllLinks

FatwaInv == Handler(cmd) = "fatwa" /\ pc \in {"portals", "portal", "links", "job"} =>
    stats.processed + (IF pc \in {"links", "job"} THEN 1 ELSE 0) = stats.found

\* The files of a directory: in the queue, at a goroutine, or counted.
Active == {w \in Workers : job[w] # NoJob}
FilesInv == pc \in {"spawn", "wait"} =>
    /\ pc = "wait" => queue = <<>>
    /\ stats.found = Len(Files)
    /\ stats.processed + stats.errors + Cardinality(Active) + Len(queue) = Len(Files)
    /\ \A w \in Workers : w > Len(Files) - Len(queue) => job[w] = NoJob

PrintedInv == printed =>
    LET h == Handler(cmd)
    IN  /\ h = "aaoifi" => stats.processed + stats.errors = stats.found
        /\ h \in Looped \cup {"fatwa"} => stats.processed = stats.found
        /\ h \in Crawlable => stats.downloaded + stats.errors = LinksIn(docs)
        /\ h = "directory" => stats.downloaded + stats.errors = stats.found

StatsInv == /\ StatShape /\ JobShape /\ PlaceInv /\ EmbedInv
            /\ LoopInv /\ FatwaInv /\ FilesInv /\ PrintedInv

LEMMA StatNumbers ==
  ASSUME NEW s \in [StatFields -> Nat]
  PROVE  /\ s.found \in Nat /\ s.processed \in Nat /\ s.downloaded \in Nat
         /\ s.chunks \in Nat /\ s.embeddings \in Nat /\ s.errors \in Nat
BY DEF StatFields

LEMMA StatsZero ==
  /\ Stats \in [StatFields -> Nat]
  /\ Stats.found = 0 /\ Stats.processed = 0 /\ Stats.downloaded = 0
  /\ Stats.errors = 0 /\ Stats.chunks = 0 /\ Stats.embeddings = 0
<1>1. Stats = [f \in StatFields |-> 0]
  BY DEF Stats, StatFields
<1> QED
  BY <1>1 DEF StatFields

LEMMA StatsFrame ==
  ASSUME StatsInv, UNCHANGED <<crawl, docs, ingestVars>>
  PROVE  StatsInv'
<1>0. UNCHANGED <<crawl, docs, cmd, pc, queue, current, job, stats, printed>>
  BY DEF ingestVars
<1>1. StatShape' /\ JobShape'
  BY <1>0 DEF StatsInv, StatShape, JobShape
<1>2. PlaceInv'
  BY <1>0 DEF StatsInv, PlaceInv
<1>3. EmbedInv'
  BY <1>0 DEF StatsInv, EmbedInv, Pending
<1>4. LoopInv'
  BY <1>0 DEF StatsInv, LoopInv, AllLinks
<1>5. FatwaInv' /\ FilesInv'
  BY <1>0 DEF StatsInv, FatwaInv, FilesInv, Active
<1>6. PrintedInv'
  BY <1>0 DEF StatsInv, PrintedInv
<1> QED
  BY <1>1, <1>2, <1>3, <1>4, <1>5, <1>6 DEF StatsInv

LEMMA StatsCrawl ==
  ASSUME ShapeOK, PhaseInv, PrintInv, DocsInv, StatsInv, Running,
         CrawlStep, UNCHANGED <<batchVars, ingestVars>>
  PROVE  StatsInv'
<1>0. /\ UNCHANGED <<cmd, pc, queue, current, job, stats, printed>>
      /\ crawl.at # "returned" /\ crawl'.kind = crawl.kind
  BY DocsStep DEF ingestVars
<1>1. StatShape' /\ JobShape'
  BY <1>0 DEF StatsInv, StatShape, JobShape
<1>2. Handler(cmd) \in Crawlable => pc \in {"start", "crawl"}
  BY <1>0 DEF StatsInv, PlaceInv
<1>3. PlaceInv'
  BY <1>0, <1>2 DEF StatsInv, PlaceInv
<1>4. EmbedInv'
  BY <1>0 DEF StatsInv, EmbedInv, Pending
<1>5. LoopInv'
  BY <1>0, <1>2 DEF StatsInv, LoopInv, AllLinks, Looped
<1>6. FatwaInv' /\ FilesInv'
  BY <1>0 DEF StatsInv, FatwaInv, FilesInv, Active
<1>7. PrintedInv'
  <2>1. printed => pc \notin {"start", "crawl"}
    BY DEF PrintInv
  <2> QED
    BY <1>0, <1>2, <2>1 DEF StatsInv, PrintedInv
<1> QED
  BY <1>1, <1>3, <1>4, <1>5, <1>6, <1>7 DEF StatsInv

\* The command ends, or a batch begins: nothing is counted.
LEMMA StatsLeave ==
  ASSUME StatsInv, UNCHANGED <<cmd, job, stats, docs, crawl, printed>>,
         pc' \in {"ended", "batch"},
         Handler(cmd) \in Crawlable => crawl.at = "returned"
  PROVE  StatsInv'
<1>1. StatShape' /\ JobShape'
  BY DEF StatsInv, StatShape, JobShape
<1>3. PlaceInv'
  BY DEF StatsInv, PlaceInv
<1>4. EmbedInv'
  BY DEF StatsInv, EmbedInv, Pending
<1>5. LoopInv' /\ FatwaInv' /\ FilesInv'
  BY DEF LoopInv, FatwaInv, FilesInv
<1>7. PrintedInv'
  BY DEF StatsInv, PrintedInv
<1> QED
  BY <1>1, <1>3, <1>4, <1>5, <1>7 DEF StatsInv

-----------------------------------------------------------------------------
(* A step of a PDF *)

LEMMA PendingPage ==
  ASSUME NEW f, NEW x
  PROVE  x \in PendingOf(f) <=>
           \E q \in Procs : \E i \in DOMAIN f[q].pages : f[q].at = "embed" /\ x = <<q, i>>
BY DEF PendingOf

\* What a step of a PDF does to its job and to the statistics.
LEMMA JobEffect ==
  ASSUME NEW p \in Procs, ShapeOK, JobShape, StatShape, JobStep(p)
  PROVE  /\ UNCHANGED <<cmd, pc, queue, current, printed, result, crawl, docs>>
         /\ ~Idle(p)
         /\ DOMAIN job' = Procs /\ \A q \in Procs \ {p} : job'[q] = job[q]
         /\ DOMAIN job'[p] = JobFields /\ IsSeq(job'[p].pages) /\ job'[p].total \in Nat
         /\ job'[p].how = job[p].how /\ job'[p].at # "none"
         /\ \/ /\ stats' = stats
               /\ job'[p].at = "embed" =>
                    job[p].at = "embed" /\ job'[p].pages = job[p].pages
            \/ /\ stats' = Count(stats, "downloaded", 1)
               /\ job[p].how = "ingestURL" /\ job'[p].at # "embed"
            \/ /\ stats' = Count(Count(stats, "pages", job[p].total),
                                 "chunks", Len(job[p].pages))
               /\ job'[p].pages = job[p].pages
            \/ /\ stats' = Count(stats, "embeddings",
                             (IF job[p].how \in CountedTwice THEN 2 ELSE 1)
                             * Len(job[p].pages))
               /\ job[p].at = "embed" /\ job'[p].at # "embed"
<1>0. DOMAIN job = Procs /\ DOMAIN job[p] = JobFields /\ IsSeq(job[p].pages)
      /\ job[p].total \in Nat
  BY DEF ShapeOK, JobShape
<1> USE DEF JobFields
<1>1. ASSUME NEW at, at # "none", job' = [job EXCEPT ![p].at = at]
      PROVE  /\ DOMAIN job' = Procs /\ \A q \in Procs \ {p} : job'[q] = job[q]
             /\ DOMAIN job'[p] = JobFields /\ IsSeq(job'[p].pages)
             /\ job'[p].total \in Nat
             /\ job'[p].how = job[p].how /\ job'[p].at = at
             /\ job'[p].pages = job[p].pages
  BY <1>0, <1>1
<1>2. CASE ProcessPDFFromURL(p) \/ ProcessPDFFromURLWithSource(p)
  <2>1. /\ UNCHANGED <<cmd, pc, queue, current, printed, result, crawl, docs, stats>>
        /\ job[p].at = "fetch"
        /\ \/ job' = [job EXCEPT ![p].at = "failed"]
           \/ job' = [job EXCEPT ![p].at = "open"]
    BY <1>2 DEF ProcessPDFFromURL, ProcessPDFFromURLWithSource, AfterDownload,
                JobUnchanged, Fail
  <2> QED
    BY <1>1, <2>1 DEF Idle
<1>3. CASE IngestURLDownloaded(p)
  <2>1. /\ UNCHANGED <<cmd, pc, queue, current, printed, result, crawl, docs>>
        /\ job[p].at = "fetch" /\ job[p].how = "ingestURL"
        /\ \/ job' = [job EXCEPT ![p].at = "failed"] /\ stats' = stats
           \/ job' = [job EXCEPT ![p].at = "open"]
              /\ stats' = Count(stats, "downloaded", 1)
    BY <1>3 DEF IngestURLDownloaded, AfterDownload, JobUnchanged, Fail
  <2> QED
    BY <1>1, <2>1 DEF Idle
<1>4. CASE OpenPDF(p)
  <2>1. /\ UNCHANGED <<cmd, pc, queue, current, printed, result, crawl, docs, stats>>
        /\ job[p].at = "open"
        /\ \/ job' = [job EXCEPT ![p].at = "failed"]
           \/ \E n \in PageCounts :
                job' = [job EXCEPT ![p].at = "pages", ![p].total = n]
    BY <1>4 DEF OpenPDF, JobUnchanged, Fail, crawlVars
  <2>2. CASE job' = [job EXCEPT ![p].at = "failed"]
    BY <1>1, <2>1, <2>2 DEF Idle
  <2>3. ASSUME NEW n \in PageCounts,
               job' = [job EXCEPT ![p].at = "pages", ![p].total = n]
        PROVE  /\ DOMAIN job' = Procs /\ \A q \in Procs \ {p} : job'[q] = job[q]
               /\ DOMAIN job'[p] = JobFields /\ job'[p].pages = job[p].pages
               /\ job'[p].total \in Nat
               /\ job'[p].how = job[p].how /\ job'[p].at = "pages"
    BY <1>0, <2>3, IngestAssumption
  <2> QED
    BY <1>0, <2>1, <2>2, <2>3 DEF Idle
<1>5. CASE ProcessPage(p)
  <2>1. /\ UNCHANGED <<cmd, pc, queue, current, printed, result, crawl, docs, stats>>
        /\ job[p].at = "pages"
        /\ \/ job' = [job EXCEPT ![p].at = "failed"]
           \/ \E number \in {0, Len(job[p].pages) + 1} :
                job' = [job EXCEPT ![p].pages = Append(@, number)]
    BY <1>5 DEF ProcessPage, JobUnchanged, Fail, crawlVars
  <2>2. CASE job' = [job EXCEPT ![p].at = "failed"]
    BY <1>1, <2>1, <2>2 DEF Idle
  <2>3. ASSUME NEW number, job' = [job EXCEPT ![p].pages = Append(@, number)]
        PROVE  /\ DOMAIN job' = Procs /\ \A q \in Procs \ {p} : job'[q] = job[q]
               /\ DOMAIN job'[p] = JobFields /\ IsSeq(job'[p].pages)
               /\ job'[p].total \in Nat
               /\ job'[p].how = job[p].how /\ job'[p].at = "pages"
    <3>1. job'[p] = [job[p] EXCEPT !.pages = Append(job[p].pages, number)]
      BY <1>0, <2>3
    <3>2. IsSeq(Append(job[p].pages, number))
      BY <1>0, IsSeqAppend
    <3> QED
      BY <1>0, <2>1, <2>3, <3>1, <3>2
  <2> QED
    BY <1>0, <2>1, <2>2, <2>3 DEF Idle
<1>6. CASE ChunkDocument(p)
  <2>1. /\ UNCHANGED <<cmd, pc, queue, current, printed, result, crawl, docs>>
        /\ job[p].at = "pages"
        /\ stats' = Count(Count(stats, "pages", job[p].total),
                          "chunks", Len(job[p].pages))
        /\ \E at \in {"embed", "save", "done"} : job' = [job EXCEPT ![p].at = at]
    BY <1>6 DEF ChunkDocument, JobUnchanged, crawlVars
  <2> QED
    BY <1>1, <2>1 DEF Idle
<1>7. CASE Embedded(p)
  <2>1. /\ UNCHANGED <<cmd, pc, queue, current, printed, result, crawl, docs>>
        /\ job[p].at = "embed"
        /\ stats' = Count(stats, "embeddings",
                          (IF job[p].how \in CountedTwice THEN 2 ELSE 1)
                          * Len(job[p].pages))
        /\ \E at \in {"save", "done"} : job' = [job EXCEPT ![p].at = at]
    BY <1>7 DEF Embedded, AfterEmbedding, JobUnchanged, crawlVars
  <2> QED
    BY <1>1, <2>1 DEF Idle
<1>8. CASE EmbedRetry(p)
  <2>1. /\ UNCHANGED <<cmd, pc, queue, current, printed, result, crawl, docs, stats>>
        /\ job[p].at = "embed"
        /\ job' = [job EXCEPT ![p].attempt = @ + 1]
    BY <1>8 DEF EmbedRetry, JobUnchanged, crawlVars
  <2>2. /\ DOMAIN job' = Procs /\ \A q \in Procs \ {p} : job'[q] = job[q]
        /\ DOMAIN job'[p] = JobFields /\ job'[p].pages = job[p].pages
        /\ job'[p].total = job[p].total
        /\ job'[p].how = job[p].how /\ job'[p].at = "embed"
    BY <1>0, <2>1
  <2> QED
    BY <1>0, <2>1, <2>2 DEF Idle
<1>9. CASE EmbedGivesUp(p) \/ SaveResults(p)
  <2>1. /\ UNCHANGED <<cmd, pc, queue, current, printed, result, crawl, docs, stats>>
        /\ job[p].at \in {"embed", "save"}
        /\ \E at \in {"save", "done", "failed"} : job' = [job EXCEPT ![p].at = at]
    BY <1>9 DEF EmbedGivesUp, SaveResults, AfterEmbedding, JobUnchanged, Fail, crawlVars
  <2> QED
    BY <1>1, <2>1 DEF Idle
<1> QED
  BY <1>2, <1>3, <1>4, <1>5, <1>6, <1>7, <1>8, <1>9 DEF JobStep

\* The pages whose embeddings are not counted yet, after a step of one PDF.
LEMMA PendingSteps ==
  ASSUME NEW p \in Procs, NEW f, NEW g, \A q \in Procs \ {p} : g[q] = f[q],
         IsFiniteSet(PendingOf(f)), IsSeq(f[p].pages)
  PROVE  /\ Cardinality(PendingOf(f)) \in Nat /\ Len(f[p].pages) \in Nat
         /\ (g[p].at = "embed" => f[p].at = "embed" /\ g[p].pages = f[p].pages) =>
              /\ IsFiniteSet(PendingOf(g)) /\ Cardinality(PendingOf(g)) \in Nat
              /\ Cardinality(PendingOf(g)) <= Cardinality(PendingOf(f))
         /\ g[p].pages = f[p].pages =>
              /\ IsFiniteSet(PendingOf(g)) /\ Cardinality(PendingOf(g)) \in Nat
              /\ Cardinality(PendingOf(g))
                   <= Cardinality(PendingOf(f)) + Len(f[p].pages)
         /\ f[p].at = "embed" /\ g[p].at # "embed" =>
              /\ IsFiniteSet(PendingOf(g)) /\ Cardinality(PendingOf(g)) \in Nat
              /\ Cardinality(PendingOf(f))
                   = Cardinality(PendingOf(g)) + Len(f[p].pages)
<1> DEFINE A == PendingOf(f)
           B == PendingOf(g)
           R == {p} \X DOMAIN f[p].pages
<1>1. /\ \A x : x \in A <=> \E q \in Procs : \E i \in DOMAIN f[q].pages :
                              f[q].at = "embed" /\ x = <<q, i>>
      /\ \A x : x \in B <=> \E q \in Procs : \E i \in DOMAIN g[q].pages :
                              g[q].at = "embed" /\ x = <<q, i>>
  BY PendingPage
<1>2. \A x : x \in R <=> \E i \in DOMAIN f[p].pages : x = <<p, i>>
  OBVIOUS
<1> HIDE DEF A, B
<1>3. Cardinality(A) \in Nat
  BY FS_CardinalityType DEF A
<1>4. /\ Len(f[p].pages) \in Nat /\ IsFiniteSet(R)
      /\ Cardinality(R) = Len(f[p].pages)
  <2>1. DOMAIN f[p].pages = 1 .. Len(f[p].pages) /\ Len(f[p].pages) \in Nat
    BY IsSeqTail
  <2>2. IsFiniteSet({p}) /\ Cardinality({p}) = 1
    BY FS_Singleton
  <2>3. /\ IsFiniteSet(DOMAIN f[p].pages)
        /\ Cardinality(DOMAIN f[p].pages) = Len(f[p].pages)
    BY <2>1, FS_Interval
  <2>4. /\ IsFiniteSet(R)
        /\ Cardinality(R) = Cardinality({p}) * Cardinality(DOMAIN f[p].pages)
    BY <2>2, <2>3, FS_Product
  <2> HIDE DEF R
  <2> QED
    BY <2>1, <2>2, <2>3, <2>4
<1> HIDE DEF R
<1>5. ASSUME g[p].at = "embed" => f[p].at = "embed" /\ g[p].pages = f[p].pages
      PROVE  IsFiniteSet(B) /\ Cardinality(B) \in Nat
             /\ Cardinality(B) <= Cardinality(A)
  <2>1. B \in SUBSET A
    <3> SUFFICES ASSUME NEW x \in B PROVE x \in A
      OBVIOUS
    <3>1. PICK q, i :
                /\ q \in Procs
                /\ i \in DOMAIN g[q].pages /\ g[q].at = "embed" /\ x = <<q, i>>
      BY <1>1
    <3>2. f[q].at = "embed" /\ g[q].pages = f[q].pages
      BY <1>5, <3>1
    <3> QED
      BY <1>1, <3>1, <3>2
  <2> QED
    BY <2>1, FS_Subset, FS_CardinalityType DEF A
<1>6. ASSUME g[p].pages = f[p].pages
      PROVE  IsFiniteSet(B) /\ Cardinality(B) \in Nat
             /\ Cardinality(B) <= Cardinality(A) + Len(f[p].pages)
  <2>1. B \in SUBSET (A \cup R)
    <3> SUFFICES ASSUME NEW x \in B PROVE x \in A \cup R
      OBVIOUS
    <3>1. PICK q, i :
                /\ q \in Procs
                /\ i \in DOMAIN g[q].pages /\ g[q].at = "embed" /\ x = <<q, i>>
      BY <1>1
    <3>2. CASE q = p
      BY <1>2, <1>6, <3>1, <3>2
    <3>3. CASE q # p
      BY <1>1, <3>1, <3>3
    <3> QED
      BY <3>2, <3>3
  <2>2. /\ IsFiniteSet(A \cup R)
        /\ Cardinality(A \cup R)
             = Cardinality(A) + Cardinality(R) - Cardinality(A \cap R)
    BY <1>4, FS_Union DEF A
  <2>3. Cardinality(A \cap R) \in Nat
    BY <1>4, FS_Intersection, FS_CardinalityType
  <2>4. /\ IsFiniteSet(B) /\ Cardinality(B) <= Cardinality(A \cup R)
        /\ Cardinality(B) \in Nat
    BY <2>1, <2>2, FS_Subset, FS_CardinalityType
  <2> QED
    BY <1>3, <1>4, <2>2, <2>3, <2>4
<1>7. ASSUME f[p].at = "embed", g[p].at # "embed"
      PROVE  IsFiniteSet(B) /\ Cardinality(B) \in Nat
             /\ Cardinality(A) = Cardinality(B) + Len(f[p].pages)
  <2>1. IsFiniteSet(B) /\ Cardinality(B) \in Nat
    BY <1>5, <1>7
  <2>2. A = B \cup R
    <3>1. ASSUME NEW x \in A PROVE x \in B \cup R
      <4>1. PICK q, i :
                /\ q \in Procs
                /\ i \in DOMAIN f[q].pages /\ f[q].at = "embed" /\ x = <<q, i>>
        BY <1>1
      <4>2. CASE q = p
        BY <1>2, <4>1, <4>2
      <4>3. CASE q # p
        BY <1>1, <4>1, <4>3
      <4> QED
        BY <4>2, <4>3
    <3>2. ASSUME NEW x \in B PROVE x \in A
      <4>1. PICK q, i :
                /\ q \in Procs
                /\ i \in DOMAIN g[q].pages /\ g[q].at = "embed" /\ x = <<q, i>>
        BY <1>1
      <4>2. q # p
        BY <1>7, <4>1
      <4> QED
        BY <1>1, <4>1, <4>2
    <3>3. ASSUME NEW x \in R PROVE x \in A
      BY <1>1, <1>2, <1>7, <3>3
    <3> QED
      BY <3>1, <3>2, <3>3
  <2>3. B \cap R = {}
    <3> SUFFICES ASSUME NEW x \in B, x \in R PROVE FALSE
      OBVIOUS
    <3>1. PICK q, i :
                /\ q \in Procs
                /\ i \in DOMAIN g[q].pages /\ g[q].at = "embed" /\ x = <<q, i>>
      BY <1>1
    <3>2. PICK j \in DOMAIN f[p].pages : x = <<p, j>>
      BY <1>2
    <3> QED
      BY <1>7, <3>1, <3>2
  <2>4. Cardinality(B \cup R)
          = Cardinality(B) + Cardinality(R) - Cardinality(B \cap R)
    BY <1>4, <2>1, FS_Union
  <2>5. Cardinality(B \cap R) = 0
    BY <2>3, FS_EmptySet
  <2> QED
    BY <1>4, <2>1, <2>2, <2>4, <2>5
<1> QED
  BY <1>3, <1>4, <1>5, <1>6, <1>7 DEF A, B

\* The numbers that a step of a PDF changes.
LEMMA JobCounts ==
  ASSUME NEW p \in Procs, ShapeOK, JobShape, StatShape, JobStep(p)
  PROVE  /\ stats' \in [StatFields -> Nat]
         /\ stats'.found = stats.found /\ stats'.processed = stats.processed
         /\ stats'.errors = stats.errors
         /\ job[p].how # "ingestURL" => stats'.downloaded = stats.downloaded
         /\ \/ /\ stats'.chunks = stats.chunks
               /\ stats'.embeddings = stats.embeddings
               /\ job'[p].at = "embed" =>
                    job[p].at = "embed" /\ job'[p].pages = job[p].pages
            \/ /\ stats'.chunks = stats.chunks + Len(job[p].pages)
               /\ stats'.embeddings = stats.embeddings
               /\ job'[p].pages = job[p].pages
            \/ /\ stats'.chunks = stats.chunks
               /\ stats'.embeddings = stats.embeddings
                    + (IF job[p].how \in CountedTwice THEN 2 ELSE 1)
                      * Len(job[p].pages)
               /\ job[p].at = "embed" /\ job'[p].at # "embed"
<1>0. /\ stats \in [StatFields -> Nat] /\ job[p].total \in Nat
      /\ Len(job[p].pages) \in Nat
  BY IsSeqTail DEF StatShape, JobShape
<1>1. CASE /\ stats' = stats
           /\ job'[p].at = "embed" =>
                job[p].at = "embed" /\ job'[p].pages = job[p].pages
  BY <1>0, <1>1
<1>2. CASE /\ stats' = Count(stats, "downloaded", 1)
           /\ job[p].how = "ingestURL" /\ job'[p].at # "embed"
  <2>1. /\ stats' = Count(stats, "downloaded", 1)
        /\ stats \in [StatFields -> Nat]
    BY <1>0, <1>2
  <2>2. /\ stats' \in [StatFields -> Nat]
        /\ stats'.found = stats.found /\ stats'.processed = stats.processed
        /\ stats'.errors = stats.errors
        /\ stats'.chunks = stats.chunks /\ stats'.embeddings = stats.embeddings
    BY <2>1 DEF Count, StatFields
  <2> QED
    BY <1>2, <2>2
<1>3. CASE /\ stats' = Count(Count(stats, "pages", job[p].total),
                             "chunks", Len(job[p].pages))
           /\ job'[p].pages = job[p].pages
  <2>1. PICK m \in Nat, n \in Nat : m = job[p].total /\ n = Len(job[p].pages)
    BY <1>0
  <2>2. /\ stats' = Count(Count(stats, "pages", m), "chunks", n)
        /\ stats \in [StatFields -> Nat]
    BY <1>0, <1>3, <2>1
  <2>3. /\ stats' \in [StatFields -> Nat]
        /\ stats'.found = stats.found /\ stats'.processed = stats.processed
        /\ stats'.errors = stats.errors /\ stats'.downloaded = stats.downloaded
        /\ stats'.chunks = stats.chunks + n /\ stats'.embeddings = stats.embeddings
    BY <2>2 DEF Count, StatFields
  <2> QED
    BY <1>3, <2>1, <2>3
<1>4. CASE /\ stats' = Count(stats, "embeddings",
                         (IF job[p].how \in CountedTwice THEN 2 ELSE 1)
                         * Len(job[p].pages))
           /\ job[p].at = "embed" /\ job'[p].at # "embed"
  <2>1. PICK l \in Nat : l = Len(job[p].pages)
    BY <1>0
  <2>2. PICK n \in Nat : n = (IF job[p].how \in CountedTwice THEN 2 ELSE 1) * l
    <3>1. 2 * l \in Nat /\ 1 * l \in Nat
      OBVIOUS
    <3> QED
      BY <3>1
  <2>3. stats' = Count(stats, "embeddings", n)
    BY <1>4, <2>1, <2>2
  <2>4. /\ stats' \in [StatFields -> Nat]
        /\ stats'.found = stats.found /\ stats'.processed = stats.processed
        /\ stats'.errors = stats.errors /\ stats'.downloaded = stats.downloaded
        /\ stats'.chunks = stats.chunks /\ stats'.embeddings = stats.embeddings + n
    BY <1>0, <2>3 DEF Count, StatFields
  <2> QED
    BY <1>4, <2>1, <2>2, <2>4
<1> QED
  BY <1>1, <1>2, <1>3, <1>4, JobEffect

LEMMA StatsJob ==
  ASSUME ShapeOK, PhaseInv, PrintInv, StatsInv, Running,
         NEW p \in Procs, JobStep(p)
  PROVE  StatsInv'
<1>0. StatShape /\ JobShape /\ PlaceInv /\ EmbedInv /\ LoopInv /\ FatwaInv
      /\ FilesInv /\ PrintedInv
  BY DEF StatsInv
<1>1. /\ UNCHANGED <<cmd, pc, queue, current, printed, crawl, docs>>
      /\ ~Idle(p)
      /\ DOMAIN job' = Procs /\ \A q \in Procs \ {p} : job'[q] = job[q]
      /\ DOMAIN job'[p] = JobFields /\ IsSeq(job'[p].pages) /\ job'[p].total \in Nat
      /\ job'[p].how = job[p].how /\ job'[p].at # "none"
  BY <1>0, JobEffect
<1>2. /\ stats' \in [StatFields -> Nat] /\ stats \in [StatFields -> Nat]
      /\ stats'.found = stats.found /\ stats'.processed = stats.processed
      /\ stats'.errors = stats.errors
      /\ job[p].how # "ingestURL" => stats'.downloaded = stats.downloaded
  BY <1>0, JobCounts DEF StatShape
\* The main goroutine is at a document or at a single file, a worker at a file.
<1>3. /\ p = Main => pc \in {"job", "single"}
      /\ p # Main => p \in Workers /\ pc \in {"spawn", "wait"}
      /\ ~printed
  <2>1. pc # "ended"
    BY DEF PhaseInv
  <2>2. p # Main => p \in Workers /\ job[p] # NoJob
    BY <1>1 DEF Procs, Idle, NoJob
  <2>3. ~printed
    BY <1>1, <2>2 DEF PrintInv
  <2> QED
    BY <1>1, <2>1, <2>2, <2>3 DEF PrintInv
<1>4. StatShape' /\ JobShape'
  <2>1. StatShape'
    BY <1>2 DEF StatShape
  <2>2. JobShape'
    BY <1>0, <1>1 DEF JobShape
  <2> QED
    BY <2>1, <2>2
<1>5. PlaceInv'
  <2>1. pc \notin {"start", "crawl"}
    BY <1>3
  <2> QED
    BY <1>0, <1>1, <2>1 DEF PlaceInv
<1>6. EmbedInv'
  <2> DEFINE m == Cardinality(PendingOf(job))
             n == Cardinality(PendingOf(job'))
             l == Len(job[p].pages)
  <2>1. Pending = PendingOf(job) /\ Pending' = PendingOf(job')
    BY DEF Pending, PendingOf
  <2>2. IsFiniteSet(PendingOf(job)) /\ IsSeq(job[p].pages)
    BY <1>0, <2>1 DEF EmbedInv, JobShape
  <2>3. /\ m \in Nat /\ l \in Nat
        /\ (job'[p].at = "embed" => job[p].at = "embed" /\ job'[p].pages = job[p].pages) =>
             IsFiniteSet(PendingOf(job')) /\ n \in Nat /\ n <= m
        /\ job'[p].pages = job[p].pages =>
             IsFiniteSet(PendingOf(job')) /\ n \in Nat /\ n <= m + l
        /\ job[p].at = "embed" /\ job'[p].at # "embed" =>
             IsFiniteSet(PendingOf(job')) /\ n \in Nat /\ m = n + l
    BY <1>1, <2>2, PendingSteps
  <2>4. /\ stats.chunks \in Nat /\ stats.embeddings \in Nat
        /\ stats'.chunks \in Nat /\ stats'.embeddings \in Nat
    BY <1>2, StatNumbers
  <2>5. /\ Handler(cmd) \in Twice => stats.embeddings + 2 * m <= 2 * stats.chunks
        /\ Handler(cmd) \notin Twice => stats.embeddings + m <= stats.chunks
    BY <1>0, <2>1 DEF EmbedInv
  <2>6. job[p].how \in CountedTwice => Handler(cmd) \in Twice
    BY <1>0 DEF JobShape
  <2> HIDE DEF m, n, l
  <2>7. /\ Handler(cmd) \in Twice => stats'.embeddings + 2 * n <= 2 * stats'.chunks
        /\ Handler(cmd) \notin Twice => stats'.embeddings + n <= stats'.chunks
        /\ IsFiniteSet(PendingOf(job'))
    <3>1. CASE /\ stats'.chunks = stats.chunks
               /\ stats'.embeddings = stats.embeddings
               /\ job'[p].at = "embed" =>
                    job[p].at = "embed" /\ job'[p].pages = job[p].pages
      BY <2>3, <2>4, <2>5, <3>1
    <3>2. CASE /\ stats'.chunks = stats.chunks + l
               /\ stats'.embeddings = stats.embeddings
               /\ job'[p].pages = job[p].pages
      BY <2>3, <2>4, <2>5, <3>2
    <3>3. CASE /\ stats'.chunks = stats.chunks
               /\ stats'.embeddings = stats.embeddings
                    + (IF job[p].how \in CountedTwice THEN 2 ELSE 1) * l
               /\ job[p].at = "embed" /\ job'[p].at # "embed"
      <4>1. CASE job[p].how \in CountedTwice
        BY <2>3, <2>4, <2>5, <2>6, <3>3, <4>1
      <4>2. CASE job[p].how \notin CountedTwice
        BY <2>3, <2>4, <2>5, <2>6, <3>3, <4>2
      <4> QED
        BY <4>1, <4>2
    <3> QED
      BY <1>0, <3>1, <3>2, <3>3, JobCounts DEF l
  <2> QED
    BY <1>1, <2>1, <2>7 DEF EmbedInv, n
<1>7. LoopInv'
  <2>1. Handler(cmd) \in Looped => stats'.downloaded = stats.downloaded
    BY <1>0, <1>2 DEF JobShape, Looped, Crawlable
  <2> QED
    BY <1>0, <1>1, <1>2, <2>1 DEF LoopInv, AllLinks
<1>8. FatwaInv'
  BY <1>0, <1>1, <1>2 DEF FatwaInv
<1>9. FilesInv'
  <2>1. ASSUME pc \in {"spawn", "wait"}
        PROVE  job[p] # NoJob /\ job'[p] # NoJob /\ p \in Workers
    BY <1>1, <1>3, <2>1 DEF Idle, NoJob
  <2>2. ASSUME pc \in {"spawn", "wait"} PROVE Active' = Active
    BY <1>1, <2>1, <2>2 DEF Active, Procs
  <2> QED
    BY <1>0, <1>1, <1>2, <2>1, <2>2 DEF FilesInv, Procs
<1>10. PrintedInv'
  BY <1>1, <1>3 DEF PrintedInv
<1> QED
  BY <1>4, <1>5, <1>6, <1>7, <1>8, <1>9, <1>10 DEF StatsInv

-----------------------------------------------------------------------------
(* The goroutines of a directory *)

LEMMA StatsKeep ==
  ASSUME StatsInv, UNCHANGED <<cmd, job, stats>>
  PROVE  StatShape' /\ JobShape' /\ EmbedInv'
<1>1. StatShape' /\ JobShape'
  BY DEF StatsInv, StatShape, JobShape
<1>2. EmbedInv'
  BY DEF StatsInv, EmbedInv, Pending
<1> QED
  BY <1>1, <1>2

\* Nothing new is waiting for embeddings.
LEMMA EmbedKeeps ==
  ASSUME JobShape, StatShape, StatShape', EmbedInv, UNCHANGED cmd,
         stats'.chunks = stats.chunks, stats'.embeddings = stats.embeddings,
         NEW p \in Procs, \A q \in Procs \ {p} : job'[q] = job[q],
         job'[p].at # "embed"
  PROVE  EmbedInv'
<1>1. Pending = PendingOf(job) /\ Pending' = PendingOf(job')
  BY DEF Pending, PendingOf
<1>2. IsFiniteSet(PendingOf(job)) /\ IsSeq(job[p].pages)
  BY <1>1 DEF EmbedInv, JobShape
<1>3. PICK m \in Nat, n \in Nat :
         /\ m = Cardinality(PendingOf(job)) /\ n = Cardinality(PendingOf(job'))
         /\ n <= m /\ IsFiniteSet(PendingOf(job'))
  BY <1>2, PendingSteps
<1>4. stats.chunks \in Nat /\ stats.embeddings \in Nat
  BY StatNumbers DEF StatShape
<1>5. /\ Handler(cmd) \in Twice => stats.embeddings + 2 * m <= 2 * stats.chunks
      /\ Handler(cmd) \notin Twice => stats.embeddings + m <= stats.chunks
  BY <1>1, <1>3 DEF EmbedInv
<1>6. /\ Handler(cmd) \in Twice => stats.embeddings + 2 * n <= 2 * stats.chunks
      /\ Handler(cmd) \notin Twice => stats.embeddings + n <= stats.chunks
  BY <1>3, <1>4, <1>5
<1> QED
  BY <1>1, <1>3, <1>6 DEF EmbedInv

LEMMA NewJobShape ==
  ASSUME NEW at, NEW link, NEW how
  PROVE  /\ DOMAIN NewJob(at, link, how) = JobFields
         /\ NewJob(at, link, how).at = at /\ NewJob(at, link, how).how = how
         /\ IsSeq(NewJob(at, link, how).pages) /\ NewJob(at, link, how).total \in Nat
         /\ DOMAIN NoJob = JobFields /\ NoJob.at = "none" /\ NoJob.how = "none"
         /\ IsSeq(NoJob.pages) /\ NoJob.total \in Nat
<1>1. IsSeq(<<>>)
  BY DEF IsSeq
<1> QED
  BY <1>1 DEF NewJob, NoJob, JobFields

\* One more of something.
LEMMA CountOne ==
  ASSUME StatShape
  PROVE  /\ stats' = Count(stats, "processed", 1) =>
              /\ StatShape' /\ stats'.processed = stats.processed + 1
              /\ stats'.found = stats.found /\ stats'.downloaded = stats.downloaded
              /\ stats'.errors = stats.errors /\ stats'.chunks = stats.chunks
              /\ stats'.embeddings = stats.embeddings
         /\ stats' = Count(stats, "errors", 1) =>
              /\ StatShape' /\ stats'.errors = stats.errors + 1
              /\ stats'.found = stats.found /\ stats'.downloaded = stats.downloaded
              /\ stats'.processed = stats.processed /\ stats'.chunks = stats.chunks
              /\ stats'.embeddings = stats.embeddings
         /\ stats' = Count(stats, "downloaded", 1) =>
              /\ StatShape' /\ stats'.downloaded = stats.downloaded + 1
              /\ stats'.found = stats.found /\ stats'.processed = stats.processed
              /\ stats'.errors = stats.errors /\ stats'.chunks = stats.chunks
              /\ stats'.embeddings = stats.embeddings
         /\ \A n \in Nat : stats' = Count(stats, "found", n) =>
              /\ StatShape' /\ stats'.found = stats.found + n
              /\ stats'.downloaded = stats.downloaded
              /\ stats'.processed = stats.processed
              /\ stats'.errors = stats.errors /\ stats'.chunks = stats.chunks
              /\ stats'.embeddings = stats.embeddings
<1>0. stats \in [StatFields -> Nat]
  BY DEF StatShape
<1>1. ASSUME stats' = Count(stats, "processed", 1)
      PROVE  /\ StatShape' /\ stats'.processed = stats.processed + 1
             /\ stats'.found = stats.found /\ stats'.downloaded = stats.downloaded
             /\ stats'.errors = stats.errors /\ stats'.chunks = stats.chunks
             /\ stats'.embeddings = stats.embeddings
  BY <1>0, <1>1 DEF Count, StatFields, StatShape
<1>2. ASSUME stats' = Count(stats, "errors", 1)
      PROVE  /\ StatShape' /\ stats'.errors = stats.errors + 1
             /\ stats'.found = stats.found /\ stats'.downloaded = stats.downloaded
             /\ stats'.processed = stats.processed /\ stats'.chunks = stats.chunks
             /\ stats'.embeddings = stats.embeddings
  BY <1>0, <1>2 DEF Count, StatFields, StatShape
<1>3. ASSUME stats' = Count(stats, "downloaded", 1)
      PROVE  /\ StatShape' /\ stats'.downloaded = stats.downloaded + 1
             /\ stats'.found = stats.found /\ stats'.processed = stats.processed
             /\ stats'.errors = stats.errors /\ stats'.chunks = stats.chunks
             /\ stats'.embeddings = stats.embeddings
  BY <1>0, <1>3 DEF Count, StatFields, StatShape
<1>4. ASSUME NEW n \in Nat, stats' = Count(stats, "found", n)
      PROVE  /\ StatShape' /\ stats'.found = stats.found + n
             /\ stats'.downloaded = stats.downloaded
             /\ stats'.processed = stats.processed
             /\ stats'.errors = stats.errors /\ stats'.chunks = stats.chunks
             /\ stats'.embeddings = stats.embeddings
  BY <1>0, <1>4 DEF Count, StatFields, StatShape
<1> QED
  BY <1>1, <1>2, <1>3, <1>4

LEMMA StatsSlot ==
  ASSUME ShapeOK, StatsInv, NEW w \in Workers, TakeSlot(w)
  PROVE  StatsInv'
<1>0. StatShape /\ JobShape /\ PlaceInv /\ EmbedInv /\ LoopInv /\ FatwaInv
      /\ FilesInv /\ PrintedInv
  BY DEF StatsInv
<1>1. /\ UNCHANGED <<cmd, pc, queue, current, printed, crawl, docs, stats>>
      /\ job[w].at = "queued" /\ w \in Procs /\ DOMAIN job = Procs
      /\ job' = [job EXCEPT ![w].at = "open"]
  BY DEF TakeSlot, JobUnchanged, crawlVars, Procs, ShapeOK
<1>2. /\ \A q \in Procs \ {w} : job'[q] = job[q]
      /\ DOMAIN job'[w] = JobFields /\ job'[w].pages = job[w].pages
      /\ job'[w].total = job[w].total /\ job'[w].how = job[w].how
      /\ job'[w].at = "open"
  BY <1>0, <1>1 DEF JobShape, JobFields
<1>3. StatShape' /\ JobShape'
  BY <1>0, <1>1, <1>2 DEF StatShape, JobShape
<1>4. PlaceInv'
  BY <1>0, <1>1 DEF PlaceInv
<1>5. EmbedInv'
  BY <1>0, <1>1, <1>2, <1>3, EmbedKeeps
<1>6. LoopInv' /\ FatwaInv' /\ PrintedInv'
  BY <1>0, <1>1 DEF LoopInv, AllLinks, FatwaInv, PrintedInv
<1>7. FilesInv'
  <2>1. job[w] # NoJob /\ job'[w] # NoJob
    BY <1>1, <1>2 DEF NoJob
  <2>2. Active' = Active
    BY <1>2, <2>1 DEF Active, Procs
  <2> QED
    BY <1>0, <1>1, <1>2, <2>1, <2>2 DEF FilesInv, Procs
<1> QED
  BY <1>3, <1>4, <1>5, <1>6, <1>7 DEF StatsInv

\* A goroutine counts its file.
LEMMA StatsFile ==
  ASSUME ShapeOK, PhaseInv, PrintInv, StatsInv, Running,
         NEW w \in Workers, FileDone(w)
  PROVE  StatsInv'
<1>0. StatShape /\ JobShape /\ PlaceInv /\ EmbedInv /\ LoopInv /\ FatwaInv
      /\ FilesInv /\ PrintedInv
  BY DEF StatsInv
<1>1. /\ UNCHANGED <<cmd, pc, queue, current, printed, crawl, docs>>
      /\ job[w].at \in {"done", "failed"} /\ w \in Procs /\ DOMAIN job = Procs
      /\ job' = [job EXCEPT ![w] = NoJob]
      /\ stats' = Count(stats, "processed", 1) \/ stats' = Count(stats, "errors", 1)
  BY DEF FileDone, JobOver, JobUnchanged, crawlVars, Procs, ShapeOK
<1>2. /\ \A q \in Procs \ {w} : job'[q] = job[q]
      /\ job'[w] = NoJob /\ job[w] # NoJob
  BY <1>1 DEF NoJob
<1>3. /\ StatShape'
      /\ stats'.processed + stats'.errors = stats.processed + stats.errors + 1
      /\ stats'.found = stats.found /\ stats'.downloaded = stats.downloaded
      /\ stats'.chunks = stats.chunks /\ stats'.embeddings = stats.embeddings
  <2>1. stats.processed \in Nat /\ stats.errors \in Nat
    BY <1>0, StatNumbers DEF StatShape
  <2> QED
    BY <1>0, <1>1, <2>1, CountOne
<1>4. pc \in {"spawn", "wait"} /\ ~printed /\ Handler(cmd) = "aaoifi"
  <2>1. pc # "ended"
    BY DEF PhaseInv
  <2> QED
    BY <1>0, <1>2, <2>1 DEF PrintInv, PlaceInv
<1>5. JobShape'
  BY <1>0, <1>1, <1>2, NewJobShape DEF JobShape, CountedTwice
<1>6. PlaceInv'
  BY <1>0, <1>1, <1>4 DEF PlaceInv
<1>7. EmbedInv'
  BY <1>0, <1>1, <1>2, <1>3, EmbedKeeps, NewJobShape
<1>8. LoopInv' /\ FatwaInv' /\ PrintedInv'
  BY <1>1, <1>4 DEF LoopInv, FatwaInv, PrintedInv
<1>9. FilesInv'
  <2>1. Active' = Active \ {w} /\ w \in Active
    BY <1>2 DEF Active, Procs
  <2>2. IsFiniteSet(Active)
    BY CrawlerAssumption, FS_Subset DEF Active
  <2>3. PICK m \in Nat, n \in Nat :
           m = Cardinality(Active) /\ n = Cardinality(Active \ {w}) /\ n = m - 1
    <3>1. /\ IsFiniteSet(Active \ {w})
          /\ Cardinality(Active \ {w}) = Cardinality(Active) - 1
      BY <2>1, <2>2, FS_RemoveElement
    <3>2. Cardinality(Active) \in Nat /\ Cardinality(Active \ {w}) \in Nat
      BY <2>2, <3>1, FS_CardinalityType
    <3> QED
      BY <3>1, <3>2
  <2>4. /\ stats.processed \in Nat /\ stats.errors \in Nat
        /\ stats'.processed \in Nat /\ stats'.errors \in Nat
    BY <1>0, <1>3, StatNumbers DEF StatShape
  <2>5. Len(queue) \in Nat /\ Len(Files) \in Nat
    <3>0. Len(Files) \in Nat
      BY IngestAssumption
    <3>1. pc = "spawn" => IsSeq(queue)
      BY DEF PrintInv
    <3>2. pc = "wait" => queue = <<>>
      BY <1>0 DEF FilesInv
    <3> QED
      BY <1>4, <3>0, <3>1, <3>2, IsSeqTail
  <2>6. stats.processed + stats.errors + m + Len(queue) = Len(Files)
    BY <1>0, <1>4, <2>3 DEF FilesInv
  <2>7. stats'.processed + stats'.errors + n + Len(queue) = Len(Files)
    <3>1. PICK a \in Nat, b \in Nat :
             a = stats.processed + stats.errors /\ b = stats'.processed + stats'.errors
      BY <2>4
    <3>2. b = a + 1 /\ a + m + Len(queue) = Len(Files)
      BY <1>3, <2>6, <3>1
    <3>3. b + n + Len(queue) = Len(Files)
      BY <2>3, <2>5, <3>2
    <3> QED
      BY <3>1, <3>3
  <2> QED
    BY <1>0, <1>1, <1>2, <1>3, <1>4, <2>1, <2>3, <2>7 DEF FilesInv, Procs
<1> QED
  BY <1>3, <1>5, <1>6, <1>7, <1>8, <1>9 DEF StatsInv

-----------------------------------------------------------------------------
(* The commands *)

\* The documents of a directory, one file each.
LEMMA FileList ==
  /\ Len(Files) \in Nat /\ (Files = <<>> <=> Len(Files) = 0)
  /\ \A s : s = [i \in DOMAIN Files |-> Document(Files[i], <<Files[i]>>, FALSE)] =>
       ListsDocuments(s) /\ Len(s) = Len(Files) /\ LinksIn(s) = Len(Files)
<1>1. Len(Files) \in Nat /\ DOMAIN Files = 1 .. Len(Files)
      /\ (Files = <<>> <=> Len(Files) = 0)
  BY IngestAssumption
<1>2. ASSUME NEW s, s = [i \in DOMAIN Files |-> Document(Files[i], <<Files[i]>>, FALSE)]
      PROVE  ListsDocuments(s) /\ Len(s) = Len(Files) /\ LinksIn(s) = Len(Files)
  <2>1. /\ s = [i \in 1 .. Len(Files) |-> s[i]]
        /\ \A i \in 1 .. Len(Files) : s[i] = Document(Files[i], <<Files[i]>>, FALSE)
    BY <1>1, <1>2
  <2>2. \A i \in 1 .. Len(Files) : \E u, l : s[i] = Document(u, <<l>>, FALSE)
    BY <2>1
  <2> QED
    BY <1>1, <2>1, <2>2, SinglesList
<1> QED
  BY <1>1, <1>2

\* A command starts with nothing counted.
LEMMA StatsStart ==
  ASSUME ShapeOK, PrintInv, StatsInv, pc = "start",
         \/ StartNothing \/ IngestBNM \/ IngestPolicy \/ IngestSC \/ IngestIIFA
         \/ IngestDirectory \/ IngestAAOIFI \/ IngestFile \/ IngestURL
         \/ IngestFatwa
  PROVE  StatsInv'
<1>0. /\ StatShape /\ JobShape /\ PlaceInv /\ EmbedInv
      /\ stats = Stats /\ ~printed
      /\ Idle(Main) /\ \A w \in Workers : job[w] = NoJob
      /\ DOMAIN job = Procs /\ Main \in Procs /\ Main \notin Workers
  BY CrawlerAssumption DEF StatsInv, PrintInv, PlaceInv, ShapeOK, Procs
<1>1. /\ stats.found = 0 /\ stats.processed = 0 /\ stats.downloaded = 0
      /\ stats.errors = 0 /\ stats.chunks = 0 /\ stats.embeddings = 0
  BY <1>0, StatsZero
<1>2. CASE StartNothing \/ IngestFatwa
  <2>1. /\ UNCHANGED <<cmd, job, stats, printed>>
        /\ \/ pc' = "ended" /\ Handler(cmd) \in {"nothing", "fatwa"}
           \/ pc' = "portals" /\ Handler(cmd) = "fatwa"
    BY <1>2 DEF StartNothing, IngestFatwa, Starts, Fixed, End
  <2>2. PlaceInv'
    BY <2>1 DEF PlaceInv, Crawlable
  <2>3. LoopInv' /\ FatwaInv' /\ FilesInv' /\ PrintedInv'
    BY <1>0, <1>1, <2>1 DEF LoopInv, FatwaInv, FilesInv, PrintedInv
  <2> QED
    BY <2>1, <2>2, <2>3, StatsKeep DEF StatsInv
<1>3. CASE IngestBNM \/ IngestPolicy \/ IngestSC \/ IngestIIFA
  <2>1. /\ UNCHANGED <<cmd, job, stats, printed>>
        /\ pc' = "crawl" /\ Handler(cmd) \in Crawlable
    BY <1>3 DEF IngestBNM, IngestPolicy, IngestSC, IngestIIFA, StartCrawling,
                Starts, Fixed, Crawlable
  <2>2. PlaceInv'
    BY <1>0, <2>1 DEF PlaceInv
  <2>3. LoopInv' /\ FatwaInv' /\ FilesInv' /\ PrintedInv'
    BY <1>0, <2>1 DEF LoopInv, FatwaInv, FilesInv, PrintedInv
  <2> QED
    BY <2>1, <2>2, <2>3, StatsKeep DEF StatsInv
<1>4. CASE IngestFile \/ IngestURL
  <2>1. /\ UNCHANGED <<cmd, stats, printed>>
        /\ pc' = "single" /\ Handler(cmd) \in {"file", "process", "url"}
        /\ \A q \in Procs \ {Main} : job'[q] = job[q]
        /\ DOMAIN job' = Procs
        /\ \E at, l, how : /\ job'[Main] = NewJob(at, l, how) /\ at # "embed"
                           /\ how \notin CountedTwice
                           /\ how = "ingestURL" => Handler(cmd) = "url"
    <3>1. CASE IngestFile
      BY <1>0, <1>4, <3>1 DEF IngestFile, Starts, Fixed, CountedTwice
    <3>2. CASE IngestURL
      BY <1>0, <1>4, <3>2 DEF IngestURL, Starts, Fixed, CountedTwice
    <3> QED
      BY <1>4, <3>1, <3>2
  <2>2. StatShape' /\ JobShape'
    BY <1>0, <2>1, NewJobShape DEF StatShape, JobShape
  <2>3. PlaceInv'
    BY <1>0, <2>1 DEF PlaceInv, Crawlable
  <2>4. EmbedInv'
    BY <1>0, <2>1, <2>2, NewJobShape, EmbedKeeps
  <2>5. LoopInv' /\ FatwaInv' /\ FilesInv' /\ PrintedInv'
    BY <1>0, <2>1 DEF LoopInv, FatwaInv, FilesInv, PrintedInv
  <2> QED
    BY <2>2, <2>3, <2>4, <2>5 DEF StatsInv
<1>5. CASE IngestDirectory \/ IngestAAOIFI
  <2>1. /\ UNCHANGED <<cmd, job, printed, docs, crawl>>
        /\ queue' = [i \in DOMAIN Files |-> Document(Files[i], <<Files[i]>>, FALSE)]
        /\ stats' = Count(stats, "found", Len(Files))
        /\ \/ pc' = "ended" /\ Handler(cmd) \in {"directory", "aaoifi"}
           \/ pc' = "docs" /\ Handler(cmd) = "directory"
           \/ pc' = "spawn" /\ Handler(cmd) = "aaoifi"
    BY <1>5 DEF IngestDirectory, IngestAAOIFI, StartDirectory, Starts, Fixed, End,
                crawlVars
  <2>2. /\ ListsDocuments(queue') /\ Len(queue') = Len(Files)
        /\ LinksIn(queue') = Len(Files) /\ Len(Files) \in Nat
    BY <2>1, FileList
  <2>3. /\ StatShape' /\ stats'.found = stats.found + Len(Files)
        /\ stats'.downloaded = stats.downloaded
        /\ stats'.processed = stats.processed
        /\ stats'.errors = stats.errors /\ stats'.chunks = stats.chunks
        /\ stats'.embeddings = stats.embeddings
    BY <1>0, <2>1, <2>2, CountOne
  <2>4. JobShape'
    BY <1>0, <2>1 DEF JobShape
  <2>5. PlaceInv'
    BY <2>1 DEF PlaceInv, Crawlable, Looped
  <2>6. EmbedInv'
    BY <1>0, <2>1, <2>3 DEF EmbedInv, Pending
  <2>7. LoopInv'
    <3> SUFFICES ASSUME pc' = "docs", Handler(cmd) = "directory" PROVE LoopInv'
      BY <2>1 DEF LoopInv
    <3>1. /\ stats'.found = Len(Files) /\ stats'.processed = 0
          /\ stats'.downloaded = 0 /\ stats'.errors = 0
      BY <1>1, <2>2, <2>3
    <3>2. AllLinks' = Len(Files)
      BY <2>1, <3>1 DEF AllLinks
    <3> QED
      BY <2>2, <3>1, <3>2 DEF LoopInv
  <2>8. FilesInv'
    <3> SUFFICES ASSUME pc' = "spawn" PROVE FilesInv'
      BY <2>1 DEF FilesInv
    <3>1. Active' = {}
      BY <1>0, <2>1 DEF Active
    <3>2. Cardinality(Active') = 0
      BY <3>1, FS_EmptySet
    <3>3. /\ stats'.found = Len(Files) /\ stats'.processed = 0 /\ stats'.errors = 0
      BY <1>1, <2>2, <2>3
    <3>4. \A w \in Workers : job'[w] = NoJob
      BY <1>0, <2>1
    <3>5. stats'.processed + stats'.errors + Cardinality(Active') + Len(queue')
            = Len(Files)
      BY <2>2, <3>2, <3>3
    <3> QED
      BY <3>3, <3>4, <3>5 DEF FilesInv
  <2>9. FatwaInv' /\ PrintedInv'
    BY <1>0, <2>1 DEF FatwaInv, PrintedInv
  <2> QED
    BY <2>3, <2>4, <2>5, <2>6, <2>7, <2>8, <2>9 DEF StatsInv
<1> QED
  BY <1>2, <1>3, <1>4, <1>5

\* A crawl has returned its documents.
LEMMA StatsCrawled ==
  ASSUME ShapeOK, PrintInv, DocsInv, StatsInv, Crawled
  PROVE  StatsInv'
<1>0. /\ StatShape /\ JobShape /\ PlaceInv /\ EmbedInv
      /\ pc = "crawl" /\ stats = Stats /\ ~printed /\ Handler(cmd) \in Crawlable
      /\ ListsDocuments(docs)
  BY DEF StatsInv, PrintInv, PlaceInv, Crawled, DocsInv
<1>1. /\ stats.found = 0 /\ stats.processed = 0 /\ stats.downloaded = 0
      /\ stats.errors = 0 /\ stats.chunks = 0 /\ stats.embeddings = 0
  BY <1>0, StatsZero
<1>2. /\ UNCHANGED <<cmd, job, printed, docs, crawl>> /\ crawl.at = "returned"
      /\ \/ pc' = "ended" /\ UNCHANGED stats
         \/ /\ pc' \in {"ended", "docs"} /\ queue' = docs
            /\ stats' = Count(stats, "found", Len(docs))
  BY DEF Crawled, Fixed, End, crawlVars
<1>3. CASE pc' = "ended" /\ UNCHANGED stats
  BY <1>2, <1>3, StatsLeave
<1>4. CASE /\ pc' \in {"ended", "docs"} /\ queue' = docs
           /\ stats' = Count(stats, "found", Len(docs))
  <2>2. Len(docs) \in Nat /\ LinksIn(docs) \in Nat
    BY <1>0, IsSeqTail, LinksFinite DEF ListsDocuments
  <2>3. /\ StatShape' /\ stats'.found = stats.found + Len(docs)
        /\ stats'.downloaded = stats.downloaded
        /\ stats'.processed = stats.processed
        /\ stats'.errors = stats.errors /\ stats'.chunks = stats.chunks
        /\ stats'.embeddings = stats.embeddings
    BY <1>0, <1>4, <2>2, CountOne
  <2>4. JobShape'
    BY <1>0, <1>2 DEF JobShape
  <2>5. PlaceInv'
    BY <1>0, <1>2, <1>4 DEF PlaceInv, Looped
  <2>6. EmbedInv'
    BY <1>0, <1>2, <2>3 DEF EmbedInv, Pending
  <2>7. LoopInv'
    <3>1. /\ stats'.found = Len(docs) /\ stats'.processed = 0
          /\ stats'.downloaded = 0 /\ stats'.errors = 0
      BY <1>1, <2>2, <2>3
    <3>2. AllLinks' = LinksIn(docs)
      BY <1>0, <1>2 DEF AllLinks, Crawlable
    <3> QED
      BY <1>0, <1>2, <1>4, <2>2, <3>1, <3>2 DEF LoopInv
  <2>8. FatwaInv' /\ FilesInv' /\ PrintedInv'
    BY <1>0, <1>2, <1>4 DEF FatwaInv, FilesInv, PrintedInv
  <2> QED
    BY <2>3, <2>4, <2>5, <2>6, <2>7, <2>8 DEF StatsInv
<1> QED
  BY <1>2, <1>3, <1>4

LEMMA StatsNextDocument ==
  ASSUME PrintInv, StatsInv, NextDocument
  PROVE  StatsInv'
<1>0. /\ StatShape /\ PlaceInv /\ LoopInv
      /\ pc = "docs" /\ ~printed /\ Handler(cmd) \in Looped
      /\ Handler(cmd) \in Crawlable => crawl.at = "returned"
      /\ UNCHANGED <<cmd, job, stats, docs, crawl>>
  BY DEF StatsInv, PrintInv, PlaceInv, NextDocument, Fixed, crawlVars
<1>1. /\ ListsDocuments(queue)
      /\ stats.processed + Len(queue) + 0 = stats.found
      /\ stats.downloaded + stats.errors + LinksIn(queue) + 0 + 0 = AllLinks
  BY <1>0 DEF LoopInv
<1>2. /\ StatShape' /\ JobShape' /\ EmbedInv'
      /\ AllLinks' = AllLinks
      /\ stats.processed \in Nat /\ stats.downloaded \in Nat /\ stats.errors \in Nat
      /\ stats.found \in Nat /\ LinksIn(queue) \in Nat
  BY <1>0, <1>1, StatsKeep, StatNumbers, LinksFinite DEF AllLinks, StatShape
<1>3. CASE queue = <<>> /\ PrintStats
  <2>1. pc' = "printed"
    BY <1>3 DEF PrintStats
  <2>2. PlaceInv'
    BY <1>0, <2>1 DEF PlaceInv
  <2>3. LoopInv' /\ FatwaInv' /\ FilesInv'
    BY <2>1 DEF LoopInv, FatwaInv, FilesInv
  <2>4. Len(queue) = 0 /\ LinksIn(queue) = 0
    BY <1>3, LinksOfNone
  <2>5. stats.processed = stats.found /\ stats.downloaded + stats.errors = AllLinks
    BY <1>1, <1>2, <2>4
  <2>6. PrintedInv'
    BY <1>0, <2>5 DEF PrintedInv, AllLinks, Looped, Crawlable
  <2> QED
    BY <1>2, <2>2, <2>3, <2>6 DEF StatsInv
<1>4. CASE pc' = "ended" /\ UNCHANGED printed
  BY <1>0, <1>4, StatsLeave
<1>5. CASE /\ queue # <<>> /\ UNCHANGED printed /\ pc' = "links"
           /\ current' = Head(queue) /\ queue' = Tail(queue)
  <2>1. PlaceInv'
    BY <1>0, <1>5 DEF PlaceInv
  <2>2. /\ ListsDocuments(queue') /\ IsDocument(current')
        /\ LinksIn(queue) = Len(current'.pdfs) + LinksIn(queue')
        /\ Len(queue) = Len(queue') + 1
        /\ Len(queue') \in Nat /\ LinksIn(queue') \in Nat /\ Len(current'.pdfs) \in Nat
    <3>1. /\ ListsDocuments(queue') /\ IsDocument(current')
          /\ LinksIn(queue) = Len(current'.pdfs) + LinksIn(queue')
      BY <1>1, <1>5, LinksOfTail
    <3>2. Len(queue') = Len(queue) - 1 /\ Len(queue) \in Nat
      BY <1>1, <1>5, IsSeqTail DEF ListsDocuments
    <3>3. Len(queue') \in Nat
      BY <3>1, IsSeqTail DEF ListsDocuments
    <3>4. LinksIn(queue') \in Nat
      BY <3>1, LinksFinite
    <3>5. Len(current'.pdfs) \in Nat
      BY <3>1, IsSeqTail DEF IsDocument
    <3> QED
      BY <3>1, <3>2, <3>3, <3>4, <3>5
  <2>3. /\ stats.processed + Len(queue') + 1 = stats.found
        /\ stats.downloaded + stats.errors + LinksIn(queue')
             + Len(current'.pdfs) + 0 = AllLinks
    <3>1. stats.processed + Len(queue') + 1 = stats.found
      <4>1. PICK a \in Nat, b \in Nat : a = Len(queue) /\ b = Len(queue') /\ a = b + 1
        BY <2>2
      <4>2. stats.processed + a = stats.found
        BY <1>1, <1>2, <4>1
      <4> QED
        BY <1>2, <4>1, <4>2
    <3>2. PICK a \in Nat : a = stats.downloaded + stats.errors
      BY <1>2
    <3>3. a + LinksIn(queue) = AllLinks
      BY <1>1, <1>2, <3>2
    <3>4. a + LinksIn(queue') + Len(current'.pdfs) + 0 = AllLinks
      BY <2>2, <3>2, <3>3
    <3> QED
      BY <3>1, <3>2, <3>4
  <2>4. LoopInv'
    BY <1>0, <1>2, <1>5, <2>2, <2>3 DEF LoopInv
  <2>5. FatwaInv' /\ FilesInv' /\ PrintedInv'
    BY <1>0, <1>5 DEF FatwaInv, FilesInv, PrintedInv, Looped, Crawlable
  <2> QED
    BY <1>2, <2>1, <2>4, <2>5 DEF StatsInv
<1> QED
  BY <1>3, <1>4, <1>5 DEF NextDocument, End

LEMMA StatsNextLink ==
  ASSUME ShapeOK, PrintInv, StatsInv, NextLink
  PROVE  StatsInv'
<1>0. /\ StatShape /\ JobShape /\ PlaceInv /\ EmbedInv /\ LoopInv /\ FatwaInv
      /\ pc = "links" /\ pc' = "job" /\ ~printed
      /\ Handler(cmd) \in Looped \cup {"fatwa"}
      /\ Handler(cmd) \in Crawlable => crawl.at = "returned"
      /\ UNCHANGED <<cmd, stats, docs, crawl, queue, printed>>
      /\ DOMAIN job = Procs /\ Main \in Procs
  BY DEF StatsInv, PrintInv, PlaceInv, NextLink, Fixed, ShapeOK, Procs
<1>1. \E at, l, how :
         /\ job' = [job EXCEPT ![Main] = NewJob(at, l, how)] /\ at # "embed"
         /\ how \in CountedTwice => Handler(cmd) \in Twice
         /\ how # "ingestURL"
  <2> DEFINE l == Head(current.pdfs)
             k == IF Handler(cmd) = "bnm" THEN "url" ELSE "source"
  <2>1. \/ job' = [job EXCEPT ![Main] = NewJob("open", l, "file")] /\ ReadsDisk
        \/ job' = [job EXCEPT ![Main] = NewJob("fetch", l, k)]
    BY DEF NextLink
  <2>2. CASE job' = [job EXCEPT ![Main] = NewJob("open", l, "file")] /\ ReadsDisk
    <3>1. Handler(cmd) \in Twice
      BY <2>2 DEF ReadsDisk, Twice
    <3> QED
      BY <2>2, <3>1
  <2>3. CASE job' = [job EXCEPT ![Main] = NewJob("fetch", l, k)]
    <3>1. k \in CountedTwice => Handler(cmd) \in Twice
      BY <1>0 DEF CountedTwice, Twice, Looped, Crawlable
    <3>2. k # "ingestURL"
      OBVIOUS
    <3> HIDE DEF k
    <3> QED
      BY <2>3, <3>1, <3>2
  <2> QED
    BY <2>1, <2>2, <2>3
<1>2. PICK at, l, how :
         /\ job' = [job EXCEPT ![Main] = NewJob(at, l, how)] /\ at # "embed"
         /\ how \in CountedTwice => Handler(cmd) \in Twice
         /\ how # "ingestURL"
  BY <1>1
<1>3. /\ \A q \in Procs \ {Main} : job'[q] = job[q]
      /\ job'[Main] = NewJob(at, l, how)
  BY <1>0, <1>2
<1>4. StatShape' /\ JobShape'
  <2>1. StatShape'
    BY <1>0 DEF StatShape
  <2>2. JobShape'
    BY <1>0, <1>2, <1>3, NewJobShape DEF JobShape
  <2> QED
    BY <2>1, <2>2
<1>5. EmbedInv'
  BY <1>0, <1>2, <1>3, <1>4, NewJobShape, EmbedKeeps
<1>6. PlaceInv'
  BY <1>0 DEF PlaceInv
<1>7. LoopInv'
  <2> SUFFICES ASSUME Handler(cmd) \in Looped PROVE LoopInv'
    BY <1>0 DEF LoopInv
  <2>1. /\ ListsDocuments(queue) /\ IsDocument(current)
        /\ stats.processed + Len(queue) + 1 = stats.found
        /\ stats.downloaded + stats.errors + LinksIn(queue)
             + Len(current.pdfs) + 0 = AllLinks
    BY <1>0 DEF LoopInv
  <2>2. current' = [current EXCEPT !.pdfs = Tail(@)] /\ current.pdfs # <<>>
    BY DEF NextLink
  <2>3. /\ IsSeq(Tail(current.pdfs)) /\ Len(Tail(current.pdfs)) = Len(current.pdfs) - 1
        /\ Len(current.pdfs) \in Nat
    BY <2>1, <2>2, IsSeqTail DEF IsDocument
  <2>4. IsDocument(current') /\ current'.pdfs = Tail(current.pdfs)
    BY <2>1, <2>2, <2>3 DEF IsDocument, DocumentFields
  <2>5. /\ stats.downloaded \in Nat /\ stats.errors \in Nat /\ LinksIn(queue) \in Nat
    BY <1>0, <2>1, StatNumbers, LinksFinite DEF StatShape
  <2>6. stats.downloaded + stats.errors + LinksIn(queue)
          + Len(current'.pdfs) + 1 = AllLinks
    BY <2>1, <2>3, <2>4, <2>5
  <2>7. AllLinks' = AllLinks
    BY <1>0 DEF AllLinks
  <2> QED
    BY <1>0, <2>1, <2>4, <2>6, <2>7 DEF LoopInv
<1>8. FatwaInv' /\ FilesInv' /\ PrintedInv'
  BY <1>0 DEF FatwaInv, FilesInv, PrintedInv
<1> QED
  BY <1>4, <1>5, <1>6, <1>7, <1>8 DEF StatsInv

LEMMA StatsLinkDone ==
  ASSUME ShapeOK, PrintInv, StatsInv, LinkDone
  PROVE  StatsInv'
<1>0. /\ StatShape /\ JobShape /\ PlaceInv /\ EmbedInv /\ LoopInv /\ FatwaInv
      /\ pc = "job" /\ pc' = "links" /\ ~printed
      /\ Handler(cmd) \in Looped \cup {"fatwa"}
      /\ Handler(cmd) \in Crawlable => crawl.at = "returned"
      /\ UNCHANGED <<cmd, docs, crawl, queue, current, printed>>
      /\ DOMAIN job = Procs /\ Main \in Procs
      /\ job' = [job EXCEPT ![Main] = NoJob]
      /\ stats' = Count(stats, "downloaded", 1) \/ stats' = Count(stats, "errors", 1)
  BY DEF StatsInv, PrintInv, PlaceInv, LinkDone, Fixed, ShapeOK, Procs, crawlVars
<1>1. stats.downloaded \in Nat /\ stats.errors \in Nat
  BY <1>0, StatNumbers DEF StatShape
<1>2. /\ StatShape'
      /\ stats'.downloaded + stats'.errors = stats.downloaded + stats.errors + 1
      /\ stats'.found = stats.found /\ stats'.processed = stats.processed
      /\ stats'.chunks = stats.chunks /\ stats'.embeddings = stats.embeddings
  BY <1>0, <1>1, CountOne
<1>3. /\ \A q \in Procs \ {Main} : job'[q] = job[q]
      /\ job'[Main] = NoJob
  BY <1>0
<1>4. JobShape'
  BY <1>0, <1>3, NewJobShape DEF JobShape, CountedTwice
<1>5. EmbedInv'
  BY <1>0, <1>2, <1>3, NewJobShape, EmbedKeeps
<1>6. PlaceInv'
  BY <1>0 DEF PlaceInv
<1>7. LoopInv'
  <2> SUFFICES ASSUME Handler(cmd) \in Looped PROVE LoopInv'
    BY <1>0 DEF LoopInv
  <2>1. /\ ListsDocuments(queue) /\ IsDocument(current)
        /\ stats.processed + Len(queue) + 1 = stats.found
        /\ stats.downloaded + stats.errors + LinksIn(queue)
             + Len(current.pdfs) + 1 = AllLinks
    BY <1>0 DEF LoopInv
  <2>2. Len(current.pdfs) \in Nat /\ LinksIn(queue) \in Nat
    BY <2>1, IsSeqTail, LinksFinite DEF IsDocument
  <2>3. PICK a \in Nat, b \in Nat :
           a = stats.downloaded + stats.errors /\ b = stats'.downloaded + stats'.errors
    BY <1>1, <1>2
  <2>4. b = a + 1 /\ a + LinksIn(queue) + Len(current.pdfs) + 1 = AllLinks
    BY <1>2, <2>1, <2>3
  <2>5. b + LinksIn(queue) + Len(current.pdfs) + 0 = AllLinks
    BY <2>2, <2>3, <2>4
  <2>6. AllLinks' = AllLinks
    BY <1>0, <1>2 DEF AllLinks
  <2> QED
    BY <1>0, <1>2, <2>1, <2>3, <2>5, <2>6 DEF LoopInv
<1>8. FatwaInv' /\ FilesInv' /\ PrintedInv'
  BY <1>0, <1>2 DEF FatwaInv, FilesInv, PrintedInv
<1> QED
  BY <1>2, <1>4, <1>5, <1>6, <1>7, <1>8 DEF StatsInv

LEMMA StatsDocumentDone ==
  ASSUME ShapeOK, PrintInv, StatsInv, DocumentDone
  PROVE  StatsInv'
<1>0. /\ StatShape /\ JobShape /\ PlaceInv /\ EmbedInv /\ LoopInv /\ FatwaInv
      /\ pc = "links" /\ ~printed /\ current.pdfs = <<>>
      /\ pc' = IF Handler(cmd) = "fatwa" THEN "portals" ELSE "docs"
      /\ Handler(cmd) \in Looped \cup {"fatwa"}
      /\ Handler(cmd) \in Crawlable => crawl.at = "returned"
      /\ UNCHANGED <<cmd, docs, crawl, queue, job, printed>>
  BY DEF StatsInv, PrintInv, PlaceInv, DocumentDone, Fixed, crawlVars
<1>1. PICK s : s = Count(stats, "processed", 1)
  OBVIOUS
<1>2. /\ s \in [StatFields -> Nat] /\ s.processed = stats.processed + 1
      /\ s.found = stats.found /\ s.downloaded = stats.downloaded
      /\ s.errors = stats.errors /\ s.chunks = stats.chunks
      /\ s.embeddings = stats.embeddings
  BY <1>0, <1>1 DEF Count, StatFields, StatShape
<1>3. \/ stats' = s
      \/ /\ Handler(cmd) = "bnm"
         /\ \E n \in {0, 1} : stats' = Count(Count(s, "chunks", 1), "embeddings", n)
  BY <1>1 DEF DocumentDone
<1>4. /\ StatShape' /\ stats'.processed = stats.processed + 1
      /\ stats'.found = stats.found /\ stats'.downloaded = stats.downloaded
      /\ stats'.errors = stats.errors
      /\ \/ stats'.chunks = stats.chunks /\ stats'.embeddings = stats.embeddings
         \/ /\ Handler(cmd) = "bnm" /\ stats'.chunks = stats.chunks + 1
            /\ \E n \in {0, 1} : stats'.embeddings = stats.embeddings + n
  <2>1. CASE stats' = s
    BY <1>2, <2>1 DEF StatShape
  <2>2. ASSUME NEW n \in {0, 1}, Handler(cmd) = "bnm",
               stats' = Count(Count(s, "chunks", 1), "embeddings", n)
        PROVE  /\ StatShape' /\ stats'.processed = stats.processed + 1
               /\ stats'.found = stats.found /\ stats'.downloaded = stats.downloaded
               /\ stats'.errors = stats.errors
               /\ stats'.chunks = stats.chunks + 1
               /\ stats'.embeddings = stats.embeddings + n
    <3>1. /\ stats' \in [StatFields -> Nat] /\ stats'.processed = s.processed
          /\ stats'.found = s.found /\ stats'.downloaded = s.downloaded
          /\ stats'.errors = s.errors /\ stats'.chunks = s.chunks + 1
          /\ stats'.embeddings = s.embeddings + n
      BY <1>2, <2>2 DEF Count, StatFields
    <3> QED
      BY <1>2, <3>1 DEF StatShape
  <2> QED
    BY <1>3, <2>1, <2>2
<1>5. JobShape'
  BY <1>0 DEF JobShape
<1>6. PlaceInv'
  BY <1>0 DEF PlaceInv
<1>7. EmbedInv'
  <2>1. Pending' = Pending /\ IsFiniteSet(Pending)
    BY <1>0 DEF Pending, EmbedInv
  <2>2. PICK m \in Nat : m = Cardinality(Pending)
    BY <2>1, FS_CardinalityType
  <2>3. CASE stats'.chunks = stats.chunks /\ stats'.embeddings = stats.embeddings
    BY <1>0, <2>1, <2>3 DEF EmbedInv
  <2>4. ASSUME Handler(cmd) = "bnm", stats'.chunks = stats.chunks + 1,
               NEW n \in {0, 1}, stats'.embeddings = stats.embeddings + n
        PROVE  EmbedInv'
    <3>1. Handler(cmd) \notin Twice
      BY <2>4 DEF Twice
    <3>2. stats.embeddings + m <= stats.chunks
      BY <1>0, <2>2, <3>1 DEF EmbedInv
    <3>3. stats.embeddings \in Nat /\ stats.chunks \in Nat
      BY <1>0, StatNumbers DEF StatShape
    <3>4. stats'.embeddings + m <= stats'.chunks
      BY <2>4, <3>2, <3>3
    <3> QED
      BY <1>0, <2>1, <2>2, <3>1, <3>4 DEF EmbedInv
  <2> QED
    BY <1>4, <2>3, <2>4
<1>8. stats.processed \in Nat /\ stats.found \in Nat /\ stats.downloaded \in Nat
      /\ stats.errors \in Nat
  BY <1>0, StatNumbers DEF StatShape
<1>9. LoopInv'
  <2> SUFFICES ASSUME Handler(cmd) \in Looped PROVE LoopInv'
    BY <1>0 DEF LoopInv
  <2>1. /\ ListsDocuments(queue) /\ IsDocument(current)
        /\ stats.processed + Len(queue) + 1 = stats.found
        /\ stats.downloaded + stats.errors + LinksIn(queue)
             + Len(current.pdfs) + 0 = AllLinks
    BY <1>0 DEF LoopInv
  <2>2. Len(queue) \in Nat /\ LinksIn(queue) \in Nat /\ Len(current.pdfs) = 0
    BY <1>0, <2>1, IsSeqTail, LinksFinite DEF ListsDocuments, IsDocument
  <2>3. /\ stats'.processed + Len(queue) + 0 = stats.found
        /\ stats.downloaded + stats.errors + LinksIn(queue) + 0 + 0 = AllLinks
    BY <1>4, <1>8, <2>1, <2>2
  <2>4. AllLinks' = AllLinks /\ pc' = "docs"
    BY <1>0, <1>4 DEF AllLinks, Looped, Crawlable
  <2> QED
    BY <1>0, <1>4, <2>1, <2>3, <2>4 DEF LoopInv
<1>10. FatwaInv'
  <2> SUFFICES ASSUME Handler(cmd) = "fatwa" PROVE FatwaInv'
    BY <1>0 DEF FatwaInv
  <2>1. stats.processed + 1 = stats.found /\ pc' = "portals"
    BY <1>0 DEF FatwaInv
  <2> QED
    BY <1>4, <1>8, <2>1 DEF FatwaInv
<1>11. FilesInv' /\ PrintedInv'
  BY <1>0 DEF FilesInv, PrintedInv
<1> QED
  BY <1>4, <1>5, <1>6, <1>7, <1>9, <1>10, <1>11 DEF StatsInv

LEMMA StatsSingle ==
  ASSUME PrintInv, StatsInv, SingleDone
  PROVE  StatsInv'
<1>0. /\ StatShape /\ JobShape /\ PlaceInv /\ EmbedInv
      /\ pc = "single" /\ ~printed /\ Handler(cmd) \in {"file", "process", "url"}
      /\ UNCHANGED <<cmd, job, docs, crawl>>
      /\ \/ pc' = "ended" /\ UNCHANGED <<stats, printed>>
         \/ pc' = "printed" /\ stats' = Count(stats, "processed", 1)
  BY DEF StatsInv, PrintInv, PlaceInv, SingleDone, Fixed, crawlVars, End, PrintStats
<1>1. CASE pc' = "ended" /\ UNCHANGED <<stats, printed>>
  BY <1>0, <1>1, StatsLeave DEF Crawlable
<1>2. CASE pc' = "printed" /\ stats' = Count(stats, "processed", 1)
  <2>1. /\ StatShape' /\ stats'.chunks = stats.chunks
        /\ stats'.embeddings = stats.embeddings
    BY <1>0, <1>2, CountOne
  <2>2. JobShape'
    BY <1>0 DEF JobShape
  <2>3. PlaceInv'
    BY <1>0, <1>2 DEF PlaceInv, Crawlable
  <2>4. EmbedInv'
    BY <1>0, <2>1 DEF EmbedInv, Pending
  <2>5. LoopInv' /\ FatwaInv' /\ FilesInv' /\ PrintedInv'
    BY <1>0, <1>2 DEF LoopInv, FatwaInv, FilesInv, PrintedInv, Looped, Crawlable
  <2> QED
    BY <2>1, <2>2, <2>3, <2>4, <2>5 DEF StatsInv
<1> QED
  BY <1>0, <1>1, <1>2

LEMMA StatsNextPortal ==
  ASSUME PrintInv, StatsInv, NextPortal
  PROVE  StatsInv'
<1>0. /\ StatShape /\ JobShape /\ PlaceInv /\ EmbedInv /\ FatwaInv
      /\ pc = "portals" /\ ~printed /\ Handler(cmd) = "fatwa"
      /\ UNCHANGED <<cmd, job, stats>>
      /\ \/ pc' = "ended" /\ UNCHANGED <<docs, crawl, printed>>
         \/ pc' = "printed"
         \/ pc' = "portals" /\ UNCHANGED printed
         \/ pc' = "portal" /\ UNCHANGED printed /\ StartFatwa(Head(queue))
  BY DEF StatsInv, PrintInv, PlaceInv, NextPortal, Fixed, crawlVars, End, PrintStats
<1>1. /\ StatShape' /\ JobShape' /\ EmbedInv'
      /\ stats.processed + 0 = stats.found
      /\ stats.processed \in Nat /\ stats.found \in Nat
  BY <1>0, StatsKeep, StatNumbers DEF FatwaInv, StatShape
<1>2. CASE pc' = "ended" /\ UNCHANGED <<docs, crawl, printed>>
  BY <1>0, <1>2, StatsLeave DEF Crawlable
<1>3. CASE pc' = "printed"
  <2>1. stats.processed = stats.found
    BY <1>1
  <2>2. PlaceInv' /\ LoopInv' /\ FatwaInv' /\ FilesInv' /\ PrintedInv'
    BY <1>0, <1>3, <2>1 DEF PlaceInv, LoopInv, FatwaInv, FilesInv, PrintedInv,
                            Crawlable
  <2> QED
    BY <1>1, <2>2 DEF StatsInv
<1>4. CASE pc' = "portals" /\ UNCHANGED printed
  <2>1. PlaceInv' /\ LoopInv' /\ FatwaInv' /\ FilesInv' /\ PrintedInv'
    BY <1>0, <1>1, <1>4 DEF PlaceInv, LoopInv, FatwaInv, FilesInv, PrintedInv,
                            Crawlable, Looped
  <2> QED
    BY <1>1, <2>1 DEF StatsInv
<1>5. CASE pc' = "portal" /\ UNCHANGED printed /\ StartFatwa(Head(queue))
  <2>1. crawl'.kind = "fatwa"
    BY <1>5 DEF StartFatwa, StartCrawl
  <2>2. PlaceInv' /\ LoopInv' /\ FatwaInv' /\ FilesInv' /\ PrintedInv'
    BY <1>0, <1>1, <1>5, <2>1 DEF PlaceInv, LoopInv, FatwaInv, FilesInv, PrintedInv,
                                  Crawlable, Looped
  <2> QED
    BY <1>1, <2>2 DEF StatsInv
<1> QED
  BY <1>0, <1>2, <1>3, <1>4, <1>5

\* A portal gives one document, or an error and none.
LEMMA StatsFatwaCrawled ==
  ASSUME PrintInv, DocsInv, StatsInv, FatwaCrawled
  PROVE  StatsInv'
<1>0. /\ StatShape /\ JobShape /\ PlaceInv /\ EmbedInv /\ FatwaInv
      /\ pc = "portal" /\ ~printed /\ Handler(cmd) = "fatwa"
      /\ crawl.kind = "fatwa" /\ crawl.at = "returned"
      /\ UNCHANGED <<cmd, job, docs, crawl, printed>>
      /\ \/ pc' = "portals" /\ stats' = Count(stats, "errors", 1)
         \/ pc' = "links" /\ ~crawl.err /\ stats' = Count(stats, "found", Len(docs))
  BY DEF StatsInv, PrintInv, PlaceInv, FatwaCrawled, Fixed, crawlVars
<1>1. ~crawl.err => Len(docs) = 1
  BY <1>0 DEF DocsInv
<1>2. /\ StatShape' /\ stats'.processed = stats.processed
      /\ stats'.chunks = stats.chunks /\ stats'.embeddings = stats.embeddings
      /\ \/ pc' = "portals" /\ stats'.found = stats.found
         \/ pc' = "links" /\ stats'.found = stats.found + 1
  <2>1. CASE pc' = "portals" /\ stats' = Count(stats, "errors", 1)
    BY <1>0, <2>1, CountOne
  <2>2. CASE pc' = "links" /\ stats' = Count(stats, "found", 1)
    BY <1>0, <2>2, CountOne
  <2> QED
    BY <1>0, <1>1, <2>1, <2>2
<1>3. /\ stats.processed + 0 = stats.found
      /\ stats.processed \in Nat /\ stats.found \in Nat
  BY <1>0, StatNumbers DEF FatwaInv, StatShape
<1>4. JobShape'
  BY <1>0 DEF JobShape
<1>5. EmbedInv'
  BY <1>0, <1>2 DEF EmbedInv, Pending
<1>6. FatwaInv'
  <2>1. CASE pc' = "portals" /\ stats'.found = stats.found
    BY <1>2, <1>3, <2>1 DEF FatwaInv
  <2>2. CASE pc' = "links" /\ stats'.found = stats.found + 1
    BY <1>2, <1>3, <2>2 DEF FatwaInv
  <2> QED
    BY <1>2, <2>1, <2>2
<1>7. PlaceInv' /\ LoopInv' /\ FilesInv' /\ PrintedInv'
  BY <1>0, <1>2 DEF PlaceInv, LoopInv, FilesInv, PrintedInv, Looped, Crawlable
<1> QED
  BY <1>2, <1>4, <1>5, <1>6, <1>7 DEF StatsInv

LEMMA StatsSpawn ==
  ASSUME ShapeOK, PrintInv, StatsInv, Spawn
  PROVE  StatsInv'
<1>0. /\ StatShape /\ JobShape /\ PlaceInv /\ EmbedInv /\ FilesInv
      /\ pc = "spawn" /\ ~printed /\ Handler(cmd) = "aaoifi"
      /\ UNCHANGED <<cmd, docs, crawl, stats, printed>>
      /\ IsSeq(queue) /\ Len(queue) <= Len(Files)
      /\ DOMAIN job = Procs /\ Procs = {Main} \cup Workers
  BY DEF StatsInv, PrintInv, PlaceInv, Spawn, Fixed, crawlVars, ShapeOK, Procs
<1>1. /\ stats.found = Len(Files)
      /\ stats.processed + stats.errors + Cardinality(Active) + Len(queue) = Len(Files)
      /\ \A w \in Workers : w > Len(Files) - Len(queue) => job[w] = NoJob
  BY <1>0 DEF FilesInv
<1>2. CASE queue = <<>> /\ pc' = "wait" /\ UNCHANGED <<queue, job>>
  <2>1. StatShape' /\ JobShape' /\ EmbedInv'
    BY <1>0, <1>2, StatsKeep
  <2>2. PlaceInv' /\ LoopInv' /\ FatwaInv' /\ PrintedInv'
    BY <1>0, <1>2 DEF PlaceInv, LoopInv, FatwaInv, PrintedInv, Crawlable, Looped
  <2>3. Active' = Active
    BY <1>2 DEF Active
  <2>4. FilesInv'
    BY <1>0, <1>1, <1>2, <2>3 DEF FilesInv
  <2> QED
    BY <2>1, <2>2, <2>4 DEF StatsInv
<1>3. CASE pc' = "ended" /\ UNCHANGED job
  BY <1>0, <1>3, StatsLeave DEF Crawlable
<1>4. CASE /\ queue # <<>> /\ queue' = Tail(queue) /\ UNCHANGED pc
           /\ job' = [job EXCEPT ![Len(Files) - Len(queue) + 1] =
                        NewJob("queued", Head(queue).url, "parallel")]
  <2>1. /\ Len(queue) \in Nat /\ Len(queue') = Len(queue) - 1 /\ Len(queue) # 0
        /\ Len(queue') \in Nat
    BY <1>0, <1>4, IsSeqTail
  <2>2. Cardinality(Workers) \in Nat /\ Len(Files) \in Nat
    BY CrawlerAssumption, FS_CardinalityType, FileList
  <2>3. PICK v : v = Len(Files) - Len(queue) + 1
    OBVIOUS
  <2>4. v \in Workers /\ v > Len(Files) - Len(queue) /\ v \in Procs
        /\ Len(Files) - Len(queue') = v /\ Workers \subseteq Int
    BY <1>0, <2>1, <2>2, <2>3, IngestAssumption, StoreBatchAssumption
  <2>5. /\ \A q \in Procs \ {v} : job'[q] = job[q]
        /\ job'[v] = NewJob("queued", Head(queue).url, "parallel")
    BY <1>0, <1>4, <2>3, <2>4
  <2>6. job[v] = NoJob /\ job'[v] # NoJob
    BY <1>1, <2>4, <2>5, NewJobShape
  <2>7. StatShape' /\ JobShape'
    BY <1>0, <2>5, NewJobShape DEF StatShape, JobShape, CountedTwice
  <2>8. EmbedInv'
    BY <1>0, <2>4, <2>5, <2>7, NewJobShape, EmbedKeeps
  <2>9. PlaceInv' /\ LoopInv' /\ FatwaInv' /\ PrintedInv'
    BY <1>0, <1>4 DEF PlaceInv, LoopInv, FatwaInv, PrintedInv
  <2>10. FilesInv'
    <3>1. Active' = Active \cup {v} /\ v \notin Active
      BY <1>0, <2>4, <2>5, <2>6 DEF Active
    <3>2. IsFiniteSet(Active)
      BY CrawlerAssumption, FS_Subset DEF Active
    <3>3. PICK m \in Nat : m = Cardinality(Active) /\ Cardinality(Active') = m + 1
      BY <3>1, <3>2, FS_AddElement, FS_CardinalityType
    <3>4. PICK a \in Nat : a = stats.processed + stats.errors
      BY <1>0, StatNumbers DEF StatShape
    <3>5. a + m + Len(queue) = Len(Files)
      BY <1>1, <3>3, <3>4
    <3>6. a + (m + 1) + Len(queue') = Len(Files)
      BY <2>1, <2>2, <3>5
    <3>7. \A w \in Workers : w > Len(Files) - Len(queue') => job'[w] = NoJob
      <4> SUFFICES ASSUME NEW w \in Workers, w > Len(Files) - Len(queue')
                   PROVE  job'[w] = NoJob
        OBVIOUS
      <4>1. w # v /\ w > Len(Files) - Len(queue) /\ w \in Procs
        BY <1>0, <2>1, <2>2, <2>4
      <4> QED
        BY <1>1, <2>5, <4>1
    <3> QED
      BY <1>0, <1>1, <1>4, <3>3, <3>4, <3>6, <3>7 DEF FilesInv
  <2> QED
    BY <2>7, <2>8, <2>9, <2>10 DEF StatsInv
<1> QED
  BY <1>2, <1>3, <1>4 DEF Spawn, End

LEMMA StatsWait ==
  ASSUME PrintInv, StatsInv, Wait
  PROVE  StatsInv'
<1>0. /\ StatShape /\ PlaceInv /\ FilesInv
      /\ pc = "wait" /\ pc' = "printed" /\ Handler(cmd) = "aaoifi"
      /\ UNCHANGED <<cmd, docs, crawl, job, stats>>
      /\ \A w \in Workers : job[w] = NoJob
  BY DEF StatsInv, PlaceInv, Wait, Fixed, crawlVars, PrintStats
<1>1. Active = {} /\ Cardinality(Active) = 0
  BY <1>0, FS_EmptySet DEF Active
<1>2. /\ queue = <<>> /\ stats.found = Len(Files)
      /\ stats.processed + stats.errors + Cardinality(Active) + Len(queue) = Len(Files)
  BY <1>0 DEF FilesInv
<1>3. stats.processed \in Nat /\ stats.errors \in Nat
  BY <1>0, StatNumbers DEF StatShape
<1>4. stats.processed + stats.errors = stats.found
  BY <1>1, <1>2, <1>3
<1>5. StatShape' /\ JobShape' /\ EmbedInv'
  BY <1>0, StatsKeep
<1>6. PlaceInv' /\ LoopInv' /\ FatwaInv' /\ FilesInv' /\ PrintedInv'
  BY <1>0, <1>4 DEF PlaceInv, LoopInv, FatwaInv, FilesInv, PrintedInv, Crawlable,
                    Looped
<1> QED
  BY <1>5, <1>6 DEF StatsInv

-----------------------------------------------------------------------------
(* All the steps *)

LEMMA StatsDrive ==
  ASSUME ShapeOK, PhaseInv, PrintInv, DocsInv, StatsInv, Drive
  PROVE  StatsInv'
<1>0. Running
  BY DEF Drive
<1>1. CASE CrawlStep /\ UNCHANGED <<batchVars, ingestVars>>
  BY <1>0, <1>1, StatsCrawl
<1>2. CASE LibraryBatch
  <2>1. /\ pc = "library" /\ pc' = "batch"
        /\ UNCHANGED <<cmd, job, stats, docs, crawl, printed>>
    BY <1>2 DEF LibraryBatch, StartBatch
  <2> QED
    BY <2>1, StatsLeave DEF StatsInv, PlaceInv
<1>3. CASE ReturnToShell \/ LibraryReturn
  <2>1. /\ pc \in {"printed", "batch"} /\ pc' = "ended"
        /\ UNCHANGED <<cmd, job, stats, docs, crawl, printed>>
    BY <1>3 DEF ReturnToShell, LibraryReturn, Fixed, End, crawlVars
  <2> QED
    BY <2>1, StatsLeave DEF StatsInv, PlaceInv
<1>4. CASE \/ StartNothing \/ IngestBNM \/ IngestPolicy \/ IngestSC \/ IngestIIFA
           \/ IngestDirectory \/ IngestAAOIFI \/ IngestFile \/ IngestURL
           \/ IngestFatwa
  <2>1. pc = "start"
    BY <1>4 DEF StartNothing, IngestBNM, IngestPolicy, IngestSC, IngestIIFA,
                StartCrawling, IngestDirectory, IngestAAOIFI, StartDirectory,
                IngestFile, IngestURL, IngestFatwa, Starts
  <2> QED
    BY <1>4, <2>1, StatsStart
<1>5. ASSUME NEW h, DocumentLoop(h) PROVE StatsInv'
  BY <1>5, StatsNextDocument, StatsNextLink, StatsLinkDone, StatsDocumentDone
     DEF DocumentLoop
<1> QED
  BY <1>1, <1>2, <1>3, <1>4, <1>5, StatsCrawled, StatsSingle, StatsNextPortal,
     StatsFatwaCrawled, StatsSpawn, StatsWait
     DEF Drive, BNMDocuments, PolicyDocuments, DirectoryDocuments, SCDocuments,
         IIFADocuments, FatwaDocuments

LEMMA StatsGoroutine ==
  ASSUME ShapeOK, PhaseInv, PrintInv, StatsInv, NEW p \in Procs, Goroutine(p)
  PROVE  StatsInv'
<1>0. Running
  BY DEF Goroutine
<1>1. CASE BNMFetchWithRetry(p) /\ UNCHANGED <<batchVars, ingestVars>>
  <2>1. UNCHANGED <<crawl, docs>>
    BY <1>1 DEF BNMFetchWithRetry, Exchange, WaitForToken, Answer, Backoff
  <2> QED
    BY <1>1, <2>1, StatsFrame
<1>2. CASE /\ SCFetchWithRetry \/ IIFAFetchWithRetry \/ FatwaFetchWithRetry
           /\ UNCHANGED <<batchVars, ingestVars>>
  <2>1. UNCHANGED <<crawl, docs>>
    BY <1>2 DEF SCFetchWithRetry, IIFAFetchWithRetry, FatwaFetchWithRetry,
                Exchange, WaitForToken, Answer, Backoff
  <2> QED
    BY <1>2, <2>1, StatsFrame
<1>3. CASE JobStep(p)
  BY <1>0, <1>3, StatsJob
<1>4. CASE p \in Workers /\ (TakeSlot(p) \/ FileDone(p))
  BY <1>0, <1>4, StatsSlot, StatsFile
<1>5. CASE p \in Workers /\ BatchGoroutine(p) /\ UNCHANGED ingestVars
  <2>1. UNCHANGED <<crawl, docs>>
    BY <1>5 DEF BatchGoroutine, BNMProcessAndStore, DownloadAll, SCProcessAndStore,
                IIFAProcessAndStore, StoreLink, TakeBatchSlot, FirstToken,
                DownloadAndStore, UploadLocal, Upload, Report, crawlVars
  <2> QED
    BY <1>5, <2>1, StatsFrame
<1> QED
  BY <1>1, <1>2, <1>3, <1>4, <1>5 DEF Goroutine

LEMMA StatsNext ==
  ASSUME IngestInv, DocsInv, StatsInv, [Next]_vars
  PROVE  StatsInv' /\ DocsInv'
<1>0. ShapeOK /\ PhaseInv /\ PrintInv
  BY DEF IngestInv
<1>1. StatsInv'
  <2>1. CASE Interrupt \/ Over \/ UNCHANGED vars
    <3>1. UNCHANGED <<crawl, docs, ingestVars>>
      BY <2>1 DEF Interrupt, Over, vars, crawlVars
    <3> QED
      BY <3>1, StatsFrame
  <2>2. CASE Kill
    <3>1. /\ Handler(cmd) = "process" /\ pc' = "ended"
          /\ UNCHANGED <<cmd, job, stats, docs, crawl, printed>>
      BY <2>2 DEF Kill, End, Fixed, crawlVars
    <3> QED
      BY <3>1, StatsLeave DEF Crawlable
  <2>3. CASE Drive
    BY <1>0, <2>3, StatsDrive
  <2>4. ASSUME NEW p \in Procs, Goroutine(p) PROVE StatsInv'
    BY <1>0, <2>4, StatsGoroutine
  <2> QED
    BY <2>1, <2>2, <2>3, <2>4 DEF Next
<1>2. DocsInv'
  <2>1. ASSUME UNCHANGED <<crawl, docs>> PROVE DocsInv'
    BY <2>1 DEF DocsInv
  <2>2. ASSUME NEW b \in Batches, StartBatch(b) PROVE UNCHANGED <<crawl, docs>>
    BY <2>2 DEF StartBatch
  <2>3. ASSUME NEW w \in Workers, BatchGoroutine(w) PROVE UNCHANGED <<crawl, docs>>
    BY <2>3 DEF BatchGoroutine, BNMProcessAndStore, DownloadAll, SCProcessAndStore,
                IIFAProcessAndStore, StoreLink, TakeBatchSlot, FirstToken,
                DownloadAndStore, UploadLocal, Upload, Report, crawlVars
  <2>4. Quiet => UNCHANGED <<crawl, docs>>
    BY DEF Quiet
  <2> QED
    BY <1>0, <2>1, <2>2, <2>3, <2>4, DocsStep, DocsBegin, Effects
<1> QED
  BY <1>1, <1>2

LEMMA StatsInit == Init => DocsInv /\ StatsInv
<1> SUFFICES ASSUME Init PROVE DocsInv /\ StatsInv
  OBVIOUS
<1>1. /\ crawl.kind = "none" /\ docs = <<>> /\ stats = Stats /\ printed = FALSE
      /\ job = [p \in Procs |-> NoJob]
      /\ pc = "start" \/ (pc = "library" /\ Handler(cmd) = "nothing")
  BY DEF Init, CrawlInit, BatchInit
<1>2. DocsInv
  BY <1>1, LinksOfNone DEF DocsInv
<1>3. StatShape
  BY <1>1, StatsZero DEF StatShape
<1>4. JobShape
  BY <1>1, NewJobShape DEF JobShape, CountedTwice
<1>5. PlaceInv
  BY <1>1 DEF PlaceInv, Crawlable
<1>6. EmbedInv
  <2>1. \A p \in Procs : job[p].at # "embed"
    BY <1>1, NewJobShape
  <2>2. Pending = {}
    BY <2>1 DEF Pending, PendingOf
  <2> QED
    BY <1>1, <2>2, StatsZero, FS_EmptySet DEF EmbedInv
<1>7. LoopInv /\ FatwaInv /\ FilesInv /\ PrintedInv
  BY <1>1 DEF LoopInv, FatwaInv, FilesInv, PrintedInv
<1> QED
  BY <1>2, <1>3, <1>4, <1>5, <1>6, <1>7 DEF StatsInv

LEMMA SumsOfInv == StatsInv => StatsAddUp
<1> SUFFICES ASSUME StatsInv PROVE StatsAddUp
  OBVIOUS
<1>1. stats.embeddings <= (IF Handler(cmd) \in Twice THEN 2 ELSE 1) * stats.chunks
  <2>1. PICK m \in Nat : m = Cardinality(Pending)
    BY FS_CardinalityType DEF StatsInv, EmbedInv
  <2>2. stats.embeddings \in Nat /\ stats.chunks \in Nat
    BY StatNumbers DEF StatsInv, StatShape
  <2>3. CASE Handler(cmd) \in Twice
    BY <2>1, <2>2, <2>3 DEF StatsInv, EmbedInv
  <2>4. CASE Handler(cmd) \notin Twice
    BY <2>1, <2>2, <2>4 DEF StatsInv, EmbedInv
  <2> QED
    BY <2>3, <2>4
<1>2. PrintedInv
  BY DEF StatsInv
<1> QED
  BY <1>1, <1>2 DEF StatsAddUp, PrintedInv, Twice, Looped, Crawlable, LinksIn, LinkSet

-----------------------------------------------------------------------------
(* Types *)

FileLinks == Links \cup LocalFiles
OfLinks(s) == \A i \in DOMAIN s : s[i].pdfs \in Seq(FileLinks)

\* An exchange that backs off has an attempt left.
CallOK ==
    /\ call \in [Procs -> CallTypes]
    /\ \A p \in Procs : call[p].at = "backoff" => call[p].attempt < MaxRetries

CrawlStages == {"none", "loop", "page", "listing", "links", "resolution",
                "table", "tabled", "returned"}
SessionOK(s) == /\ DOMAIN s = SessionFields
                /\ s.status \in {"none", "running", "completed"}
                /\ s.processed \subseteq Urls

\* What a crawl has to do are pages, and there is one where it needs one.
TodoOK ==
    /\ crawl.at \in CrawlStages
    /\ crawl.page \in Nat \ {0}
    /\ SessionOK(session)
    /\ crawl.kind \in {"bnm", "sc", "iifa", "fatwa"} =>
         /\ crawl.todo \in Seq(Urls)
         /\ crawl.at \in {"page", "resolution"} => crawl.todo # <<>>
         /\ crawl.kind = "fatwa" /\ crawl.at = "loop" => crawl.todo # <<>>

\* The queue holds documents, or portals; the links are links or local files.
QueueOK ==
    /\ Handler(cmd) \in Looped /\ pc \in {"docs", "links", "job"} => OfLinks(queue)
    /\ Handler(cmd) = "fatwa" /\ pc # "start" => queue \in Seq(Portals)
    /\ pc \in {"links", "job"} =>
         DOMAIN current = DocumentFields /\ current.pdfs \in Seq(FileLinks)

JobStages == {"none", "queued", "fetch", "open", "pages", "embed", "save",
              "done", "failed"}
Outcomes == {"running", "ok", "error", "killed"}
StageOK ==
    /\ cmd \in Commands
    /\ result \in Outcomes
    /\ cancelled \in BOOLEAN
    /\ \A p \in Procs : job[p].at \in JobStages
    /\ \A w \in Workers : put[w].at \in PutStages

TypeInv == CallOK /\ TodoOK /\ OfLinks(docs) /\ QueueOK /\ StageOK

LEMMA UrlsAre ==
  /\ BnmPages \in Seq(Urls) /\ ScPages \in Seq(Urls) /\ <<>> \in Seq(Urls)
  /\ Listings \subseteq Seq(Urls) /\ PageLinks \subseteq Seq(Links)
  /\ Portals \subseteq Urls /\ FileLinks \subseteq Urls
  /\ \A i \in 1 .. MaxListings : ListingPages[i] \in Urls
  /\ MaxListings \in Nat
<1>1. \A A, B : A \subseteq B => Seq(A) \subseteq Seq(B)
  BY SeqMonotonic
<1>2. /\ BnmPages \in Seq(Range(BnmPages)) /\ ScPages \in Seq(Range(ScPages))
      /\ ListingPages \in Seq(Range(ListingPages))
      /\ \A s \in Listings : s \in Seq(Resolutions)
      /\ \A s \in PageLinks : s \in Seq(Links)
  BY CrawlerAssumption
<1>3. /\ Range(BnmPages) \subseteq Urls /\ Range(ScPages) \subseteq Urls
      /\ Range(ListingPages) \subseteq Urls /\ Resolutions \subseteq Urls
      /\ Portals \subseteq Urls /\ FileLinks \subseteq Urls
  BY DEF Urls, FileLinks
<1>4. /\ Seq(Range(BnmPages)) \subseteq Seq(Urls)
      /\ Seq(Range(ScPages)) \subseteq Seq(Urls) /\ Seq(Resolutions) \subseteq Seq(Urls)
  BY <1>1, <1>3
<1>5. Listings \subseteq Seq(Urls) /\ PageLinks \subseteq Seq(Links)
  BY <1>2, <1>4
<1>6. MaxListings \in Nat /\ \A i \in 1 .. MaxListings : ListingPages[i] \in Range(ListingPages)
  BY <1>2 DEF MaxListings
<1>7. <<>> \in Seq(Urls)
  OBVIOUS
<1> QED
  BY <1>2, <1>3, <1>4, <1>5, <1>6, <1>7

-----------------------------------------------------------------------------
(* Types: the exchanges *)

\* A goroutine begins or leaves an exchange.
LEMMA CallMoves ==
  ASSUME CallOK, NEW p \in Procs,
         \/ UNCHANGED call \/ call' = HangUp(p)
         \/ \E u \in Urls : call' = Dial(p, u)
  PROVE  CallOK'
<1>0. call \in [Procs -> CallTypes] /\ MaxRetries \in Nat
  BY CrawlerAssumption DEF CallOK
<1>1. CASE UNCHANGED call
  BY <1>1 DEF CallOK
<1>2. ASSUME NEW c \in CallTypes, c.at # "backoff", call' = [call EXCEPT ![p] = c]
      PROVE  CallOK'
  BY <1>0, <1>2 DEF CallOK
<1>3. NoCall \in CallTypes /\ NoCall.at # "backoff"
  BY <1>0 DEF NoCall, CallTypes
<1>4. ASSUME NEW u \in Urls
      PROVE  [at |-> "limiter", url |-> u, attempt |-> 0] \in CallTypes
  BY <1>0 DEF CallTypes
<1>5. CASE call' = HangUp(p)
  BY <1>2, <1>3, <1>5 DEF HangUp
<1>6. ASSUME NEW u \in Urls, call' = Dial(p, u) PROVE CallOK'
  BY <1>2, <1>4, <1>6 DEF Dial
<1> QED
  BY <1>1, <1>5, <1>6

\* Only the last attempt's failure is one, so a retry is one more attempt.
LEMMA CallExchange ==
  ASSUME CallOK, NEW p \in Procs, Exchange(p) PROVE CallOK'
<1>0. /\ call \in [Procs -> CallTypes] /\ call[p] \in CallTypes /\ MaxRetries \in Nat
      /\ call[p].at = "backoff" => call[p].attempt < MaxRetries
  BY CrawlerAssumption DEF CallOK
<1>1. /\ DOMAIN call[p] = {"at", "url", "attempt"}
      /\ call[p].url \in Urls \cup {"none"} /\ call[p].attempt \in 0 .. MaxRetries
      /\ call[p] = [at |-> call[p].at, url |-> call[p].url, attempt |-> call[p].attempt]
  BY <1>0 DEF CallTypes
<1>2. ASSUME NEW c \in CallTypes, c.at = "backoff" => c.attempt < MaxRetries,
             call' = [call EXCEPT ![p] = c]
      PROVE  CallOK'
  BY <1>0, <1>2 DEF CallOK
<1>3. ASSUME NEW at \in {"get", "got", "failed"}, call' = [call EXCEPT ![p].at = at]
      PROVE  CallOK'
  <2>1. PICK c : c = [call[p] EXCEPT !.at = at]
    OBVIOUS
  <2>2. c = [at |-> at, url |-> call[p].url, attempt |-> call[p].attempt]
    BY <1>1, <2>1
  <2>3. c \in CallTypes /\ c.at # "backoff"
    BY <1>1, <2>2 DEF CallTypes
  <2> QED
    BY <1>2, <1>3, <2>1, <2>3
<1>4. CASE call[p].attempt < MaxRetries /\ call' = [call EXCEPT ![p].at = "backoff"]
  <2>1. PICK c : c = [call[p] EXCEPT !.at = "backoff"]
    OBVIOUS
  <2>2. c = [at |-> "backoff", url |-> call[p].url, attempt |-> call[p].attempt]
    BY <1>1, <2>1
  <2>3. c \in CallTypes /\ c.attempt < MaxRetries
    BY <1>1, <1>4, <2>2 DEF CallTypes
  <2> QED
    BY <1>2, <1>4, <2>1, <2>3
<1>5. CASE /\ call[p].at = "backoff"
           /\ call' = [call EXCEPT ![p].at = "get", ![p].attempt = @ + 1]
  <2>1. PICK c : c = [at |-> "get", url |-> call[p].url, attempt |-> call[p].attempt + 1]
    OBVIOUS
  <2>2. call[p].attempt + 1 \in 0 .. MaxRetries
    BY <1>0, <1>1, <1>5
  <2>3. c \in CallTypes /\ c.at # "backoff"
    BY <1>1, <2>1, <2>2 DEF CallTypes
  <2>4. call' = [call EXCEPT ![p] = c]
    BY <1>0, <1>1, <1>5, <2>1
  <2> QED
    BY <1>2, <2>3, <2>4
<1> QED
  BY <1>3, <1>4, <1>5 DEF Exchange, WaitForToken, Answer, Backoff

-----------------------------------------------------------------------------
(* Types: the crawls *)

LEMMA SessionTyped ==
  ASSUME NEW s, SessionOK(s)
  PROVE  /\ SessionOK(CompleteState(s)) /\ SessionOK(IncrementError(s))
         /\ SessionOK(IncrementSuccess(s))
         /\ \A u \in Urls : SessionOK(MarkProcessed(s, u))
BY DEF SessionOK, SessionFields, CompleteState, IncrementError, IncrementSuccess,
       MarkProcessed

SiteKinds == {"bnm", "sc", "iifa", "fatwa"}

LEMMA TodoMoves ==
  ASSUME SessionOK(session'), crawl'.at \in CrawlStages, crawl'.page \in Nat \ {0},
         crawl'.kind \in SiteKinds =>
           /\ crawl'.todo \in Seq(Urls)
           /\ crawl'.at \in {"page", "resolution"} => crawl'.todo # <<>>
           /\ crawl'.kind = "fatwa" => crawl'.at # "loop"
  PROVE  TodoOK'
BY DEF TodoOK, SiteKinds

\* The crawl is a record: what an assignment to some of its fields leaves.
LEMMA CrawlFields ==
  ASSUME ShapeOK
  PROVE  /\ \A at : LET c == [crawl EXCEPT !.at = at]
                    IN  /\ c.at = at /\ c.todo = crawl.todo /\ c.page = crawl.page
                        /\ c.kind = crawl.kind
         /\ \A at, err : LET c == [crawl EXCEPT !.at = at, !.err = err]
                    IN  /\ c.at = at /\ c.todo = crawl.todo /\ c.page = crawl.page
                        /\ c.kind = crawl.kind
         /\ \A at, todo : LET c == [crawl EXCEPT !.at = at, !.todo = todo]
                    IN  /\ c.at = at /\ c.todo = todo /\ c.page = crawl.page
                        /\ c.kind = crawl.kind
BY DEF ShapeOK

LEMMA TodoStep ==
  ASSUME ShapeOK, CallOK, TodoOK, CrawlStep
  PROVE  CallOK' /\ TodoOK' /\ cancelled' = cancelled
<1>0. /\ DOMAIN crawl = {"kind", "at", "todo", "page", "more", "err"}
      /\ SessionOK(session) /\ crawl.page \in Nat \ {0} /\ Main \in Procs
      /\ crawl.kind \in SiteKinds =>
           /\ crawl.todo \in Seq(Urls)
           /\ crawl.at \in {"page", "resolution"} => crawl.todo # <<>>
           /\ crawl.kind = "fatwa" /\ crawl.at = "loop" => crawl.todo # <<>>
  BY DEF ShapeOK, TodoOK, SiteKinds, Procs
<1>1. /\ \A s \in Seq(Urls) : s # <<>> => Head(s) \in Urls /\ Tail(s) \in Seq(Urls)
      /\ CallOK /\ UNCHANGED call => CallOK'
      /\ call' = HangUp(Main) => CallOK'
      /\ \A u \in Urls : call' = Dial(Main, u) => CallOK'
  BY <1>0, CallMoves
<1>2. ASSUME NEW err, NEW s, Return(err, s), SessionOK(s)
      PROVE  CallOK' /\ TodoOK'
  <2>1. /\ crawl'.at = "returned" /\ crawl'.todo = crawl.todo /\ crawl'.kind = crawl.kind
        /\ crawl'.page = crawl.page /\ session' = CompleteState(s) /\ UNCHANGED call
    BY <1>2, CrawlFields DEF Return
  <2>2. SessionOK(session')
    BY <1>2, <2>1, SessionTyped
  <2> QED
    BY <1>0, <1>1, <2>1, <2>2, TodoMoves DEF CrawlStages
<1>3. CASE BNMCrawl \/ SCCrawl
  <2>0. /\ crawl.kind \in {"bnm", "sc"} /\ crawl.at = "loop" /\ UNCHANGED cancelled
        /\ \/ Return(cancelled /\ crawl.todo # <<>>, session)
           \/ /\ crawl.todo # <<>> /\ UNCHANGED session
              /\ \/ crawl' = [crawl EXCEPT !.todo = Tail(@)] /\ UNCHANGED call
                 \/ /\ call' = Dial(Main, Head(crawl.todo))
                    /\ crawl' = [crawl EXCEPT !.at = "page"]
    BY <1>3 DEF BNMCrawl, SCCrawl, NextTarget
  <2>1. CASE Return(cancelled /\ crawl.todo # <<>>, session)
    BY <1>0, <1>2, <2>0, <2>1
  <2>2. CASE /\ crawl.todo # <<>> /\ UNCHANGED session
             /\ crawl' = [crawl EXCEPT !.todo = Tail(@)] /\ UNCHANGED call
    <3>1. /\ crawl'.at = "loop" /\ crawl'.todo = Tail(crawl.todo)
          /\ crawl'.page = crawl.page /\ crawl'.kind = crawl.kind
      BY <1>0, <2>0, <2>2
    <3> QED
      BY <1>0, <1>1, <2>0, <2>2, <3>1, TodoMoves DEF CrawlStages, SiteKinds
  <2>3. CASE /\ crawl.todo # <<>> /\ UNCHANGED session
             /\ call' = Dial(Main, Head(crawl.todo))
             /\ crawl' = [crawl EXCEPT !.at = "page"]
    <3>1. /\ crawl'.at = "page" /\ crawl'.todo = crawl.todo
          /\ crawl'.page = crawl.page /\ crawl'.kind = crawl.kind
      BY <2>3, CrawlFields
    <3> QED
      BY <1>0, <1>1, <2>0, <2>3, <3>1, TodoMoves DEF CrawlStages, SiteKinds
  <2> QED
    BY <2>0, <2>1, <2>2, <2>3
<1>4. CASE BNMCrawlPage \/ SCCrawlPage
  <2>1. /\ crawl.kind \in {"bnm", "sc"} /\ crawl.at = "page" /\ UNCHANGED cancelled
        /\ crawl' = [crawl EXCEPT !.at = "loop", !.todo = Tail(@)]
        /\ call' = HangUp(Main)
        /\ \/ session' = IncrementSuccess(MarkProcessed(session, Head(crawl.todo)))
           \/ session' = IncrementError(session)
    BY <1>4 DEF BNMCrawlPage, SCCrawlPage, PageCrawled, PageFailed
  <2>2. crawl.todo # <<>> /\ Head(crawl.todo) \in Urls /\ Tail(crawl.todo) \in Seq(Urls)
    BY <1>0, <1>1, <2>1 DEF SiteKinds
  <2>3. SessionOK(session')
    BY <1>0, <2>1, <2>2, SessionTyped
  <2>4. /\ crawl'.at = "loop" /\ crawl'.todo = Tail(crawl.todo)
        /\ crawl'.page = crawl.page /\ crawl'.kind = crawl.kind
    BY <1>0, <2>1
  <2> QED
    BY <1>0, <1>1, <2>1, <2>2, <2>3, <2>4, TodoMoves DEF CrawlStages
<1>5. CASE FatwaCrawl
  <2>1. /\ crawl.kind = "fatwa" /\ crawl.at = "loop" /\ UNCHANGED <<session, cancelled>>
        /\ call' = Dial(Main, Head(crawl.todo))
        /\ crawl' = [crawl EXCEPT !.at = "page"]
    BY <1>5 DEF FatwaCrawl
  <2>2. crawl.todo # <<>> /\ Head(crawl.todo) \in Urls /\ crawl.todo \in Seq(Urls)
    BY <1>0, <1>1, <2>1 DEF SiteKinds
  <2>3. /\ crawl'.at = "page" /\ crawl'.todo = crawl.todo
        /\ crawl'.page = crawl.page /\ crawl'.kind = crawl.kind
    BY <2>1, CrawlFields
  <2> QED
    BY <1>0, <1>1, <2>1, <2>2, <2>3, TodoMoves DEF CrawlStages
<1>6. CASE FatwaCrawlPage
  <2>1. /\ crawl.kind = "fatwa" /\ crawl.at = "page" /\ UNCHANGED cancelled
        /\ call' = HangUp(Main)
        /\ \/ crawl' = [crawl EXCEPT !.at = "returned"]
           \/ crawl' = [crawl EXCEPT !.at = "returned", !.err = TRUE]
        /\ \/ session' = CompleteState(IncrementSuccess(
                           MarkProcessed(session, Head(crawl.todo))))
           \/ session' = CompleteState(IncrementError(session))
    BY <1>6 DEF FatwaCrawlPage
  <2>2. Head(crawl.todo) \in Urls /\ crawl.todo \in Seq(Urls)
    BY <1>0, <1>1, <2>1 DEF SiteKinds
  <2>3. SessionOK(session')
    BY <1>0, <2>1, <2>2, SessionTyped
  <2>4. /\ crawl'.at = "returned" /\ crawl'.todo = crawl.todo
        /\ crawl'.page = crawl.page /\ crawl'.kind = crawl.kind
    BY <1>0, <2>1
  <2> QED
    BY <1>0, <1>1, <2>1, <2>2, <2>3, <2>4, TodoMoves DEF CrawlStages
<1>7. CASE IIFAListing
  <2>1. crawl.kind = "iifa" /\ crawl.at = "loop" /\ UNCHANGED cancelled
    BY <1>7 DEF IIFAListing
  <2>2. CASE cancelled \/ crawl.page > MaxListings
    BY <1>0, <1>2, <1>7, <2>1, <2>2 DEF IIFAListing
  <2>3. CASE ~(cancelled \/ crawl.page > MaxListings)
    <3>1. /\ call' = Dial(Main, ListingPages[crawl.page]) /\ UNCHANGED session
          /\ crawl' = [crawl EXCEPT !.at = "listing"]
      BY <1>7, <2>3 DEF IIFAListing
    <3>2. crawl.page \in 1 .. MaxListings
      BY <1>0, <2>3, UrlsAre
    <3>3. ListingPages[crawl.page] \in Urls
      BY <3>2, UrlsAre
    <3>4. /\ crawl'.at = "listing" /\ crawl'.todo = crawl.todo
          /\ crawl'.page = crawl.page /\ crawl'.kind = crawl.kind
      BY <3>1, CrawlFields
    <3> QED
      BY <1>0, <1>1, <2>1, <3>1, <3>3, <3>4, TodoMoves DEF CrawlStages, SiteKinds
  <2> QED
    BY <2>1, <2>2, <2>3
<1>8. CASE IIFAExtractLinks
  <2>1. /\ crawl.kind = "iifa" /\ crawl.at = "listing" /\ UNCHANGED cancelled
        /\ call' = HangUp(Main)
    BY <1>8, Zenon DEF IIFAExtractLinks
  <2>2. /\ \/ session' = CompleteState(session) \/ session' = session
           \/ session' = CompleteState(IncrementError(session))
        /\ \/ crawl' = [crawl EXCEPT !.at = "returned"]
           \/ \E links \in Listings, more \in BOOLEAN :
                crawl' = [crawl EXCEPT !.at = "links", !.todo = links, !.more = more]
    BY <1>8, Zenon DEF IIFAExtractLinks, ExtractResolutionLinks
  <2>3. SessionOK(session')
    <3>1. SessionOK(CompleteState(session)) /\ SessionOK(IncrementError(session))
      BY <1>0, SessionTyped
    <3>2. SessionOK(CompleteState(IncrementError(session)))
      BY <3>1, SessionTyped
    <3> QED
      BY <1>0, <2>2, <3>1, <3>2
  <2>4. crawl.todo \in Seq(Urls)
    BY <1>0, <2>1 DEF SiteKinds
  <2>5. CASE crawl' = [crawl EXCEPT !.at = "returned"]
    <3>1. /\ crawl'.at = "returned" /\ crawl'.todo = crawl.todo
          /\ crawl'.page = crawl.page /\ crawl'.kind = crawl.kind
      BY <2>5, CrawlFields
    <3> QED
      BY <1>0, <1>1, <2>1, <2>3, <2>4, <3>1, TodoMoves DEF CrawlStages
  <2>6. ASSUME NEW links \in Listings, NEW more,
               crawl' = [crawl EXCEPT !.at = "links", !.todo = links, !.more = more]
        PROVE  CallOK' /\ TodoOK'
    <3>1. /\ crawl'.at = "links" /\ crawl'.todo = links
          /\ crawl'.page = crawl.page /\ crawl'.kind = crawl.kind
      BY <1>0, <2>6
    <3>2. links \in Seq(Urls)
      BY UrlsAre
    <3> QED
      BY <1>0, <1>1, <2>1, <2>3, <3>1, <3>2, TodoMoves DEF CrawlStages
  <2> QED
    BY <2>1, <2>2, <2>5, <2>6
<1>9. CASE IIFANextLink
  <2>1. /\ crawl.kind = "iifa" /\ crawl.at = "links" /\ UNCHANGED cancelled
        /\ \/ Return(FALSE, session) \/ Return(TRUE, session)
           \/ /\ UNCHANGED <<session, call>>
              /\ crawl' = [crawl EXCEPT !.at = "loop", !.page = @ + 1]
           \/ /\ UNCHANGED <<session, call>> /\ crawl.todo # <<>>
              /\ crawl' = [crawl EXCEPT !.todo = Tail(@)]
           \/ /\ UNCHANGED session /\ crawl.todo # <<>>
              /\ call' = Dial(Main, Head(crawl.todo))
              /\ crawl' = [crawl EXCEPT !.at = "resolution"]
    BY <1>9, Zenon DEF IIFANextLink
  <2>2. crawl.todo \in Seq(Urls)
    BY <1>0, <2>1 DEF SiteKinds
  <2>3. CASE Return(FALSE, session) \/ Return(TRUE, session)
    BY <1>0, <1>2, <2>1, <2>3
  <2>4. CASE /\ UNCHANGED <<session, call>>
             /\ crawl' = [crawl EXCEPT !.at = "loop", !.page = @ + 1]
    <3>1. /\ crawl'.at = "loop" /\ crawl'.todo = crawl.todo
          /\ crawl'.page = crawl.page + 1 /\ crawl'.kind = crawl.kind
      BY <1>0, <2>4
    <3> QED
      BY <1>0, <1>1, <2>1, <2>2, <2>4, <3>1, TodoMoves DEF CrawlStages
  <2>5. CASE /\ UNCHANGED <<session, call>> /\ crawl.todo # <<>>
             /\ crawl' = [crawl EXCEPT !.todo = Tail(@)]
    <3>1. /\ crawl'.at = "links" /\ crawl'.todo = Tail(crawl.todo)
          /\ crawl'.page = crawl.page /\ crawl'.kind = crawl.kind
      BY <1>0, <2>1, <2>5
    <3> QED
      BY <1>0, <1>1, <2>1, <2>2, <2>5, <3>1, TodoMoves DEF CrawlStages
  <2>6. CASE /\ UNCHANGED session /\ crawl.todo # <<>>
             /\ call' = Dial(Main, Head(crawl.todo))
             /\ crawl' = [crawl EXCEPT !.at = "resolution"]
    <3>1. /\ crawl'.at = "resolution" /\ crawl'.todo = crawl.todo
          /\ crawl'.page = crawl.page /\ crawl'.kind = crawl.kind
      BY <2>6, CrawlFields
    <3> QED
      BY <1>0, <1>1, <2>1, <2>2, <2>6, <3>1, TodoMoves DEF CrawlStages
  <2> QED
    BY <2>1, <2>3, <2>4, <2>5, <2>6
<1>10. CASE IIFAResolution
  <2>1. /\ crawl.kind = "iifa" /\ crawl.at = "resolution" /\ UNCHANGED cancelled
        /\ crawl' = [crawl EXCEPT !.at = "links", !.todo = Tail(@)]
        /\ call' = HangUp(Main)
        /\ \/ session' = IncrementSuccess(MarkProcessed(session, Head(crawl.todo)))
           \/ session' = IncrementError(session)
    BY <1>10 DEF IIFAResolution
  <2>2. crawl.todo # <<>> /\ Head(crawl.todo) \in Urls /\ Tail(crawl.todo) \in Seq(Urls)
    BY <1>0, <1>1, <2>1 DEF SiteKinds
  <2>3. SessionOK(session')
    BY <1>0, <2>1, <2>2, SessionTyped
  <2>4. /\ crawl'.at = "links" /\ crawl'.todo = Tail(crawl.todo)
        /\ crawl'.page = crawl.page /\ crawl'.kind = crawl.kind
    BY <1>0, <2>1
  <2> QED
    BY <1>0, <1>1, <2>1, <2>2, <2>3, <2>4, TodoMoves DEF CrawlStages
<1>11. CASE PolicyLoad
  <2>1. /\ crawl.kind = "policy" /\ UNCHANGED cancelled
        /\ \/ Return(TRUE, session)
           \/ crawl' = [crawl EXCEPT !.at = "table"] /\ UNCHANGED <<session, call>>
    BY <1>11 DEF PolicyLoad
  <2>2. CASE crawl' = [crawl EXCEPT !.at = "table"] /\ UNCHANGED <<session, call>>
    <3>1. /\ crawl'.at = "table" /\ crawl'.page = crawl.page /\ crawl'.kind = "policy"
      BY <2>1, <2>2, CrawlFields
    <3> QED
      BY <1>0, <1>1, <2>1, <2>2, <3>1, TodoMoves DEF CrawlStages, SiteKinds
  <2> QED
    BY <1>0, <1>2, <2>1, <2>2
<1>12. CASE PolicyTable
  <2>1. crawl.kind = "policy" /\ UNCHANGED <<session, call, cancelled>>
    BY <1>12 DEF PolicyTable
  <2>2. /\ crawl'.kind = "policy" /\ crawl'.at \in CrawlStages
        /\ crawl'.page \in Nat \ {0}
    <3>1. CASE crawl' = [crawl EXCEPT !.at = "tabled"]
      BY <1>0, <2>1, <3>1 DEF CrawlStages
    <3>2. ASSUME NEW links, NEW at \in {"table", "tabled"},
                 crawl' = [crawl EXCEPT !.todo = @ \o links, !.page = @ + 1, !.at = at]
          PROVE  /\ crawl'.kind = "policy" /\ crawl'.at \in CrawlStages
                 /\ crawl'.page \in Nat \ {0}
      BY <1>0, <2>1, <3>2 DEF CrawlStages
    <3> QED
      BY <1>12, <3>1, <3>2 DEF PolicyTable
  <2> QED
    BY <1>0, <1>1, <2>1, <2>2, TodoMoves DEF SiteKinds
<1>13. CASE PolicyReturn \/ ScriptFails
  <2>1. (Return(FALSE, session) \/ Return(TRUE, session)) /\ UNCHANGED cancelled
    BY <1>13, Zenon DEF PolicyReturn, ScriptFails
  <2> QED
    BY <1>0, <1>2, <2>1
<1>14. CASE BNMScript \/ SCScript \/ IIFAScript
  <2>1. Return(FALSE, session) /\ UNCHANGED cancelled
    BY <1>14, Zenon DEF BNMScript, SCScript, IIFAScript, ScriptEnds
  <2> QED
    BY <1>0, <1>2, <2>1
<1> QED
  BY <1>3, <1>4, <1>5, <1>6, <1>7, <1>8, <1>9, <1>10, <1>11, <1>12, <1>13, <1>14
     DEF CrawlStep

-----------------------------------------------------------------------------
(* Types: the documents *)

\* Every index has a rank of its own, so there is one for each number.
LEMMA NthIndex ==
  ASSUME NEW S, NEW s \in Seq(S), NEW I \in SUBSET (DOMAIN s),
         NEW k \in 1 .. Cardinality(I)
  PROVE  Nth(I, k) \in I
<1> DEFINE B(i) == {j \in I : j <= i}
           c == Cardinality(I)
           f == [i \in I |-> Cardinality(B(i))]
<1>1. Len(s) \in Nat /\ DOMAIN s = 1 .. Len(s)
  OBVIOUS
<1>2. IsFiniteSet(I) /\ c \in Nat /\ I \subseteq Nat
  <2>1. IsFiniteSet(1 .. Len(s)) /\ I \subseteq 1 .. Len(s)
    BY <1>1, FS_Interval
  <2> QED
    BY <2>1, FS_Subset, FS_CardinalityType
<1>3. ASSUME NEW i \in I PROVE Cardinality(B(i)) \in 1 .. c
  <2>1. B(i) \in SUBSET I /\ i \in B(i)
    BY <1>2
  <2>2. IsFiniteSet(B(i)) /\ Cardinality(B(i)) <= c /\ Cardinality(B(i)) \in Nat
    BY <1>2, <2>1, FS_Subset, FS_CardinalityType
  <2>3. Cardinality(B(i)) # 0
    BY <2>1, <2>2, FS_EmptySet
  <2> QED
    BY <1>2, <2>2, <2>3
<1>4. ASSUME NEW i \in I, NEW j \in I, i < j
      PROVE  Cardinality(B(i)) # Cardinality(B(j))
  <2>1. B(i) \in SUBSET B(j) /\ B(j) \in SUBSET I /\ j \in B(j) /\ j \notin B(i)
    BY <1>2, <1>4
  <2>2. IsFiniteSet(B(j))
    BY <1>2, <2>1, FS_Subset
  <2> HIDE DEF B
  <2> QED
    BY <2>1, <2>2, FS_Subset
<1>5. f \in Injection(I, 1 .. c)
  <2>1. f \in [I -> 1 .. c]
    BY <1>3
  <2>2. ASSUME NEW i \in I, NEW j \in I, f[i] = f[j] PROVE i = j
    <3>1. Cardinality(B(i)) = Cardinality(B(j))
      BY <2>2
    <3>2. i \in Nat /\ j \in Nat
      BY <1>2
    <3> HIDE DEF B
    <3> QED
      BY <1>4, <3>1, <3>2
  <2> HIDE DEF f
  <2> QED
    BY <2>1, <2>2 DEF Injection, IsInjective
<1>6. IsFiniteSet(1 .. c) /\ Cardinality(1 .. c) = c
  BY <1>2, FS_Interval
<1>7. \E i \in I : f[i] = k
  <2> HIDE DEF f
  <2>1. f \in Surjection(I, 1 .. c)
    BY <1>2, <1>5, <1>6, FS_Injection
  <2> QED
    BY <2>1 DEF Surjection
<1>8. \E i \in I : Cardinality({j \in I : j <= i}) = k
  BY <1>7
<1> QED
  BY <1>8 DEF Nth

LEMMA SetSequence ==
  ASSUME NEW F, IsFiniteSet(F)
  PROVE  Cardinality(F) \in Nat /\ SetToSeq(F) \in [1 .. Cardinality(F) -> F]
<1>1. Cardinality(F) \in Nat /\ ExistsBijection(1 .. Cardinality(F), F)
  BY FS_CardinalityType
<1>2. \E f \in [1 .. Cardinality(F) -> F] : IsInjective(f)
  BY <1>1 DEF ExistsBijection, Bijection, Injection
<1> QED
  BY <1>1, <1>2 DEF SetToSeq

\* SetToSeq has the files found, and no others.
LEMMA ScanIsFiles ==
  ASSUME NEW files \in ScanForPDFs
  PROVE  /\ \E n \in Nat : files \in [1 .. n -> LocalFiles]
         /\ \A i \in DOMAIN files : files[i] \in LocalFiles
<1>1. PICK F \in SUBSET LocalFiles : files = SetToSeq(F)
  BY DEF ScanForPDFs
<1>2. IsFiniteSet(F)
  BY CrawlerAssumption, FS_Subset
<1>3. Cardinality(F) \in Nat /\ SetToSeq(F) \in [1 .. Cardinality(F) -> F]
  BY <1>2, SetSequence
<1> QED
  BY <1>1, <1>3

LEMMA EntriesIn ==
  ASSUME NEW S, NEW s \in Seq(S), NEW I \in SUBSET (DOMAIN s)
  PROVE  \A k \in DOMAIN Entries(s, I) : Entries(s, I)[k] \in S
<1> SUFFICES ASSUME NEW k \in DOMAIN Entries(s, I) PROVE Entries(s, I)[k] \in S
  OBVIOUS
<1>1. k \in 1 .. Cardinality(I) /\ Entries(s, I)[k] = s[Nth(I, k)]
  BY DEF Entries
<1>2. Nth(I, k) \in I
  BY <1>1, NthIndex
<1> QED
  BY <1>1, <1>2

\* Lists of documents with the links of pages, or one link each.
LEMMA OfLinksLists ==
  /\ \A s, d : ListsDocuments(s) /\ OfLinks(s) /\ d.pdfs \in Seq(FileLinks)
       => OfLinks(Append(s, d))
  /\ \A pdfs \in PageLinks : pdfs \in Seq(FileLinks)
  /\ \A l \in FileLinks : <<l>> \in Seq(FileLinks)
<1>1. ASSUME NEW s, NEW d, ListsDocuments(s), OfLinks(s), d.pdfs \in Seq(FileLinks)
      PROVE  OfLinks(Append(s, d))
  <2>1. /\ Len(s) \in Nat /\ DOMAIN s = 1 .. Len(s)
        /\ DOMAIN Append(s, d) = 1 .. Len(s) + 1
        /\ \A i \in 1 .. Len(s) : Append(s, d)[i] = s[i]
        /\ Append(s, d)[Len(s) + 1] = d
    BY <1>1, IsSeqAppend DEF ListsDocuments
  <2>2. \A i \in 1 .. Len(s) + 1 : i \in 1 .. Len(s) \/ i = Len(s) + 1
    BY <2>1
  <2> QED
    BY <1>1, <2>1, <2>2 DEF OfLinks
<1>2. Seq(Links) \subseteq Seq(FileLinks)
  <2>1. Links \subseteq FileLinks
    BY DEF FileLinks
  <2> QED
    BY <2>1, SeqMonotonic
<1>3. \A pdfs \in PageLinks : pdfs \in Seq(FileLinks)
  BY <1>2, UrlsAre
<1> QED
  BY <1>1, <1>3

LEMMA OfLinksSingles ==
  ASSUME NEW D, NEW s, NEW n, DOMAIN s = n, \A i \in n : D[i] \in FileLinks,
         \A i \in n : \E u : s[i] = Document(u, <<D[i]>>, FALSE)
  PROVE  OfLinks(s)
<1> SUFFICES ASSUME NEW i \in n PROVE s[i].pdfs \in Seq(FileLinks)
  BY DEF OfLinks
<1>1. s[i].pdfs = <<D[i]>>
  BY DEF Document
<1> QED
  BY <1>1, OfLinksLists

\* The documents of a script: the files downloaded, then the other links.
LEMMA OfLinksScript ==
  ASSUME NEW files \in ScanForPDFs, NEW links \in Seq(Links)
  PROVE  OfLinks(ScriptDocuments(files, links))
<1> DEFINE names == {Base[f] : f \in Range(files)}
           I == {i \in DOMAIN links : Base[links[i]] \notin names}
           rest == Entries(links, I)
           A == [i \in DOMAIN files |-> Document(ListingPages[1], <<files[i]>>, FALSE)]
           B == [i \in DOMAIN rest |-> Document(rest[i], <<rest[i]>>, FALSE)]
<1>1. PICK n \in Nat : DOMAIN files = 1 .. n
  BY ScanIsSequence
<1>2. \A i \in 1 .. n : files[i] \in FileLinks
  BY <1>1, ScanIsFiles DEF FileLinks
<1>3. I \in SUBSET (DOMAIN links)
  OBVIOUS
<1>4. PICK m \in Nat : DOMAIN rest = 1 .. m
  <2> HIDE DEF I
  <2> QED
    BY <1>3, EntriesMany
<1>5. \A i \in 1 .. m : rest[i] \in FileLinks
  <2> HIDE DEF I
  <2> QED
    BY <1>3, <1>4, EntriesIn DEF FileLinks
<1> HIDE DEF rest
<1>6. DOMAIN A = 1 .. n /\ \A i \in 1 .. n : A[i] = Document(ListingPages[1], <<files[i]>>, FALSE)
  BY <1>1
<1>7. DOMAIN B = 1 .. m /\ \A i \in 1 .. m : B[i] = Document(rest[i], <<rest[i]>>, FALSE)
  BY <1>4
<1>8. ScriptDocuments(files, links) = A \o B
  BY DEF ScriptDocuments, rest
<1> HIDE DEF A, B
<1>9. OfLinks(A) /\ OfLinks(B)
  BY <1>2, <1>5, <1>6, <1>7, OfLinksSingles
<1>10. PICK X : X = {A[i] : i \in 1 .. n} \cup {B[i] : i \in 1 .. m}
  OBVIOUS
<1>11. A \in Seq(X) /\ B \in Seq(X) /\ Len(A) = n /\ Len(B) = m
  <2>1. A \in [1 .. n -> X] /\ B \in [1 .. m -> X]
    <3>1. A = [i \in 1 .. n |-> A[i]] /\ B = [i \in 1 .. m |-> B[i]]
      BY <1>1, <1>4 DEF A, B
    <3> QED
      BY <1>10, <3>1
  <2> QED
    BY <2>1
<1>12. ASSUME NEW i \in DOMAIN (A \o B) PROVE (A \o B)[i].pdfs \in Seq(FileLinks)
  <2>1. \/ i \in 1 .. n /\ (A \o B)[i] = A[i]
        \/ i - n \in 1 .. m /\ (A \o B)[i] = B[i - n]
    BY <1>11, <1>12
  <2> QED
    BY <1>6, <1>7, <1>9, <2>1 DEF OfLinks
<1> QED
  BY <1>8, <1>12 DEF OfLinks

LEMMA OfLinksStep ==
  ASSUME ShapeOK, DocsInv, OfLinks(docs), CrawlStep PROVE OfLinks(docs')
<1>1. ASSUME NEW u, NEW pdfs \in PageLinks, NEW text,
             docs' = Append(docs, Document(u, pdfs, text))
      PROVE  OfLinks(docs')
  <2>1. Document(u, pdfs, text).pdfs = pdfs
    BY DEF Document
  <2> QED
    BY <1>1, <2>1, OfLinksLists DEF DocsInv
<1>2. CASE \/ BNMCrawl \/ SCCrawl \/ FatwaCrawl \/ IIFAListing \/ IIFAExtractLinks
           \/ IIFANextLink \/ PolicyLoad \/ PolicyTable \/ ScriptFails
  <2>1. UNCHANGED docs
    BY <1>2, Zenon DEF BNMCrawl, SCCrawl, NextTarget, FatwaCrawl, IIFAListing,
       IIFAExtractLinks, IIFANextLink, PolicyLoad, PolicyTable, ScriptFails
  <2> QED
    BY <2>1
<1>3. CASE BNMCrawlPage \/ SCCrawlPage
  <2>1. PageCrawled(PageLinks) \/ UNCHANGED docs
    BY <1>3 DEF BNMCrawlPage, SCCrawlPage, ExtractPDFLinks, ExtractSCDocumentLinks,
                PageFailed
  <2>2. CASE PageCrawled(PageLinks)
    <3>1. PICK pdfs \in PageLinks, text \in BOOLEAN :
             docs' = Append(docs, Document(Head(crawl.todo), pdfs, text))
      BY <2>2 DEF PageCrawled
    <3> QED
      BY <1>1, <3>1
  <2> QED
    BY <2>1, <2>2
<1>4. CASE FatwaCrawlPage
  <2>1. ASSUME NEW pdfs \in PageLinks, docs' = <<Document(Head(crawl.todo), pdfs, TRUE)>>
        PROVE  OfLinks(docs')
    <3>1. PICK d : d = Document(Head(crawl.todo), pdfs, TRUE) /\ docs' = <<d>>
      BY <2>1
    <3>2. d.pdfs = pdfs /\ DOMAIN docs' = {1} /\ docs'[1] = d
      BY <3>1 DEF Document
    <3> QED
      BY <3>2, OfLinksLists DEF OfLinks
  <2> QED
    BY <1>4, <2>1 DEF FatwaCrawlPage, ExtractPDFLinks
<1>5. CASE IIFAResolution
  <2>1. UNCHANGED docs \/ \E pdfs \in PageLinks :
                docs' = Append(docs, Document(Head(crawl.todo), pdfs, TRUE))
    BY <1>5 DEF IIFAResolution, ExtractPDFLinks
  <2> QED
    BY <1>1, <2>1
<1>6. CASE PolicyReturn
  <2>1. /\ crawl.todo \in Seq(Links)
        /\ docs' = [i \in DOMAIN Deduplicate(crawl.todo) |->
                     Document(ListingPages[1], <<Deduplicate(crawl.todo)[i]>>, FALSE)]
    BY <1>6 DEF PolicyReturn, DocsInv
  <2>2. PICK D : D = Deduplicate(crawl.todo)
    OBVIOUS
  <2>3. PICK I : I \in SUBSET (DOMAIN crawl.todo) /\ D = Entries(crawl.todo, I)
    BY <2>2 DEF Deduplicate
  <2>4. \A i \in DOMAIN D : D[i] \in FileLinks
    BY <2>1, <2>3, EntriesIn DEF FileLinks
  <2>5. DOMAIN docs' = DOMAIN D
        /\ \A i \in DOMAIN D : docs'[i] = Document(ListingPages[1], <<D[i]>>, FALSE)
    BY <2>1, <2>2
  <2> QED
    BY <2>4, <2>5, OfLinksSingles
<1>7. CASE BNMScript \/ SCScript \/ IIFAScript
  <2>1. \E files \in ScanForPDFs, links \in ReadLinksFile \cup ReadTwoLinksFiles :
              docs' = ScriptDocuments(files, links)
    BY <1>7, Zenon DEF BNMScript, SCScript, IIFAScript, ScriptEnds
  <2>2. PICK files \in ScanForPDFs, links \in Seq(Links) :
           docs' = ScriptDocuments(files, links)
    BY <2>1, LinksFiles
  <2> QED
    BY <2>2, OfLinksScript
<1> QED
  BY <1>2, <1>3, <1>4, <1>5, <1>6, <1>7 DEF CrawlStep

LEMMA OfLinksTail ==
  ASSUME NEW s, ListsDocuments(s), OfLinks(s), s # <<>>
  PROVE  /\ OfLinks(Tail(s)) /\ DOMAIN Head(s) = DocumentFields
         /\ Head(s).pdfs \in Seq(FileLinks)
<1>1. /\ DOMAIN Tail(s) = 1 .. Len(s) - 1 /\ DOMAIN s = 1 .. Len(s) /\ Len(s) \in Nat
      /\ \A i \in 1 .. Len(s) - 1 : Tail(s)[i] = s[i + 1]
      /\ Head(s) = s[1] /\ 1 \in DOMAIN s
  BY IsSeqTail DEF ListsDocuments
<1>2. \A i \in 1 .. Len(s) - 1 : i + 1 \in DOMAIN s
  BY <1>1
<1>3. IsDocument(s[1])
  BY <1>1 DEF ListsDocuments
<1> QED
  BY <1>1, <1>2, <1>3 DEF OfLinks, IsDocument

-----------------------------------------------------------------------------
(* Types: the commands *)

LEMMA TodoBegin ==
  ASSUME NEW kind, NEW source, NEW pages \in Seq(Urls), StartCrawl(kind, source, pages),
         kind = "fatwa" => pages # <<>>
  PROVE  TodoOK' /\ OfLinks(docs')
<1>1. /\ crawl'.kind = kind /\ crawl'.at = "loop" /\ crawl'.todo = pages
      /\ crawl'.page = 1 /\ docs' = <<>> /\ session' = InitState(source)
  BY DEF StartCrawl
<1>2. SessionOK(session')
  BY <1>1 DEF InitState, NoSession, SessionOK, SessionFields
<1> QED
  BY <1>1, <1>2 DEF TodoOK, OfLinks, CrawlStages

LEMMA QueueKeeps ==
  ASSUME QueueOK, UNCHANGED <<cmd, queue, current>>,
         pc' \in {"docs", "links", "job"} => pc \in {"docs", "links", "job"},
         pc' \in {"links", "job"} => pc \in {"links", "job"},
         pc' # "start" => pc # "start" \/ Handler(cmd) # "fatwa"
  PROVE  QueueOK'
BY DEF QueueOK

LEMMA StageKeeps ==
  ASSUME StageOK, UNCHANGED <<cmd, job, put>>, result' \in Outcomes,
         cancelled' \in {cancelled, TRUE}
  PROVE  StageOK'
BY DEF StageOK

\* A job moves to one of its stages.
LEMMA StageMoves ==
  ASSUME StageOK, ShapeOK, UNCHANGED <<cmd, put, cancelled>>, result' \in Outcomes,
         NEW p \in Procs, job'[p].at \in JobStages,
         \A q \in Procs \ {p} : job'[q] = job[q]
  PROVE  StageOK'
BY DEF StageOK

LEMMA TypeFrame ==
  ASSUME TypeInv, UNCHANGED <<crawl, session, docs>>, CallOK', QueueOK', StageOK'
  PROVE  TypeInv'
BY DEF TypeInv, TodoOK, OfLinks, SessionOK

LEMMA TypeJob ==
  ASSUME ShapeOK, TypeInv, JobShape, StatShape, NEW p \in Procs, JobStep(p)
  PROVE  TypeInv'
<1>0. CallOK /\ QueueOK /\ StageOK /\ result \in Outcomes
  BY DEF TypeInv, StageOK
<1>1. /\ UNCHANGED <<cmd, pc, queue, current, result, crawl, docs>>
      /\ \A q \in Procs \ {p} : job'[q] = job[q]
  BY JobEffect
<1>2. UNCHANGED <<session, cancelled, put>> /\ (UNCHANGED call \/ call' = HangUp(p))
  BY DEF JobStep, ProcessPDFFromURL, ProcessPDFFromURLWithSource, IngestURLDownloaded,
         AfterDownload, OpenPDF, ProcessPage, ChunkDocument, Embedded, EmbedRetry,
         EmbedGivesUp, SaveResults, JobUnchanged, crawlVars, batchVars
<1>3. job'[p].at \in JobStages
  <2>1. job[p].at \in JobStages /\ DOMAIN job[p] = JobFields /\ DOMAIN job = Procs
    BY <1>0 DEF StageOK, JobShape, ShapeOK
  <2>2. \/ \E at \in JobStages : job' = [job EXCEPT ![p].at = at]
        \/ \E n : job' = [job EXCEPT ![p].at = "pages", ![p].total = n]
        \/ \E n : job' = [job EXCEPT ![p].pages = Append(@, n)]
        \/ job' = [job EXCEPT ![p].attempt = @ + 1]
    <3>1. CASE ProcessPDFFromURL(p) \/ ProcessPDFFromURLWithSource(p)
               \/ IngestURLDownloaded(p) \/ SaveResults(p)
      BY <3>1 DEF ProcessPDFFromURL, ProcessPDFFromURLWithSource, IngestURLDownloaded,
                  SaveResults, Fail, JobStages
    <3>2. CASE OpenPDF(p) \/ ProcessPage(p)
      BY <3>2 DEF OpenPDF, ProcessPage, Fail, JobStages
    <3>3. CASE Embedded(p) \/ EmbedGivesUp(p)
      <4>1. AfterEmbedding(p) \in JobStages
        BY DEF AfterEmbedding, JobStages
      <4> QED
        BY <3>3, <4>1 DEF Embedded, EmbedGivesUp
    <3>4. CASE ChunkDocument(p)
      <4>1. (IF cmd.embed THEN "embed"
             ELSE IF job[p].how \in {"ingestFile", "ingestURL"}
                  THEN "save" ELSE "done") \in JobStages
        BY DEF JobStages
      <4> QED
        BY <3>4, <4>1 DEF ChunkDocument
    <3>5. CASE EmbedRetry(p)
      BY <3>5 DEF EmbedRetry
    <3> QED
      BY <3>1, <3>2, <3>3, <3>4, <3>5 DEF JobStep
  <2>3. ASSUME NEW at \in JobStages, job' = [job EXCEPT ![p].at = at]
        PROVE  job'[p].at \in JobStages
    BY <2>1, <2>3 DEF JobFields
  <2>4. ASSUME NEW n, job' = [job EXCEPT ![p].at = "pages", ![p].total = n]
        PROVE  job'[p].at \in JobStages
    BY <2>1, <2>4 DEF JobFields, JobStages
  <2>5. ASSUME NEW n, job' = [job EXCEPT ![p].pages = Append(@, n)]
        PROVE  job'[p].at \in JobStages
    BY <2>1, <2>5 DEF JobFields
  <2>6. ASSUME job' = [job EXCEPT ![p].attempt = @ + 1]
        PROVE  job'[p].at \in JobStages
    BY <2>1, <2>6 DEF JobFields
  <2> QED
    BY <2>2, <2>3, <2>4, <2>5, <2>6
<1>4. CallOK'
  BY <1>0, <1>2, CallMoves
<1>5. QueueOK'
  BY <1>0, <1>1, QueueKeeps
<1>6. StageOK'
  BY <1>0, <1>1, <1>2, <1>3, StageMoves
<1> QED
  BY <1>1, <1>2, <1>4, <1>5, <1>6, TypeFrame

\* A link of a batch is a link or a local file.
LEMMA BatchLinks ==
  ASSUME PhaseInv, BatchInv, batch # NoBatch
  PROVE  /\ PutInv /\ StoreInv /\ Range(batch.links) \subseteq FileLinks
         /\ FileLinks \subseteq Urls
<1>1. batch \in Batches
  BY DEF PhaseInv
<1>2. batch.links \in Seq(FileLinks)
  BY <1>1, StoreBatchAssumption DEF FileLinks
<1>3. Range(batch.links) \subseteq FileLinks
  BY <1>2 DEF Range
<1> QED
  BY <1>3, UrlsAre DEF BatchInv

LEMMA TypeBatch ==
  ASSUME ShapeOK, PhaseInv, BatchInv, TypeInv, UNCHANGED ingestVars,
         NEW w \in Workers, BatchGoroutine(w)
  PROVE  TypeInv'
<1>0. /\ CallOK /\ TodoOK /\ QueueOK /\ StageOK /\ OfLinks(docs) /\ w \in Procs
      /\ result \in Outcomes
  BY DEF TypeInv, Procs, StageOK
<1>1. /\ batch # NoBatch /\ UNCHANGED <<crawl, docs>> /\ StoreLink(w)
      /\ PutInv /\ Range(batch.links) \subseteq FileLinks /\ FileLinks \subseteq Urls
  BY BatchGoroutineShape, BatchLinks
<1>2. PICK at \in PutStages : Move(w, at)
  <2>1. CASE TakeBatchSlot(w)
    <3>1. PICK at : at \in {"read", "token"} /\ Move(w, at)
      BY <2>1 DEF TakeBatchSlot
    <3> QED
      BY <3>1 DEF PutStages
  <2>2. \/ Move(w, "finished") \/ Move(w, "fetch") \/ Move(w, "upload")
        \/ Move(w, "report") \/ TakeBatchSlot(w)
    BY <1>1 DEF StoreLink, FirstToken, DownloadAndStore, UploadLocal, Upload, Report
  <2>3. {"finished", "fetch", "upload", "report"} \subseteq PutStages
    BY DEF PutStages
  <2> QED
    BY <2>1, <2>2, <2>3
<1>7. /\ UNCHANGED cancelled
      /\ \/ session' = session \/ session' = IncrementError(session)
         \/ session' = IncrementSuccess(session)
      /\ \/ UNCHANGED call \/ call' = HangUp(w)
         \/ put[w].at = "token" /\ call' = Dial(w, put[w].link)
  BY <1>1 DEF StoreLink, TakeBatchSlot, FirstToken, DownloadAndStore, UploadLocal,
              Upload, Report, BatchError, BatchSuccess, crawlVars
<1>3. CallOK'
  <2>1. put[w].at = "token" => put[w].link \in Urls
    BY <1>1 DEF PutInv
  <2> QED
    BY <1>0, <1>7, <2>1, CallMoves
<1>4. TodoOK'
  <2>1. SessionOK(session')
    BY <1>0, <1>7, SessionTyped DEF TodoOK
  <2> QED
    BY <1>0, <1>1, <2>1 DEF TodoOK
<1>5. QueueOK'
  BY <1>0, QueueKeeps DEF ingestVars
<1>6. StageOK'
  <2>1. \A v \in Workers : put'[v].at \in PutStages
    <3>1. DOMAIN put = Workers /\ DOMAIN put[w] = {"at", "link"}
      BY <1>1 DEF PutInv
    <3>2. put' = [put EXCEPT ![w].at = at]
      BY <1>2 DEF Move
    <3>3. put'[w].at = at /\ \A v \in Workers \ {w} : put'[v] = put[v]
      BY <3>1, <3>2
    <3> QED
      BY <1>0, <1>2, <3>3 DEF StageOK
  <2> QED
    BY <1>0, <1>7, <2>1 DEF StageOK, ingestVars
<1> QED
  BY <1>0, <1>1, <1>3, <1>4, <1>5, <1>6 DEF TypeInv, OfLinks

LEMMA TypeGoes ==
  ASSUME TypeInv, UNCHANGED <<crawl, session, docs, cancelled, cmd, put>>, CallOK',
         QueueOK', result' \in Outcomes, \A p \in Procs : job'[p].at \in JobStages
  PROVE  TypeInv'
<1>1. StageOK'
  BY DEF TypeInv, StageOK
<1> QED
  BY <1>1, TypeFrame

\* A driver gives a goroutine a job, or takes one back.
LEMMA JobGiven ==
  ASSUME ShapeOK, StageOK,
         \/ UNCHANGED job
         \/ \E p : job' = [job EXCEPT ![p] = NoJob]
         \/ \E p, at, l, how : /\ at \in JobStages
                               /\ job' = [job EXCEPT ![p] = NewJob(at, l, how)]
  PROVE  \A q \in Procs : job'[q].at \in JobStages
<1>1. DOMAIN job = Procs /\ \A q \in Procs : job[q].at \in JobStages
  BY DEF ShapeOK, StageOK
<1>2. ASSUME NEW p, NEW j, j.at \in JobStages, job' = [job EXCEPT ![p] = j]
      PROVE  \A q \in Procs : job'[q].at \in JobStages
  BY <1>1, <1>2
<1>3. NoJob.at \in JobStages
  BY DEF NoJob, JobStages
<1>4. \A at, l, how : NewJob(at, l, how).at = at
  BY DEF NewJob, NoJob
<1> QED
  BY <1>1, <1>2, <1>3, <1>4

LEMMA TypeGoroutine ==
  ASSUME IngestInv, StatsInv, TypeInv, NEW p \in Procs, Goroutine(p)
  PROVE  TypeInv'
<1>0. /\ ShapeOK /\ PhaseInv /\ BatchInv /\ JobShape /\ StatShape
      /\ CallOK /\ QueueOK /\ StageOK /\ result \in Outcomes /\ Main \in Procs
  BY DEF IngestInv, StatsInv, TypeInv, StageOK, Procs
<1>1. ASSUME NEW q \in Procs, Exchange(q), UNCHANGED <<batchVars, ingestVars>>
      PROVE  TypeInv'
  <2>1. UNCHANGED <<crawl, session, docs, cancelled, cmd, put, job, result, pc,
                    queue, current>>
    BY <1>1 DEF Exchange, WaitForToken, Answer, Backoff, ingestVars, batchVars
  <2>2. CallOK'
    BY <1>0, <1>1, CallExchange
  <2>3. QueueOK'
    BY <1>0, <2>1, QueueKeeps
  <2>4. StageOK'
    BY <1>0, <2>1, StageKeeps
  <2> QED
    BY <2>1, <2>2, <2>3, <2>4, TypeFrame
<1>2. CASE /\ \/ BNMFetchWithRetry(p)
              \/ p = Main /\ (SCFetchWithRetry \/ IIFAFetchWithRetry \/ FatwaFetchWithRetry)
           /\ UNCHANGED <<batchVars, ingestVars>>
  <2>1. Exchange(p)
    BY <1>2 DEF BNMFetchWithRetry, SCFetchWithRetry, IIFAFetchWithRetry, FatwaFetchWithRetry
  <2> QED
    BY <1>1, <1>2, <2>1
<1>3. CASE JobStep(p)
  BY <1>0, <1>3, TypeJob
<1>4. CASE TakeSlot(p) \/ FileDone(p)
  <2>1. /\ UNCHANGED <<crawl, session, docs, call, cancelled, cmd, put, result, pc,
                       queue, current>>
        /\ \A q \in Procs \ {p} : job'[q] = job[q]
    BY <1>0, <1>4 DEF TakeSlot, FileDone, JobUnchanged, crawlVars, batchVars, ShapeOK
  <2>2. job'[p].at \in JobStages
    <3>1. CASE TakeSlot(p)
      <4>1. DOMAIN job[p] = JobFields /\ DOMAIN job = Procs
        BY <1>0 DEF JobShape, ShapeOK
      <4> QED
        BY <3>1, <4>1 DEF TakeSlot, JobFields, JobStages
    <3>2. CASE FileDone(p)
      BY <1>0, <3>2 DEF FileDone, NoJob, JobStages, ShapeOK
    <3> QED
      BY <1>4, <3>1, <3>2
  <2>3. CallOK'
    BY <1>0, <2>1, CallMoves
  <2>4. QueueOK'
    BY <1>0, <2>1, QueueKeeps
  <2>5. StageOK'
    BY <1>0, <2>1, <2>2, StageMoves
  <2> QED
    BY <2>1, <2>3, <2>4, <2>5, TypeFrame
<1>5. CASE p \in Workers /\ BatchGoroutine(p) /\ UNCHANGED ingestVars
  BY <1>0, <1>5, TypeBatch
<1> QED
  BY <1>2, <1>3, <1>4, <1>5 DEF Goroutine

-----------------------------------------------------------------------------
(* Types: the driver *)

LEMMA TypeStart ==
  ASSUME ShapeOK, TypeInv,
         \/ StartNothing \/ IngestBNM \/ IngestPolicy \/ IngestSC \/ IngestIIFA
         \/ IngestDirectory \/ IngestAAOIFI \/ IngestFile \/ IngestURL
         \/ IngestFatwa
  PROVE  TypeInv'
<1>0. /\ CallOK /\ StageOK /\ result \in Outcomes /\ Main \in Procs
      /\ UNCHANGED <<cmd, put>>
  BY DEF TypeInv, StageOK, Procs, StartNothing, IngestBNM, IngestPolicy, IngestSC,
         IngestIIFA, StartCrawling, IngestDirectory, IngestAAOIFI, StartDirectory,
         IngestFile, IngestURL, IngestFatwa, Starts, Fixed, batchVars
<1>1. UNCHANGED call => CallOK'
  BY <1>0, CallMoves
<1>2. UNCHANGED job => \A q \in Procs : job'[q].at \in JobStages
  BY <1>0, JobGiven
<1>3. CASE StartNothing
  <2>1. /\ UNCHANGED <<crawl, session, docs, call, cancelled, job>>
        /\ result' \in Outcomes /\ pc' = "ended" /\ Handler(cmd) = "nothing"
    BY <1>3 DEF StartNothing, Starts, End, crawlVars, Outcomes
  <2>2. QueueOK'
    BY <1>0, <2>1 DEF QueueOK
  <2> QED
    BY <1>0, <1>1, <1>2, <2>1, <2>2, TypeGoes
<1>4. CASE IngestBNM \/ IngestPolicy \/ IngestSC \/ IngestIIFA
  <2>1. PICK kind, source, pages : /\ StartCrawl(kind, source, pages)
                                   /\ kind # "fatwa"
                                   /\ pages \in {BnmPages, ScPages, <<>>}
    BY <1>4, Zenon DEF IngestBNM, IngestPolicy, IngestSC, IngestIIFA, StartCrawling,
       StartBNM, StartPolicy, StartSC, StartIIFA, StartScript
  <2>2. /\ UNCHANGED <<job, result>> /\ pc' = "crawl" /\ Handler(cmd) # "fatwa"
    BY <1>4 DEF IngestBNM, IngestPolicy, IngestSC, IngestIIFA, StartCrawling, Starts
  <2>3. TodoOK' /\ OfLinks(docs')
    BY <2>1, UrlsAre, TodoBegin
  <2>4. UNCHANGED <<call, cancelled>>
    BY <2>1 DEF StartCrawl
  <2>5. QueueOK'
    BY <1>0, <2>2 DEF QueueOK
  <2>6. StageOK'
    BY <1>0, <2>2, <2>4, StageKeeps
  <2> QED
    BY <1>1, <2>3, <2>4, <2>5, <2>6 DEF TypeInv
<1>5. CASE IngestDirectory \/ IngestAAOIFI
  <2>1. /\ UNCHANGED <<crawl, session, docs, call, cancelled, job>>
        /\ result' \in {result, "error"} /\ pc' \in {"ended", "docs", "spawn"}
        /\ Handler(cmd) \in {"directory", "aaoifi"}
        /\ queue' = [i \in DOMAIN Files |-> Document(Files[i], <<Files[i]>>, FALSE)]
    BY <1>5 DEF IngestDirectory, IngestAAOIFI, StartDirectory, Starts, End, crawlVars
  <2>2. \A i \in DOMAIN Files : Files[i] \in FileLinks
    BY IngestAssumption DEF FileLinks
  <2>3. OfLinks(queue')
    <3>1. DOMAIN queue' = DOMAIN Files
          /\ \A i \in DOMAIN Files : queue'[i] = Document(Files[i], <<Files[i]>>, FALSE)
      BY <2>1
    <3> QED
      BY <2>2, <3>1, OfLinksSingles
  <2>4. QueueOK' /\ result' \in Outcomes
    BY <1>0, <2>1, <2>3 DEF QueueOK, Outcomes
  <2> QED
    BY <1>0, <1>1, <1>2, <2>1, <2>4, TypeGoes
<1>6. CASE IngestFile
  <2>1. /\ UNCHANGED <<crawl, session, docs, call, cancelled, result>> /\ pc' = "single"
        /\ Handler(cmd) \in {"file", "process"}
        /\ job' = [job EXCEPT ![Main] = NewJob("open", Files[1], "ingestFile")]
    BY <1>6 DEF IngestFile, Starts, crawlVars
  <2>2. QueueOK'
    BY <1>0, <2>1 DEF QueueOK
  <2>3. \A q \in Procs : job'[q].at \in JobStages
    <3>1. "open" \in JobStages
      BY DEF JobStages
    <3> QED
      BY <1>0, <2>1, <3>1, JobGiven
  <2> QED
    BY <1>0, <1>1, <2>1, <2>2, <2>3, TypeGoes
<1>7. CASE IngestURL
  <2>1. PICK u \in Links :
          /\ job' = [job EXCEPT ![Main] = NewJob("fetch", u, "ingestURL")]
          /\ call' = Dial(Main, u)
    BY <1>7 DEF IngestURL
  <2>2. /\ UNCHANGED <<crawl, session, docs, cancelled, result>> /\ pc' = "single"
        /\ Handler(cmd) = "url"
    BY <1>7 DEF IngestURL, Starts
  <2>3. QueueOK'
    BY <1>0, <2>2 DEF QueueOK
  <2>4. \A q \in Procs : job'[q].at \in JobStages
    <3>1. "fetch" \in JobStages
      BY DEF JobStages
    <3> QED
      BY <1>0, <2>1, <3>1, JobGiven
  <2>5. CallOK'
    <3>1. u \in Urls
      BY DEF Urls
    <3> QED
      BY <1>0, <2>1, <3>1, CallMoves
  <2> QED
    BY <1>0, <2>2, <2>3, <2>4, <2>5, TypeGoes
<1>8. CASE IngestFatwa
  <2>1. /\ UNCHANGED <<crawl, session, docs, call, cancelled, job>>
        /\ result' \in {result, "error"} /\ pc' \in {"ended", "portals"}
        /\ Handler(cmd) = "fatwa" /\ queue' = SetToSeq(Portals)
    BY <1>8 DEF IngestFatwa, Starts, End, crawlVars, GetStatesToProcess
  <2>2. queue' \in Seq(Portals)
    <3>1. IsFiniteSet(Portals)
      BY CrawlerAssumption
    <3>2. /\ Cardinality(Portals) \in Nat
          /\ SetToSeq(Portals) \in [1 .. Cardinality(Portals) -> Portals]
      BY <3>1, SetSequence
    <3> QED
      BY <2>1, <3>2
  <2>3. QueueOK' /\ result' \in Outcomes
    BY <1>0, <2>1, <2>2 DEF QueueOK, Looped, Crawlable, Outcomes
  <2> QED
    BY <1>0, <1>1, <1>2, <2>1, <2>3, TypeGoes
<1> QED
  BY <1>3, <1>4, <1>5, <1>6, <1>7, <1>8

\* The loop over the documents of a source.
LEMMA TypeLoop ==
  ASSUME ShapeOK, StatsInv, TypeInv, NEW h, DocumentLoop(h)
  PROVE  TypeInv'
<1>0. /\ CallOK /\ QueueOK /\ StageOK /\ result \in Outcomes /\ Main \in Procs
      /\ PlaceInv /\ LoopInv
      /\ UNCHANGED <<crawl, session, docs, cancelled, cmd, put>>
  BY DEF TypeInv, StageOK, StatsInv, Procs, DocumentLoop, NextDocument, NextLink,
         LinkDone, DocumentDone, Fixed, batchVars, crawlVars
<1>1. UNCHANGED call => CallOK'
  BY <1>0, CallMoves
<1>2. UNCHANGED job => \A q \in Procs : job'[q].at \in JobStages
  BY <1>0, JobGiven
<1>3. CASE NextDocument
  <2>1. /\ UNCHANGED <<call, job>> /\ pc = "docs" /\ Handler(cmd) \in Looped
        /\ result' \in {result, "error"}
    BY <1>0, <1>3 DEF NextDocument, PrintStats, End, PlaceInv, crawlVars
  <2>2. Handler(cmd) # "fatwa"
    BY <2>1 DEF Looped, Crawlable
  <2>3. QueueOK'
    <3>1. CASE pc' \in {"printed", "ended"}
      BY <1>0, <2>2, <3>1 DEF QueueOK
    <3>2. CASE queue # <<>> /\ current' = Head(queue) /\ queue' = Tail(queue)
      <4>1. ListsDocuments(queue) /\ OfLinks(queue)
        BY <1>0, <2>1 DEF LoopInv, QueueOK
      <4>2. /\ OfLinks(queue') /\ DOMAIN current' = DocumentFields
            /\ current'.pdfs \in Seq(FileLinks)
        BY <3>2, <4>1, OfLinksTail
      <4> QED
        BY <1>0, <2>2, <4>2 DEF QueueOK
    <3> QED
      BY <1>3, <3>1, <3>2 DEF NextDocument, PrintStats, End
  <2>4. result' \in Outcomes
    BY <1>0, <2>1 DEF Outcomes
  <2> QED
    BY <1>0, <1>1, <1>2, <2>1, <2>3, <2>4, TypeGoes
<1>4. CASE NextLink
  <2>1. /\ pc = "links" /\ pc' = "job" /\ current.pdfs # <<>> /\ UNCHANGED <<queue, result>>
        /\ current' = [current EXCEPT !.pdfs = Tail(@)]
        /\ \/ UNCHANGED call \/ call' = Dial(Main, Head(current.pdfs))
    BY <1>4 DEF NextLink
  <2>2. \E at \in {"open", "fetch"} : \E l, how :
           job' = [job EXCEPT ![Main] = NewJob(at, l, how)]
    BY <1>4 DEF NextLink
  <2>3. DOMAIN current = DocumentFields /\ current.pdfs \in Seq(FileLinks)
    BY <1>0, <2>1 DEF QueueOK
  <2>4. Head(current.pdfs) \in FileLinks /\ Tail(current.pdfs) \in Seq(FileLinks)
    BY <2>1, <2>3
  <2>5. CallOK'
    <3>1. Head(current.pdfs) \in Urls
      BY <2>4, UrlsAre
    <3> QED
      BY <1>0, <2>1, <3>1, CallMoves
  <2>6. QueueOK'
    <3>1. DOMAIN current' = DocumentFields /\ current'.pdfs = Tail(current.pdfs)
      BY <2>1, <2>3 DEF DocumentFields
    <3> QED
      BY <1>0, <2>1, <2>4, <3>1 DEF QueueOK
  <2>7. \A q \in Procs : job'[q].at \in JobStages
    <3>1. {"open", "fetch"} \subseteq JobStages
      BY DEF JobStages
    <3> QED
      BY <1>0, <2>2, <3>1, JobGiven
  <2> QED
    BY <1>0, <2>1, <2>5, <2>6, <2>7, TypeGoes
<1>5. CASE LinkDone
  <2>1. /\ pc = "job" /\ pc' = "links" /\ UNCHANGED <<call, queue, current, result>>
        /\ job' = [job EXCEPT ![Main] = NoJob]
    BY <1>5 DEF LinkDone, crawlVars
  <2>2. QueueOK'
    BY <1>0, <2>1, QueueKeeps
  <2>3. \A q \in Procs : job'[q].at \in JobStages
    BY <1>0, <2>1, JobGiven
  <2> QED
    BY <1>0, <1>1, <2>1, <2>2, <2>3, TypeGoes
<1>6. CASE DocumentDone
  <2>1. /\ pc = "links" /\ pc' \in {"portals", "docs"}
        /\ UNCHANGED <<call, queue, job, result>>
    BY <1>6 DEF DocumentDone, crawlVars
  <2>2. QueueOK'
    BY <1>0, <2>1 DEF QueueOK
  <2> QED
    BY <1>0, <1>1, <1>2, <2>1, <2>2, TypeGoes
<1> QED
  BY <1>3, <1>4, <1>5, <1>6 DEF DocumentLoop

LEMMA TypeFatwa ==
  ASSUME ShapeOK, DocsInv, StatsInv, TypeInv, NextPortal \/ FatwaCrawled
  PROVE  TypeInv'
<1>0. /\ CallOK /\ QueueOK /\ StageOK /\ result \in Outcomes /\ PlaceInv /\ OfLinks(docs)
      /\ UNCHANGED <<cmd, put, job>> /\ pc \in {"portals", "portal"} /\ Handler(cmd) = "fatwa"
      /\ queue \in Seq(Portals) /\ Main \in Procs
  BY DEF TypeInv, StageOK, StatsInv, PlaceInv, NextPortal, FatwaCrawled, Fixed, batchVars,
         QueueOK, Procs
<1>1. UNCHANGED call => CallOK'
  BY <1>0, CallMoves
<1>2. \A q \in Procs : job'[q].at \in JobStages
  BY <1>0, JobGiven
<1>3. CASE NextPortal
  <2>1. /\ UNCHANGED queue \/ (queue # <<>> /\ queue' = Tail(queue))
        /\ pc' \in {"portals", "portal", "printed", "ended"}
        /\ result' \in {result, "error"}
    BY <1>3 DEF NextPortal, PrintStats, End
  <2>2. QueueOK' /\ result' \in Outcomes
    <3>1. queue' \in Seq(Portals)
      BY <1>0, <2>1
    <3> QED
      BY <1>0, <2>1, <3>1 DEF QueueOK, Looped, Crawlable, Outcomes
  <2>3. CASE UNCHANGED crawlVars
    BY <1>0, <1>1, <1>2, <2>2, <2>3, TypeGoes DEF crawlVars
  <2>4. CASE queue # <<>> /\ StartFatwa(Head(queue))
    <3>1. /\ StartCrawl("fatwa", "fatwa", <<Head(queue)>>)
          /\ <<Head(queue)>> \in Seq(Urls) /\ <<Head(queue)>> # <<>>
      <4>1. Head(queue) \in Urls
        BY <1>0, <2>4, UrlsAre
      <4> QED
        BY <2>4, <4>1 DEF StartFatwa
    <3>2. TodoOK' /\ OfLinks(docs')
      BY <3>1, TodoBegin
    <3>3. UNCHANGED <<call, cancelled>>
      BY <3>1 DEF StartCrawl
    <3>4. StageOK'
      BY <1>0, <2>2, <3>3, StageKeeps
    <3> QED
      BY <1>1, <2>2, <3>2, <3>3, <3>4 DEF TypeInv
  <2> QED
    BY <1>3, <2>3, <2>4 DEF NextPortal
<1>4. CASE FatwaCrawled
  <2>1. /\ pc = "portal" /\ crawl.at = "returned" /\ UNCHANGED <<crawlVars, queue, result>>
        /\ \/ pc' = "portals" /\ UNCHANGED current
           \/ pc' = "links" /\ ~crawl.err /\ current' = docs[1]
    BY <1>4 DEF FatwaCrawled, Fixed
  <2>2. QueueOK'
    <3>1. CASE pc' = "portals"
      BY <1>0, <2>1, <3>1 DEF QueueOK, Looped, Crawlable
    <3>2. CASE pc' = "links" /\ ~crawl.err /\ current' = docs[1]
      <4>1. Len(docs) = 1 /\ ListsDocuments(docs)
        BY <1>0, <2>1, <3>2 DEF DocsInv, PlaceInv
      <4>2. 1 \in DOMAIN docs
        BY <4>1 DEF ListsDocuments, IsSeq
      <4>3. DOMAIN docs[1] = DocumentFields /\ docs[1].pdfs \in Seq(FileLinks)
        BY <1>0, <4>1, <4>2 DEF ListsDocuments, IsDocument, OfLinks
      <4> QED
        BY <1>0, <2>1, <3>2, <4>3 DEF QueueOK, Looped, Crawlable
    <3> QED
      BY <2>1, <3>1, <3>2
  <2> QED
    BY <1>0, <1>1, <1>2, <2>1, <2>2, TypeGoes DEF crawlVars
<1> QED
  BY <1>3, <1>4

LEMMA TypeDrive ==
  ASSUME IngestInv, DocsInv, StatsInv, TypeInv, Drive
  PROVE  TypeInv'
<1>0. /\ ShapeOK /\ CallOK /\ TodoOK /\ QueueOK /\ StageOK /\ result \in Outcomes
      /\ PlaceInv /\ OfLinks(docs) /\ Main \in Procs
  BY DEF IngestInv, TypeInv, StageOK, StatsInv, Procs
<1>1. UNCHANGED call => CallOK'
  BY <1>0, CallMoves
<1>2. UNCHANGED job => \A q \in Procs : job'[q].at \in JobStages
  BY <1>0, JobGiven
<1>3. ASSUME NEW h, DocumentLoop(h) PROVE TypeInv'
  BY <1>0, <1>3, TypeLoop
<1>4. CASE CrawlStep /\ UNCHANGED <<batchVars, ingestVars>>
  <2>1. CallOK' /\ TodoOK' /\ cancelled' = cancelled
    BY <1>0, <1>4, TodoStep
  <2>2. OfLinks(docs')
    BY <1>0, <1>4, OfLinksStep
  <2>3. QueueOK'
    BY <1>0, <1>4, QueueKeeps DEF ingestVars
  <2>4. StageOK'
    BY <1>0, <1>4, <2>1, StageKeeps DEF ingestVars, batchVars
  <2> QED
    BY <2>1, <2>2, <2>3, <2>4 DEF TypeInv
<1>5. CASE Crawled
  <2>1. /\ pc = "crawl" /\ UNCHANGED <<crawl, session, docs, call, cancelled, cmd, put, job>>
        /\ \/ pc' = "ended" /\ result' \in {"error", "ok"}
           \/ pc' = "docs" /\ queue' = docs /\ UNCHANGED result
    BY <1>5 DEF Crawled, Fixed, End, crawlVars, batchVars
  <2>2. Handler(cmd) # "fatwa"
    BY <1>0, <2>1 DEF PlaceInv, Crawlable
  <2>3. QueueOK' /\ result' \in Outcomes
    <3>1. CASE pc' = "ended" /\ result' \in {"error", "ok"}
      BY <2>1, <2>2, <3>1 DEF QueueOK, Outcomes
    <3>2. CASE pc' = "docs" /\ queue' = docs /\ UNCHANGED result
      BY <1>0, <2>1, <2>2, <3>2 DEF QueueOK
    <3> QED
      BY <2>1, <3>1, <3>2
  <2> QED
    BY <1>1, <1>2, <2>1, <2>3, TypeGoes
<1>6. CASE SingleDone \/ Wait
  <2>1. /\ pc \in {"single", "wait"} /\ pc' \in {"ended", "printed"}
        /\ UNCHANGED <<crawl, session, docs, call, cancelled, cmd, put, job>>
        /\ result' \in {result, "error"}
    BY <1>6 DEF SingleDone, Wait, PrintStats, End, Fixed, crawlVars, batchVars
  <2>2. Handler(cmd) # "fatwa"
    BY <1>0, <2>1 DEF PlaceInv
  <2>3. QueueOK' /\ result' \in Outcomes
    BY <1>0, <2>1, <2>2 DEF QueueOK, Outcomes
  <2> QED
    BY <1>1, <1>2, <2>1, <2>3, TypeGoes
<1>7. CASE Spawn
  <2>1. /\ pc = "spawn" /\ pc' \in {"spawn", "wait", "ended"}
        /\ UNCHANGED <<crawl, session, docs, call, cancelled, cmd, put>>
        /\ result' \in {result, "error"}
        /\ \/ UNCHANGED job
           \/ \E p, l, how : job' = [job EXCEPT ![p] = NewJob("queued", l, how)]
    BY <1>7 DEF Spawn, End, Fixed, crawlVars, batchVars
  <2>2. Handler(cmd) # "fatwa"
    BY <1>0, <2>1 DEF PlaceInv
  <2>3. QueueOK' /\ result' \in Outcomes
    BY <1>0, <2>1, <2>2 DEF QueueOK, Outcomes
  <2>4. \A q \in Procs : job'[q].at \in JobStages
    <3>1. "queued" \in JobStages
      BY DEF JobStages
    <3> QED
      BY <1>0, <2>1, <3>1, JobGiven
  <2> QED
    BY <1>1, <2>1, <2>3, <2>4, TypeGoes
<1>8. CASE ReturnToShell \/ LibraryReturn
  <2>1. /\ pc \in {"printed", "batch"} /\ pc' = "ended" /\ result' = "ok"
        /\ UNCHANGED <<crawl, session, docs, call, cancelled, cmd, put, job, queue,
                       current>>
    BY <1>8 DEF ReturnToShell, LibraryReturn, End, Fixed, crawlVars, batchVars
  <2>2. QueueOK' /\ result' \in Outcomes
    BY <1>0, <2>1, QueueKeeps DEF Outcomes
  <2> QED
    BY <1>1, <1>2, <2>1, <2>2, TypeGoes
<1>9. CASE LibraryBatch
  <2>1. PICK b \in Batches : StartBatch(b)
    BY <1>9 DEF LibraryBatch
  <2>2. /\ pc = "library" /\ pc' = "batch" /\ UNCHANGED <<cmd, queue, current, job, result>>
        /\ UNCHANGED <<crawl, docs, call, cancelled>>
        /\ session' = CompleteState(InitState(b.site))
        /\ \A w \in Workers : put'[w].at \in {"queued", "none"}
    BY <1>9, <2>1 DEF LibraryBatch, StartBatch, NoPut
  <2>3. SessionOK(session')
    BY <2>2 DEF SessionOK, SessionFields, CompleteState, InitState, NoSession
  <2>4. TodoOK' /\ OfLinks(docs')
    BY <1>0, <2>2, <2>3 DEF TodoOK, OfLinks
  <2>5. QueueOK'
    BY <1>0, <2>2, QueueKeeps
  <2>6. StageOK'
    BY <1>0, <2>2 DEF StageOK, PutStages
  <2> QED
    BY <1>1, <2>2, <2>4, <2>5, <2>6 DEF TypeInv
<1> QED
  BY <1>0, <1>3, <1>4, <1>5, <1>6, <1>7, <1>8, <1>9, TypeStart, TypeFatwa
     DEF Drive, BNMDocuments, PolicyDocuments, DirectoryDocuments, SCDocuments,
         IIFADocuments, FatwaDocuments

LEMMA TypeNext ==
  ASSUME IngestInv, DocsInv, StatsInv, TypeInv, [Next]_vars
  PROVE  TypeInv'
<1>0. /\ CallOK /\ QueueOK /\ StageOK /\ result \in Outcomes /\ Main \in Procs
  BY DEF TypeInv, StageOK, Procs
<1>1. ASSUME UNCHANGED <<crawl, session, docs, call, cmd, queue, current, put, job>>,
             pc' = pc \/ (pc' = "ended" /\ Handler(cmd) # "fatwa"),
             result' \in Outcomes, cancelled' \in {cancelled, TRUE}
      PROVE  TypeInv'
  <2>1. CallOK' /\ StageOK'
    BY <1>0, <1>1, CallMoves, StageKeeps
  <2>2. QueueOK'
    BY <1>0, <1>1, QueueKeeps
  <2> QED
    BY <1>1, <2>1, <2>2, TypeFrame
<1>2. CASE Interrupt \/ Over \/ UNCHANGED vars
  <2>1. /\ UNCHANGED <<crawl, session, docs, call, cmd, queue, current, put, job, pc, result>>
        /\ cancelled' \in {cancelled, TRUE}
    BY <1>2 DEF Interrupt, Over, vars, crawlVars, ingestVars, batchVars
  <2> QED
    BY <1>0, <1>1, <2>1
<1>3. CASE Kill
  <2>1. /\ UNCHANGED <<crawl, session, docs, call, cmd, queue, current, put, job, cancelled>>
        /\ pc' = "ended" /\ Handler(cmd) = "process" /\ result' \in Outcomes
    BY <1>3 DEF Kill, End, Fixed, crawlVars, batchVars, Outcomes
  <2> QED
    BY <1>1, <2>1
<1>4. CASE Drive
  BY <1>4, TypeDrive
<1>5. ASSUME NEW p \in Procs, Goroutine(p) PROVE TypeInv'
  BY <1>5, TypeGoroutine
<1> QED
  BY <1>2, <1>3, <1>4, <1>5 DEF Next

LEMMA TypeInit == Init => TypeInv
<1> SUFFICES ASSUME Init PROVE TypeInv
  OBVIOUS
<1>1. /\ crawl = [kind |-> "none", at |-> "none", todo |-> <<>>, page |-> 1,
                  more |-> FALSE, err |-> FALSE]
      /\ session = NoSession /\ docs = <<>> /\ call = [p \in Procs |-> NoCall]
      /\ cancelled = FALSE /\ put = [w \in Workers |-> NoPut] /\ cmd \in Commands
      /\ pc = "start" \/ (pc = "library" /\ Handler(cmd) = "nothing")
      /\ job = [p \in Procs |-> NoJob] /\ result = "running"
  BY DEF Init, CrawlInit, BatchInit
<1>2. CallOK
  <2>1. NoCall \in CallTypes /\ NoCall.at # "backoff"
    BY CrawlerAssumption DEF NoCall, CallTypes
  <2> QED
    BY <1>1, <2>1 DEF CallOK
<1>3. TodoOK
  BY <1>1 DEF TodoOK, CrawlStages, SessionOK, NoSession, SessionFields
<1>4. OfLinks(docs) /\ QueueOK
  BY <1>1 DEF OfLinks, QueueOK
<1>5. StageOK
  BY <1>1 DEF StageOK, Outcomes, NoJob, NoPut, JobStages, PutStages
<1> QED
  BY <1>2, <1>3, <1>4, <1>5 DEF TypeInv

LEMMA TypesOfInv == IngestInv /\ StatsInv /\ TypeInv => TypeOK
<1> SUFFICES ASSUME IngestInv, StatsInv, TypeInv PROVE TypeOK
  OBVIOUS
<1>0. /\ ShapeOK /\ PhaseInv /\ BatchInv /\ StatShape /\ CallOK /\ TodoOK /\ StageOK
  BY DEF IngestInv, StatsInv, TypeInv
<1>1. CrawlTypeOK
  BY <1>0 DEF CrawlTypeOK, CallOK, TodoOK, StageOK, SessionOK, CrawlStages
<1>2. BatchTypeOK
  <2>1. batch \in Batches \cup {NoBatch}
    BY <1>0 DEF PhaseInv
  <2>2. Range(objects) \subseteq Links \cup LocalFiles
    <3>1. CASE batch = NoBatch
      BY <1>0, <3>1 DEF PhaseInv, Range
    <3>2. CASE batch # NoBatch
      <4>1. StoreInv /\ Range(batch.links) \subseteq FileLinks
        BY <1>0, <3>2, BatchLinks
      <4>2. \A path \in DOMAIN objects : objects[path] \in FileLinks
        BY <4>1 DEF StoreInv
      <4> QED
        BY <4>2 DEF Range, FileLinks
    <3> QED
      BY <3>1, <3>2
  <2> QED
    BY <1>0, <2>1, <2>2 DEF BatchTypeOK, StageOK
<1>3. DOMAIN Stats = StatFields
  BY DEF Stats, StatFields
<1> QED
  BY <1>0, <1>1, <1>2, <1>3 DEF TypeOK, StageOK, ShapeOK, StatShape, Outcomes, JobStages

-----------------------------------------------------------------------------
(* What follows for every behaviour *)

LEMMA SpecInv == Spec => [](IngestInv)
<1>1. Spec => Init /\ [][Next]_vars
  BY DEF Spec
<1>2. IngestInv /\ [Next]_vars => IngestInv'
  BY IngestNext
<1> QED
  BY <1>1, <1>2, IngestInit, PTL

\* The documents of a crawl come from different pages (isProcessed before and
\* markProcessed after the exchange), whatever the listings repeat, whatever
\* fails and whenever the context is cancelled.
THEOREM NoPageTwice == Spec => []PagesOnce
BY SpecInv, PagesOfInv, PTL

\* A crawl of fixed pages that returns without an error has counted each of its
\* targets once, as a document or as an error, and has as many documents as
\* successes.
THEOREM TargetsCounted == Spec => []EveryTargetCounted
BY SpecInv, CountedOfInv, PTL

\* A path that a batch reports holds the file of its link, and a batch of the
\* BNM crawler counts every link unless it is cancelled, in whatever order the
\* goroutines of any number of links download, upload and fail.
THEOREM ReportsAreTrue == Spec => []ReportedIsStored
BY SpecInv, ReportedOfInv, PTL

\* Once the statistics are printed no goroutine changes them: wg.Wait and the
\* loops of the sources leave no job behind.
THEOREM NothingAfterPrint == Spec => PrintedIsFinal
<1>1. Spec => Init /\ [][Next]_vars
  BY DEF Spec
<1>2. IngestInv /\ [Next]_vars => [printed => stats' = stats]_vars
  BY PrintNext DEF IngestInv
<1> QED
  BY <1>1, <1>2, SpecInv, PTL DEF PrintedIsFinal

\* Whatever the crawls find, the downloads and embeddings give and the
\* goroutines do in between, the statistics a command prints account for all
\* that was found: every document processed, every PDF link a download or an
\* error, and no embedding counted without a chunk, except by the functions
\* that count what generateEmbeddings has counted.
THEOREM StatisticsAddUp == Spec => []StatsAddUp
<1>1. Spec => Init /\ [][Next]_vars
  BY DEF Spec
<1>2. (IngestInv /\ DocsInv /\ StatsInv) /\ [Next]_vars =>
        (IngestInv /\ DocsInv /\ StatsInv)'
  BY IngestNext, StatsNext
<1>3. Init => IngestInv /\ DocsInv /\ StatsInv
  BY IngestInit, StatsInit
<1> QED
  BY <1>1, <1>2, <1>3, SumsOfInv, PTL

\* Every part of an ingest keeps its type: the pages a crawl has to do, the links
\* and files of its documents, the one exchange of each goroutine, within its
\* attempts, the stage of every job, what is in object storage, and counters
\* that are never negative.
THEOREM TypesCorrect == Spec => []TypeOK
<1>1. Spec => Init /\ [][Next]_vars
  BY DEF Spec
<1>2. (IngestInv /\ DocsInv /\ StatsInv /\ TypeInv) /\ [Next]_vars =>
        (IngestInv /\ DocsInv /\ StatsInv /\ TypeInv)'
  BY IngestNext, StatsNext, TypeNext
<1>3. Init => IngestInv /\ DocsInv /\ StatsInv /\ TypeInv
  BY IngestInit, StatsInit, TypeInit
<1> QED
  BY <1>1, <1>2, <1>3, TypesOfInv, PTL
===============================================================================
