------------------------------ MODULE StoreBatch ------------------------------
(***************************************************************************)
(* The batches of internal/crawler that put PDFs into object storage:      *)
(* ProcessAndStoreLocalPDFs of the BNM, SC and IIFA crawlers and           *)
(* DownloadAllPolicyDocuments.  One goroutine per link, a semaphore, and   *)
(* paths made of the site and the last path element of the link.           *)
(***************************************************************************)
EXTENDS Crawler

CONSTANTS
    Parallelism,  \* the slots of a semaphore
    Batches       \* the batches run: [site, local, links]

\* site: the crawler; local: whether local files are uploaded from the disk
\* (DownloadAllPolicyDocuments downloads every link).
BatchSites == {"bnm", "sc", "iifa"}

ASSUME StoreBatchAssumption ==
    /\ Workers = 1 .. Cardinality(Workers)
    /\ Parallelism \in Nat \ {0}
    /\ \A b \in Batches :
          /\ b.site \in BatchSites
          /\ b.links \in Seq(Links \cup LocalFiles)
          /\ Len(b.links) <= Cardinality(Workers)

VARIABLES
    batch,    \* the batch in progress
    put,      \* what each goroutine is doing
    objects,  \* object storage: path -> the link whose bytes are there
    stored    \* the goroutines' results, as <<link, path>>

batchVars == <<batch, put, objects, stored>>

NoBatch == [site |-> "none", local |-> FALSE, links |-> <<>>]

NoPut == [at |-> "none", link |-> "none"]
PutStages == {"none", "queued", "token", "fetch", "read", "upload", "report",
              "finished"}
Busy(w) == put[w].at \in {"token", "fetch", "read", "upload", "report"}

StorePath(site, l) == <<site, Base[l]>>

\* Only the BNM crawler counts the results of a batch.
BatchError == session' = IF batch.site = "bnm" THEN IncrementError(session)
                         ELSE session
BatchSuccess == session' = IF batch.site = "bnm" THEN IncrementSuccess(session)
                           ELSE session
Move(w, at) == put' = [put EXCEPT ![w].at = at]

\* The batch follows a crawl of the same crawler.
StartBatch(b) ==
    /\ batch' = b
    /\ put' = [w \in Workers |->
                 IF w \in DOMAIN b.links
                 THEN [at |-> "queued", link |-> b.links[w]] ELSE NoPut]
    /\ session' = CompleteState(InitState(b.site))
    /\ UNCHANGED <<crawl, docs, call, cancelled, objects, stored>>

TakeBatchSlot(w) ==
    /\ put[w].at = "queued"
    /\ Cardinality({v \in Workers : Busy(v)}) < Parallelism
    /\ Move(w, IF batch.local /\ put[w].link \in LocalFiles
               THEN "read" ELSE "token")
    /\ UNCHANGED <<crawlVars, batch, objects, stored>>

\* A download takes a token here and a second one in DownloadPDF.  Cancelled
\* here, the goroutine leaves without counting an error.
FirstToken(w) ==
    /\ put[w].at = "token"
    /\ IF cancelled
       THEN Move(w, "finished") /\ UNCHANGED call
       ELSE Move(w, "fetch") /\ call' = Dial(w, put[w].link)
    /\ UNCHANGED <<crawl, session, docs, cancelled, batch, objects, stored>>

\* DownloadAndStorePDF: the body is uploaded.
DownloadAndStore(w) ==
    /\ put[w].at = "fetch"
    /\ \/ Got(w) /\ Move(w, "upload") /\ UNCHANGED session
       \/ Failed(w) /\ Move(w, "finished") /\ BatchError
    /\ call' = HangUp(w)
    /\ UNCHANGED <<crawl, docs, cancelled, batch, objects, stored>>

\* uploadLocalPDF: the file is read first.
UploadLocal(w) ==
    /\ put[w].at = "read"
    /\ \/ Move(w, "upload") /\ UNCHANGED session
       \/ Move(w, "finished") /\ BatchError
    /\ UNCHANGED <<crawl, docs, call, cancelled, batch, objects, stored>>

\* Mutant: the error of the upload is not looked at.
UploadUnchecked(w) ==
    /\ put[w].at = "upload"
    /\ Move(w, "report")
    /\ LET path == StorePath(batch.site, put[w].link)
       IN  objects' \in {objects, [x \in DOMAIN objects \cup {path} |->
                               IF x = path THEN put[w].link ELSE objects[x]]}
    /\ UNCHANGED <<crawlVars, batch, stored>>

\* UploadBytes replaces whatever the path held.
Upload(w) ==
    /\ put[w].at = "upload"
    /\ LET path == StorePath(batch.site, put[w].link)
       IN  \/ /\ Move(w, "report")
              /\ objects' = [x \in DOMAIN objects \cup {path} |->
                               IF x = path THEN put[w].link ELSE objects[x]]
              /\ UNCHANGED session
           \/ /\ Move(w, "finished")
              /\ BatchError
              /\ UNCHANGED objects
    /\ UNCHANGED <<crawl, docs, call, cancelled, batch, stored>>

Report(w) ==
    /\ put[w].at = "report"
    /\ stored' = Append(stored, <<put[w].link, StorePath(batch.site, put[w].link)>>)
    /\ BatchSuccess
    /\ Move(w, "finished")
    /\ UNCHANGED <<crawl, docs, call, cancelled, batch, objects>>

StoreLink(w) ==
    \/ TakeBatchSlot(w) \/ FirstToken(w) \/ DownloadAndStore(w)
    \/ UploadLocal(w) \/ Upload(w) \/ Report(w)

\* ProcessAndStoreLocalPDFs of each crawler, and DownloadAllPolicyDocuments.
BNMProcessAndStore(w) == batch.site = "bnm" /\ batch.local /\ StoreLink(w)
DownloadAll(w) == batch.site = "bnm" /\ ~batch.local /\ StoreLink(w)
SCProcessAndStore(w) == batch.site = "sc" /\ StoreLink(w)
IIFAProcessAndStore(w) == batch.site = "iifa" /\ StoreLink(w)
BatchGoroutine(w) ==
    \/ BNMProcessAndStore(w) \/ DownloadAll(w)
    \/ SCProcessAndStore(w) \/ IIFAProcessAndStore(w)

\* wg.Wait.
BatchOver == \A w \in Workers : put[w].at \in {"none", "finished"}

BatchInit ==
    /\ batch = NoBatch
    /\ put = [w \in Workers |-> NoPut]
    /\ objects = <<>>
    /\ stored = <<>>

BatchTypeOK ==
    /\ batch \in Batches \cup {NoBatch}
    /\ \A w \in Workers : put[w].at \in PutStages
    /\ Range(objects) \subseteq Links \cup LocalFiles

(***************************************************************************)
(* What a batch reports is in storage: a reported path holds a file of the *)
(* same name and, when no other link of the batch has that name, the very  *)
(* file of its link, whatever the goroutines of the other links did.  A    *)
(* batch of the BNM crawler that is over has counted every link exactly    *)
(* once, its successes are what it reports, and only a cancellation leaves *)
(* a link uncounted.                                                       *)
(***************************************************************************)
ReportedIsStored ==
    /\ \A i \in DOMAIN stored :
          LET link == stored[i][1]
              path == stored[i][2]
          IN  /\ path \in DOMAIN objects
              /\ Base[objects[path]] = Base[link]
              /\ (\A l \in Range(batch.links) : Base[l] = Base[link] => l = link)
                   => objects[path] = link
    /\ batch.site = "bnm" /\ BatchOver =>
          /\ session.successes = Len(stored)
          /\ session.successes + session.errors <= Len(batch.links)
          /\ ~cancelled =>
               session.successes + session.errors = Len(batch.links)
===============================================================================
