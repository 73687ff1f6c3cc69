# A TLA+ model of SyaRA

SyaRA is a question-answering service for Islamic-finance standards: a Go agent
(HTTP API, an LLM loop with tools, retrieval over pgvector), a worker (change
detection, an event pipeline over NATS JetStream, a WebSocket hub) and crawlers,
with a TypeScript front end.  This directory holds TLA+ modules translated from
that code, the TLC configurations that check them on small instances and proofs
that TLAPS checks for every instance.

- [Inventory](#inventory) of the system
- [Modules](#modules-and-how-they-correspond-to-the-code) and the code they model
- [Runs](#runs-and-bounds), [fairness](#fairness), [proofs](#proofs)
- [Disagreements](#disagreements-between-the-code-and-what-it-says)
- [Not modelled](#not-modelled) and [plan](#plan)

Paths are relative to the repository; "a line of `websocket.go`" is a line of
`internal/realtime/websocket.go`.

## Inventory

How the parts meet:

```
 sites --> ChangeDetector --(documents.changed)--> WorkerPool: crawl
                |  hash in Redis                      |(documents.processed)
                                                 WorkerPool: process
                                                      |(documents.indexed)
       WorkerPool: index <----------------------------+--> CacheInvalidator --> Redis
                 (updates.cache.invalidate)           +--> WSHub --> browsers
 browser --> HTTP API (rate limiter) --> Orchestrator --> ConversationMemory (map, Redis, Postgres)
                                              |--> LLM provider, tools --> retriever --> vector store
 crawler command: sites, R scripts, files --> PDFs --> pages --> chunks --> embeddings --> files
                                          --> object store
```

| Component | State it keeps | Operations | What is hard | What makes it correct |
|---|---|---|---|---|
| WebSocket hub (`internal/realtime/websocket.go`) | map of clients under an RWMutex, `register`/`unregister`/`broadcast` channels, per client a bounded `send` channel and topics, gauge | `run`, `Stop`, `HandleWebSocket`, `readPump`, `writePump`, two NATS callbacks | five kinds of goroutine, close of channels that others send on, slow clients, stop during everything | no send on or close of a closed channel; order and no silent loss; dead clients leave; gauge counts the map |
| Conversation memory (`internal/agent/memory.go`, used by `orchestrator.go`, `cmd/agent/main.go`) | map, Redis key with TTL, table `messages` with a foreign key | `GetHistory`, `SaveMessage`, `EnsureConversation`, `Clear`, `ArchiveConversation`, the handler's `DeleteConversation` | three tiers updated one at a time by concurrent requests; each tier may fail; restarts | a history is the latest part of what was said, in order, without duplicates; what is answered is saved; what is deleted is not served |
| Agentic loop (`orchestrator.go`, `internal/tools/registry.go`, `internal/llm`) | messages of the request, tool calls; the registry's ring of 1000 executions | `HandleChat`, LLM call, tool execution, the formats of two providers, fallback parsing, `Register`/`Unregister` | bounded iterations, failing and unknown tools, ids the fallback makes itself, three timeouts, a registry shared by all requests | every tool call gets one result with its id; every call is reported; the ring keeps the latest; the request ends |
| Change detector (`internal/realtime/detector.go`) | hash per URL in Redis, limiters per host, a monitor per source | `Start`, `Stop`, `monitorSource`, `checkForChanges`, `ForceCheck`, `AddSource` | fetch, compare, publish and store fail one by one; crash between them | no change is lost; events are owed to changes of the hash; one limiter per host |
| Processing pipeline (`internal/realtime/worker.go`, `nats.go`) | JetStream streams and durable consumers; `p.subs`, a wait group | `Start`, `Stop`, a goroutine per worker, three handlers | at-least-once delivery, AckWait, settlement after several publications, Stop during a handler | an acknowledged input has its outputs published; nothing is given up early |
| Cache invalidator (`internal/realtime/cache.go`) | Redis keys by family | `InvalidateOnUpdate`, `InvalidateByKeysAndPatterns`, three pub/sub and NATS handlers | several deletions in a row, each may fail; a limit on keys per pattern; reads that race it | what an event names is gone afterwards |
| Cache manager (`internal/storage/cache.go`) | Redis keys with TTLs, a health flag | get/set of embeddings, retrievals, responses | fills that race invalidation; degraded mode | no program constructs it |
| Rate limiter (`internal/api/middleware/ratelimit.go`) | counter per client and window, in memory or Redis | `Increment`, the middleware | INCR and EXPIRE are two calls; window edges; failing Redis; restarts | less than twice the limit in any span of a window; nobody is turned away for ever |
| Graceful shutdown (`pkg/shutdown/shutdown.go`) | list of cleanups, channel of errors | `Register`, `Wait`, `Shutdown` | all cleanups at once, a timeout, a channel closed under late senders, requests still in flight | every cleanup runs; the process ends; errors are logged |
| Embedder (`internal/embedder/embedder.go`) | bounded cache with a list of keys | `Embed`, `EmbedBatch` | bound and eviction order, batches that fail in part | the cache stays within its bound and returns what was stored |
| Hybrid retriever and tools (`internal/rag/retriever.go`, `internal/storage/vector_store.go`, `internal/tools`) | the table of chunks | parameters into retrievals, vector and keyword search, reciprocal rank fusion, cutting to `top_k` | one of two searches fails and nobody hears of it; the table changes between them; ties; scores of different scales | answers keep to the question's source and category; a fused list loses and reorders nothing; nothing better is left out |
| Query processor, context builder (`internal/rag`) | none | classification, token budget, citations | the budget | no program calls them |
| Retrieval evaluation (`internal/rag/evaluation`) | none | precision, recall, MRR, NDCG | edges of k and of empty lists | equal to the definitions |
| Chunker (`internal/chunker/chunker.go`) | none | `Chunk`, `ChunkPages`: sections, paragraphs, sentences, words, then overlap | four nested buffers, a piece too long at each level, an overlap that itself may begin with an overlap | no word of the input is lost, doubled or displaced, nor a mark unless it stands alone |
| Crawlers and ingest (`internal/crawler`, `cmd/crawler`) | a session per crawl, documents found, statistics, objects in storage | crawl of four kinds of site and three R scripts, storage batches, the ingest and process commands | retries, listings that shift while they are read, goroutines counting in shared statistics, an interrupt anywhere | each page once and counted; statistics add up and are final; what is reported is stored; the command ends |
| PDF processor, visual citations, HTTP handlers, object store, configuration, logging | little or none | clients and formatting | I/O | see below |
| Front end (`web/frontend/src`) | socket and topics, chat store | connect, reconnect, subscribe, send | reconnection while connecting, frames that the hub batches, two sends before the first answer | subscriptions survive reconnection; one conversation per chat |

PROJECT.json lists the components with their status, and every hazard with its
line and the properties that are about it.

## Modules and how they correspond to the code

### WSHub (with WSHub_proofs, MCWSHub)

One variable per thing of the code: `clients` is `h.clients`, `bcast` is
`h.broadcast`, `send`, `closed` and `topics` are a client's fields, `gauge` is
`metrics.ConnectionsCurrent`.  A goroutine is a record with a program counter:
`hub` (`run`), `nats` (one callback per subscription), `stop`, and per client
`join` (`HandleWebSocket`), `reader` and `writer`.  The unbuffered `register` and
`unregister` channels are rendezvous: a send and its receive are one step
(`HubTakeRegister`, `HubTakeUnregister`).  A critical section of `h.mu` is one
step, but the two read sections send to one client per step (`HubOffer`,
`NatsOffer`), because a write section must not come between them: `ReadLocked`
guards `HubRegister`, `HubUnregister` and `StopClose`.  A send on a closed
channel and a second close set `panicked`, after which the process does nothing.
The history variables `wire`, `log`, `since` and `dropped` record what the peers
got, what entered the hub's queue, and what was dropped at a full buffer.  A frame
that `writePump` writes carries every message it took from the queue; `wire` is
the messages one after the other, since the front end reads a frame line by line.

Abstracted: a frame is what `handleMessage` tells apart (a subscription change of
one topic, a ping, anything else); an event is a model value with its topics and
subject; the once-a-second window of the rate limit may begin at any frame; the
write deadline, the read deadline and a frame over the size limit are a
connection error.  `BroadcastMessage` has no caller.

### ConversationMemory (with ConversationLog, ConversationMemory_proofs, MCConversationMemory)

`mem`, `redis` and `db` are the three tiers for one conversation, `row` is its
row in `conversations`, which the messages' foreign key needs.  A request
(`Orchestrator.Process`) is a record that walks through `GetHistory`
(`ReadMemory`, `ReadRedis`, `QueryMessages`, `FillRedis`, `FillMemory`), the LLM
call and twice through `SaveMessage` (`AppendMemory`, `InsertMessage`,
`DeleteCached`).  Every access to a tier is a step, since the mutex of the map
is held for single accesses.  `BeginKinds` are the three ways a conversation
comes into being: `POST /conversations`, a chat without an id (for which
`chatServiceAdapter` makes one), and a caller passing the nil id.  Beside the
requests runs one administrative operation, and the Redis key may expire and the
process restart, at any moment or (a redeployment) when it has answered its requests.
Each kind of failure is switched by the constant `Faults`.

`ConversationLog` is what a caller gets: the end of an append-only log.  A process may
keep a copy of that end, of `kept` messages, which grows with each one added; a request
is served the copy, or the latest `Limit` messages where there is none.  A restart and
archiving give the copy up, and the next one may begin with the next message.  `Log` in
ConversationMemory is the refinement mapping: the log is the table in the order of its
timestamps, `kept` is how much of it the map shows.

Abstracted: `time.Now()` is a clock that moves at every use, so timestamps are
distinct; a message is its request, its role and its time.  `GetContextMessages`
and `GetSummary` shorten or format what `GetHistory` returns and are left out.

### ChangeDetector (with ChangeDetector_proofs, MCChangeDetector)

The sources of one host.  A checker is a thread inside `checkForChanges`: a
monitor that `Start` made, or a caller of `ForceCheck`.  Its steps are the calls
it makes: the limiter (`Begin`, `MakeLimiter`: two critical sections),
`WaitForRateLimit`, `Fetch` (an attempt of `fetchWithRetry`), `GetPrevious`,
`Publish`, `StoreHash`.  Each may fail, `MaxFaults` times in all; every call with
a cancelled context fails.  `Normalize` is `normalizeContent` on a page of four
tokens: its text, a dynamic pattern, the dynamic value and a quote; `HashOf` says
which of text and value a hash still depends on.  `stored` is Redis.  `told` and
`lead` are history: the hashes that were announced or fetched by a check that found
none stored, and how far a checker's events are ahead of the changes of the stored
hash of its page.  `lead` stops at -1: changes that nobody had to announce do not
excuse later events, except the one that another checker made meanwhile.

Abstracted: one of the four patterns, back-off and intervals (a monitor may check
at any time), the statistics.  `AddSource` is left out: its monitor runs under the
caller's context, so `Stop` waits for it until its own timeout; it has no caller,
and neither has `ForceCheck`.

### Pipeline (with Pipeline_proofs, MCPipeline)

`stream` is the sequence of published messages with the state each has for the
durable consumer of its subject: waiting, pending, acknowledged, terminated, or
given up after `MaxDeliver` deliveries.  A worker is the goroutine `Start` makes
(`run`: subscribe, append to `p.subs` without a lock, wait) and the callback of
its subscription (`pc`).  A handler's publications, its settlement and the
processing are steps of their own; a publication that fails may still have
reached the stream.  `Stop` cancels the context, drains what it finds in `p.subs`
and waits for the goroutines, not for the callbacks.  `from` of a message is
history: the change it descends from.

JetStream is modelled from its use here: queue groups deliver to one member,
`AckWait` may end while a handler works ("slow"), a settlement of any delivery
settles the message, and settling what is not pending does nothing.  A message
that waits in the client's buffer is taken to wait in the stream.  A pool
without a `DocumentProcessor`, which is what `cmd/worker` starts, acknowledges
every change: as if `ProcessURL` found nothing (`Found`).  Left out: payloads
that do not parse, which no modelled publisher writes, and metrics.

### Crawler, StoreBatch, Ingest (with Ingest_proofs, MCIngest)

One state machine in three layers, from what all crawlers share to the command.

`Crawler` has the crawl in progress (`crawl`: its kind and control point), the
crawler's `CrawlState` (`session`), the documents gathered (`docs`) and the HTTP
exchange of every goroutine (`call`: token, attempt, backoff).  The four crawls
(`StartBNM`, `StartSC`, `StartIIFA`, `StartFatwa`), `CrawlPolicyDocuments` and the
three R scripts are loops over pages that read the context between pages;
`NextTarget`, `PageCrawled` and `PageFailed` are what the loops share, and each
kind has its own action (`BNMCrawlPage`, `IIFANextLink`, ...).  A body is
abstracted to what its reader takes from it: a page's document links, a listing's
resolutions and whether it announces a next page.  Delays are left out: a backoff
may end at any moment.

`StoreBatch` adds the batches that put PDFs into object storage: a goroutine per
link (`put`), a semaphore, the objects by path.  Nothing in the commands calls
them; the run starts them as a library would.

`Ingest` adds `cmd/crawler`: `pc` is where the command is, `queue` and `current`
the loop over documents, `job` the PDF a goroutine works on
(download, open, pages, embed, save), `stats` the shared `IngestionStats`.  `Handler` is the
switch over the flags.  `Interrupt` cancels the context at any moment; the
process command has no signal handler, so `Kill` ends it instead.

Abstracted: a PDF is its number of pages, a page is one chunk (Chunker has the
rest), the chunks of a document are one embedding call with its retries.

### SequenceEntries, LLM, Agent (with Agent_proofs, MCAgent)

`SequenceEntries` has the entries of a sequence at a set of indices, with which `LLM`
and `Crawler` filter.  `LLM` holds the messages: blocks, what the Anthropic and the OpenAI formats make
of them, and the fallback that reads tool calls out of a model's text and numbers
them itself.  `WellFormed` is what both APIs demand: every call is followed by
one result with its id.  `Agent` is the request: `HandleChat`, the retrieval
before the loop, `GetToolDefinitions`, `CallModel`, the reply or failure, the
tools one after the other, the next iteration, the answer.  `clock` says whether
the server's write timeout (15 s) and the router's timeout (30 s) have passed: the
first ends the connection, the second the context.  `ring` is
`Registry.executions`, into which other requests write too, and which
`ClearExecutions`, `Register` and `Unregister` change at any moment.  A model may
say anything in `Replies`; the deadline is the only thing that is sure to end its
call.  History and saving are ConversationMemory's.

Abstracted: the end of a tool and the entry of its execution into the ring
(`registry.go:188`, `:252`) are one step, so the order of the ring is that of the
entries; of tools that run in several requests at once one that ended first may be
entered last.  A block is never empty: the fallback's text without calls may be in the
code (`fallback.go:189`), and `WellFormed` speaks of calls and results only, not of the
providers' demand that a message has content.

### Retrieval, Chunker, Knowledge (with MCKnowledge and Knowledge_proofs)

`Retrieval` is one question: a tool's parameters become a `plan` of retrievals
(one for most tools, one per state for `search_state_fatwa`), each is an embedding
and one or two searches, a fusion or a fallback, and `answer` is what the tool
gives the model.  `compare_standards` has a plan for one source after the other,
as its loop does: a retrieval, or for "fatwa" a probe and then all states; `found`
has a list for each source begun.
A chunk is what the filters look at; a search may return any ranking of the chunks
its filters admit, and the ingest may change the table between any two steps.
`Score` and `Fused` are `reciprocalRankFusion` in exact fractions (its weights 0.7
and 0.3 are 7 and 3, its constant 60); chunks of equal score may come in any order.

Abstracted: a ranking has no chunk twice.  The searches join `chunk_visuals`, which has
no unique key on the chunk (`vector_store.go:379`, `:474`), so a chunk with two visuals
would come twice; nothing in the code inserts a visual.  Standard and resolution numbers
are compared as they are stored: the forms that `search_aaoifi.go:145` and
`search_iifa.go:147` bring into one are one value.

`Chunker` is the chunker as functions of texts.  A text is a sequence of words, parts
of words and marks (the punctuation that ends sentences), each with the gap before it:
none, a space, a blank line, or the line break before what looks like a header.
`SplitByParagraphs`, `SplitBySentences` and `SplitByWords` are folds over the pieces
with the buffer of the code (`Flush`, `Add`), `AddOverlap` gives each chunk the end of
the one before.  `SplitSentences` drops a sentence of marks only and gives its marks to
the next, as the code does; `ChunksCoverDocument` claims the words of every document,
and the marks of one where each follows a word.  The tokenizer is the constant operator
`CountTokens`, of which nothing is assumed: the count of a text need not be the sum of
its pieces', and no limit is claimed.

Abstracted: the overlap is cut between words, parts of words and marks, while the
decoded tokens may begin inside one; its first half is measured in these rather than in
bytes, and so is the question whether a chunk begins with it.  Abbreviations are words
whose periods are not marks.

`Knowledge` puts both ends together: a document is chunked, or a question asked.
What a chunk says does not matter to the retrieval, so a behaviour has either.

### RateLimit, Shutdown, Serving (with Serving_proofs)

`RateLimit` is the middleware for one client and one kind of request over both
stores.  Time passes in ticks of a window; `admitted` (history) has the ages of
the requests that were let through by their count within the last window, and
`losses` those of the restarts that lost the memory store's counter; neither forgets
anything at a restart.  With Redis, `INCR` and `EXPIRE` are two steps, either may
fail, an `INCR` may take effect and lose its reply, for which the client may send it
again, and the key ends by its time to live or never.  `cmd/agent` gives the limiter
the memory store, and `RedisClientWrapper` has neither `Incr` nor `Expire`: what is
said of Redis is what the package promises to a program that uses it.  `Shutdown` is
`pkg/shutdown`: the signal, every cleanup in a goroutine of its own, the wait for
all of them or the timeout, the channel of errors.  `Serving` composes the two:
requests arrive while the HTTP server listens, its cleanup waits for those in
flight, the Redis cleanup takes the limiter's store away (if the two share a client), and a restart begins a
new process over the same Redis.

## Runs and bounds

Passing runs (all with a complete state space):

| Run | Instance | What it shows |
|---|---|---|
| WSHubLifecycle | 2 clients (symmetric), 1 event with a topic, 1 frame per client, queues of 1 | types; registered clients and the targets of a fan-out have open channels (`MembersOpen`); the gauge counts (`GaugeExact`); only a pong can panic (`OnlyPongPanics`) |
| WSHubDelivery | 1 client, 2 broadcasts, a ping, queues of 1, fair | broadcasts arrive in order, none twice (`BroadcastsInOrder`); a miss means a drop at a full buffer (`NoSilentLoss`); a dead client leaves (`DeadClientLeaves`); a blocked callback gets through (`CallbackReturns`) |
| MemoryConcurrent | 2 concurrent requests, `Limit` 2, all faults, all administrative operations | Redis shows rows only (`RedisIsCommitted`); the map holds, once each, only what is saved, being saved or refused (`MemoryIsCommittedOrPending`); questions before replies (`TurnsInOrder`); answered means saved (`AnsweredIsSaved`) |
| MemorySerial | 4 requests one at a time, `Limit` 3, Redis, expiry and LLM faults, restarts between requests, archiving | the tiers implement `ConversationLog`: map, key and table serve the end of one log (`ImplementsLog`) |
| DetectorRecovery | a monitor and a `ForceCheck` caller on one page, of which `normalizeContent` leaves the dynamic value or not, 2 texts and 2 values, 2 faults of any kind but "get" | no change lost (`StoredWasPublished`), each checker's events owed to changes of the hash or to faults (`OneEventPerChange`), one limiter per host; the last version is announced (`CatchesUp`); `Stop` ends (`StopEnds`) |
| PipelineFlow | one worker per stage, the last still subscribing, 1 document, `MaxDeliver` 2, 1 fault of any kind but "publish" | types; what is acknowledged is indexed (`AckedIsIndexed`); nothing is given up early (`GivenUpOnlyAtLimit`); without a fault everything happens once (`OnceWithoutFaults`); the document gets indexed (`EventuallyIndexed`) |
| Ingest | 14 commands over 2 pages or portals, 2 resolutions on 2 overlapping listings, 2 links of which one shares its name with a file, 3 files in 2 slots, 1 retry; 4 storage batches | pages once (`PagesOnce`), each counted (`EveryTargetCounted`); the statistics add up (`StatsAddUp`) and are final when printed (`PrintedIsFinal`); what a batch reports is in storage (`ReportedIsStored`); a command ends, at the latest when interrupted (`CommandEnds`) |
| Agent | 1 request and the executions of others, 4 kinds of provider, 5 kinds of reply, 2 iterations, a ring of 2 | what is sent to a model pairs calls and results (`MessagesWellFormed`); all calls are reported (`CallsReported`); the ring keeps the latest (`RingIsRecent`); the request ends (`RequestEnds`) |
| Knowledge | 22 questions over 3 tables of 3 or 4 chunks, one of which comes and goes; some 5 000 texts of up to 8 words and marks with `MaxTokens` 4, `OverlapTokens` 3 and a count that does not add up, and pairs of pages | answers keep to source and category (`AnswersTheQuestion`); the fusion loses and reorders nothing (`FusionKeepsOrder`); what is left out is no better (`NothingBetterLeftOut`); the chunks cover the document (`ChunksCoverDocument`) |
| Serving | 2 concurrent requests, limit 2 in a window of 2 ticks, both stores, failing INCR and EXPIRE and lost replies, 2 cleanups, 1 restart | less than twice the limit in a window, and once more for a restart that lost the counter (`AtMostTwoWindows`); who is turned away is let in again unless the counter lost its expiry (`TurnedAwayIsLetIn`); the shutdown ends, in good order (`ShutdownIsOrderly`) |

Why the bounds are enough for what they are used for: the conflicts in the hub
are between one client's goroutines and `run`, `Stop` or a callback, and a second
client adds the fan-out that has visited one and not the other; a queue of one is
both full and empty within two messages.  In the memory two requests are enough
for every pair of tier accesses to be interleaved, and `Limit` 2 of four messages
makes the truncation happen.  The third of four requests one at a time, after a
restart, fills the key from the table, its own messages have to delete it, and the
fourth, after another restart, would be given a key that was left.  In the detector a change between two checks, a
change back, a store by the other checker in between and one failure anywhere are
within two texts, two dynamic values and two faults, the second of which uses up the
retries.  In the pipeline a
message that fails once and succeeds at its last delivery needs `MaxDeliver` 2.
Two pages are enough for one that fails before one that does not, two listings for
a resolution on both, three files over two slots for one that waits.  A reply with
two calls of which one is unknown, and two replies with calls, are where calls and
results could be mixed up; with two iterations the second is the last.  A ring of
two is overfull at the third execution.  In the retrieval, tables with one chunk
more than `top_k` make the cut happen.  Eight words are two full chunks, so that
the second chunk's overlap, and a third's that itself begins with one, occur; five
or six over all gaps and marks put a piece that is too long at each level before and
after one that is not, and seven put marks that stand alone between sentences that
are too long together.  A window of two ticks has requests at both of its edges, and with a limit
of two a span has one of an old window and two of a new one; the bound is reached,
with a restart and without.

The runs that switch a fault off do so for a property the fault refutes: GET
failures of the detector (see below), publication failures of the pipeline under
a stop, and in MemorySerial database faults, a DEL that fails and a restart under a
request, each of which leaves a tier with other messages than the table.

`CHECK_DEADLOCK FALSE` is set where the system may stop: an instance ends when
its requests, its events or its clients are used up, or when it is stopped.
Ingest is checked for deadlock: a command that is over stutters (`Over`), and
nothing else may get stuck.  Agent's registry can always be changed, so there
`RequestEnds` says it.

## Fairness

`WSHub!Fairness`: Go runs every goroutine that can run (weak fairness of each),
and `select` picks among its ready cases at random (strong fairness of each case
of `run`).  No peer has to send, connect or leave, and nobody has to stop the hub.
`ChangeDetector!FairSpec`: a ticker ticks for ever and goroutines run; `select`
between the ticker and the context is strongly fair to the exit.
`Pipeline!FairSpec`: goroutines run, JetStream delivers what can be delivered, and
its AckWait ends when nobody works on a message.
`Ingest!Fairness`: goroutines run, and HTTP exchanges and embedding calls end, as
they have timeouts; an R script has none and ends for certain only when its context
is cancelled.
`Agent!Fairness`: goroutines run and time passes.  A model need never answer: its
call is sure to end when the context of the request does, and so are the tools,
which read under the same context.
`Serving!Fairness`: goroutines run, handlers return, the client keeps asking and
time passes.  No cleanup need ever end, and no signal need ever come.
MemoryConcurrent, MemorySerial, WSHubLifecycle and Knowledge state safety only.
Faults are bounded and never obliged.

## Proofs

Each proof module EXTENDS the module it is about and holds for every value of the
constants that satisfies its named assumption (`HubAssumption`,
`PipelineAssumption`, ...), which TLC evaluates in the runs.

`WSHub_proofs`:

- `TypeCorrect`: `Spec => []TypeOK`.  `TypeOK` alone is not inductive: that `run`
  registers a client needs that it holds one, and that a callback queues an event
  needs that it holds one.  `TypeInv` adds `HoldsOK`, which says so.  One lemma per
  action.
- `MembersStayOpen`: a registered client, and one a fan-out has still to visit,
  has an open `send` channel.  `OpenInv` is the inductive invariant: besides the
  two it says that a client `run` is about to register, or that has not been
  registered yet, is open, and that what a fan-out has still to visit is in the
  map, which the read lock keeps true.
- `PanicOnlyFromPong`: from `OpenInv`, no step but the answer to a ping sends on
  a closed channel or closes one twice.
- `GaugeCounts`: the gauge is the number of registered clients while the map is
  not replaced, up to the client being counted; with the facts about `Cardinality`
  of FiniteSetTheorems.
- `BroadcastsStayInOrder` and `LossOnlyByFullBuffer`: `BroadcastsInOrder` and
  `NoSilentLoss`, from `DeliveryInv`.  An event is in one place only: undelivered,
  in a callback's hand, or once in `log` (`LogInv`); `h.broadcast` holds the end of
  the log, and `run` fans out the entry before it (`BcastInv`); `writePump` holds a
  message exactly between its receive and its write (`HeldInv`); what is on its
  way to a client is in the order of the log and has been fanned out (`QueueInv`).
  Without the last part of `QueueInv` an event fanned out later could stand in
  front of an earlier one.

`Pipeline_proofs`:

- `PipelineTypeCorrect`: `Spec => []TypeOK`, with the delivery counts in their
  bound.
- `NoIndexLost`: `Spec => []AckedIsIndexed`.
- `GivenUpAtLimit`: `Spec => []GivenUpOnlyAtLimit`.
- `OnceIfCalm`: `Spec => []OnceWithoutFaults`.

The first three follow from `PipelineInv`.  None of them is inductive alone: an
acknowledgement is the last of a handler's steps, and other deliveries of the
message, `Stop` and crashes come between.  `HandlerOK` says what a handler still
knows when it settles: its message is in the stream at its stage, its own delivery
count is at most the message's, "termed" was decided in the last delivery, and
"acked" on a "processed" message was decided after the "indexed" one was
published.  `MessageOK` says that a message that waits has a delivery left and one
that is given up has none.  `Keeps` is what carries both over a step: messages stay
what they are about, and delivery counts grow.  `EditOK` and `AppendOK` show it for
the two ways the stream changes, and each action has a lemma that cites them.
`OnceIfCalm` needs more, while nothing has failed and nobody stops: a message has
one handler as long as it is pending (`HandledOnce`), and each event comes from one
whose handler is past publishing it (`Sources`), so none is published again
(`Single`); `About` is then empty or has one element.

`ChangeDetector_proofs`:

- `DetectorTypeCorrect`: `Spec => []TypeOK`.
- `LimiterShared`: `Spec => []OneLimiterPerHost`.  `getLimiter` reads the map under
  one lock and writes it under another; `LimiterInv` says that whoever is past it
  holds the limiter of the map.
- `NoChangeLost`: `StoredWasPublished`, assuming that no GET of the stored hash
  fails.  `PublishedInv` says what a checker about to store knows: it has published
  its hash, or nothing was stored when it compared.
- `EventsOwedToChanges`: `OneEventPerChange`, with no assumption.  `LeadInv` bounds
  `lead` in every step of a check: between the event and its store it may be one
  ahead, unless another checker has stored the same hash, because then the store
  changes nothing; and a check that is about to publish such a hash must have a
  change in hand (`Ahead`).  `StoredAhead` shows what the store by one checker does
  to the bound of another.

Both hold for any number of checkers of a page and for every page, those with a
dynamic value that `normalizeContent` leaves included.  Neither says that a change
is announced once only: two checkers of a page announce it once each, and an event
may be of a changed dynamic value.  In the programs of the repository each page has
its monitor alone: `ForceCheck` has no caller.  A failed GET refutes
`StoredWasPublished` and is listed below.

`ConversationMemory_proofs`: `MemoryInv` is inductive for any requests, limits,
faults, ways to begin and administrative operations.

- `MemoryTypeCorrect`, `RedisShowsRows` (`RedisIsCommitted`), `MapHasNoStray`
  (`MemoryIsCommittedOrPending`), `RepliesFollow` (`TurnsInOrder`).  `ClockInv`
  makes every message's time its own and a reply's later than its question's;
  `KnownInv` says that every message in a tier was sent, and that Redis and the rows
  a request still holds come from the table; `OrderInv` says that each tier, and the
  rows a request holds, have questions before replies.  The rows are what a request
  read before others went on, so what was true of the table then must be kept.
- `AnswersAreSaved`: `AnsweredIsSaved` from `SavedInv` (what a request has saved up
  to where it is) and `EnsureInv` (a conversation still to be recorded has no other
  request), assuming that no conversation begins with an id of the adapter's own:
  for those the run MemoryAdapter refutes it.
- `MemoryIsALog`: `Spec => ImplementsLog`, the refinement of `ConversationLog`,
  assuming `Serial`, the setting of the run MemorySerial: requests one at a time, no
  failing database and no failing DEL, restarts between requests, no administrative
  operation but archiving.  An insertion is the log's append (`AddStep`), what a request
  is served is the log's end whichever tier answers (`ServeStep`), and emptying the map
  is its `Forget`.  `SerialInv` is what this needs: the map is an end of the table
  (`Ends`), with the message being inserted behind it; the rows a request holds are
  the latest ones; and the key is missing or holds the latest rows, except between an
  insertion and the deletion of the key.  That a Redis hit is fresh rests on the last,
  and is false for concurrent requests (`memory.go:305`, see the hazards).

`Agent_proofs`:

- `RingKeepsLatest`: `Spec => []RingIsRecent`.  That the ring is the end of all
  executions is inductive once appending to a full ring is shown to keep its latest
  entries (`RecentAppend`).  That none is recorded twice needs where each request is:
  an execution of a request belongs to an iteration it has begun and, in the current
  one, to a call that has its result (`PlacedIn`); `Forward` says how a request moves
  on, and one lemma per group of actions that it does.
- `TypeInvariant`: `Spec => []TypeOK`, with it the bound on the iterations.
- `MessagesArePaired`: `Spec => []MessagesWellFormed`, and `CallsAreReported`:
  `Spec => []CallsReported`, for any replies, histories, tools and number of
  iterations.  `ChatInv` has one `TalkOK` per request.  In the loop its messages are
  well-formed and its calls are those of the messages; while tools run, the results
  at hand answer the first calls of the response one by one, `todo` is the rest, and
  the reported calls are those of the messages and of the results, and the one that
  is running (`Answering`).  When all are answered, the response and the results are
  a turn in either format (`SentTurn`) and a turn behind well-formed messages leaves
  them so (`WellFormedTurn`); what comes behind the results of a message must not be
  a result, which is why messages of the history may be texts only (`Plain`).  It
  needs that no two calls of one response have the same id (`Responses`), which holds
  for the fallback although calls of different responses share theirs.
  The lemmas before that are about the operators on sequences, by induction on an
  index: `Entries` keeps the order of the indices (`EntriesAre`), `OfKind`
  distributes over concatenation (`OfKindConcat`), and `FlattenSeq` appends
  (`FlattenAppend`).  `NumberByNumber` is the induction: a set of numbers with 0 and
  every successor is all of them, from the well-foundedness of `<`.  `LLM` filters
  with `Entries` (of `SequenceEntries`) because the provers see nothing in
  `SelectSeq`; `Crawler` does so too.

`Ingest_proofs`: for any commands, sites, listings, batches and numbers of
goroutines.  Every action is first reduced to what it may do to the crawl, the
session and the batch (`Effects`, `CrawlStepShape`, `BatchGoroutineShape`).

- `NoPageTwice`: `Spec => []PagesOnce`.  `SiteInv`: the documents' pages are in
  `ProcessedURLs`, and the page at hand is not.
- `TargetsCounted`: `Spec => []EveryTargetCounted`.  `TargetInv`: what is to do is
  the rest of the site's list behind as many pages as were counted, and what is in
  `ProcessedURLs` is among those; it rests on the assumption that a site's list has
  no page twice, which holds for the literals in `GetTargetPages`.
- `ReportsAreTrue`: `Spec => []ReportedIsStored`.  `BatchInv`: every path holds the
  file of a link with that path, a goroutine that is about to report has its path in
  storage, and as many links are counted as goroutines have finished.
- `NothingAfterPrint`: `Spec => PrintedIsFinal`, an action property.  `PrintInv`: a
  goroutine's job runs only before `wg.Wait` is over, the main goroutine's only in
  its own stage, and neither is there when the statistics are printed.
- `StatisticsAddUp`: `Spec => []StatsAddUp`.  Each sum of it holds when the
  statistics are printed because a sum with what is still to come holds all along
  (`StatsInv`).  In the loop over documents (`LoopInv`) those in `queue`, the current
  one and the processed make up those found, and the links of the queue, those left
  of the current document, the one at hand, the downloads and the errors make up all
  links.  In a directory (`FilesInv`) a file is in the queue, at a goroutine, or
  counted, and a goroutine that has not started has none; `StatsFile` is the step
  that counts one while the others go on.  An
  embedding may be counted while its page is at "embed" and its chunk was counted
  before: `EmbedInv` leaves room for every page that is there, twice where the caller
  counts again.  `PlaceInv` ties the control point to the command, without which none
  of the sums is inductive.  Links are counted as the size of a set of positions;
  `LinksOfTail` is what a step of the loop needs: the links of a list are those of
  its head and those of its tail.  `DocsInv` says that what the crawls gather are
  lists of documents, for which `Deduplicate` and `ScriptDocuments` must give
  sequences, as they do by `Entries`.
- `TypesCorrect`: `Spec => []TypeOK`.  `TypeInv` says why the types hold: what a
  crawl has to do are pages, and there is one wherever it reads the head of them
  (`TodoOK`), so every exchange is for a URL; an exchange that backs off has an
  attempt left (`CallOK`), so a retry does not exceed them; the links of the
  documents, of the queue and of the current document are links or local files
  (`OfLinks`, `QueueOK`), and the queue of the fatwa command has portals instead.
  What is in storage is then a file of a link by `BatchInv`, and the counters by
  `StatsInv`.

`Serving_proofs`: for any requests, limits, windows, stores and cleanups.

- `NoThirdWindow`: `Spec => []AtMostTwoWindows`.  `WindowInv` splits the admitted
  into those the present counter counted after its first, fewer than the limit, and
  those as old as the counter or older: when the counter's life is over
  (`CounterOver`), or Redis deletes it, the latter have left the window.  A late
  EXPIRE only makes the counter's life longer.  A restart of the memory store ends the
  counter before its time, so the older ones are bounded one by one: the `i`-th is
  `Within` a window and one more for each loss that came after it (`CounterLost`),
  and when the loss leaves the window (`WithinTick`) so has it.
- `OnlyLossBlocks`: `Spec => [](ExpiryComes /\ CauseOfLoss)`, the safety behind
  `TurnedAwayIsLetIn`: a Redis counter without an expiry is about to get one, unless
  a call failed or lost its reply, a process died or Redis was closed.
- `ShutdownTellsTheTruth`: the safety part of `ShutdownIsOrderly`.  `ShutdownInv`:
  until a panic, the errors in the channel and those logged are those of the failed
  cleanups, and the handler returns with the channel empty; `DrainedInv`: when the
  server's cleanup has succeeded no request is left, and none is accepted any more.

`Knowledge_proofs`: for any store, questions, limits, weights and changes by the
ingest.

- `RetrievalInvariant`: `Spec => []RetrievalInv` of Retrieval, one lemma per action.
  The heart of it is `PlanInv`: each retrieval still to do `Suits` the list at hand,
  that is, whatever passes its filters may be in it; if the keyword search can take
  part, which is given source and categories only, those must be enough.  One lemma
  per tool shows that the plan it makes does.  `StageInv` says that the keyword
  search is reached only where the mode or the kind of search allows for it, and
  that what the first half of a hybrid search holds passes the filters of the
  retrieval still at hand.  A source that is not "fatwa" has one retrieval and an
  empty list before it, else its list could be longer than asked for.
- `KnowledgeIsRetrieval`: `KnowledgeSpec => Spec`; the chunker's steps stutter.
- `QuestionsAnswered`: `AnswersTheQuestion` of the knowledge base.
- `BestChunksKept`: `NothingBetterLeftOut`.  That `Place` gives every item a place
  of its own (`PlacesAreIndices`, from an order on fractions and the pigeonhole
  principle of FiniteSetTheorems) makes `BySimilarity` a sort that loses nothing.
- `FusionOrderKept`: `FusionKeepsOrder`, from `AheadScoresMore`: a chunk ahead of
  another in the rankings has the larger share of each, hence the larger sum of
  fractions; weights and constant are positive, as `NewRetriever` makes them.

Only model-checked:

- all liveness: fairness and `ENABLED` are outside what TLAPS proves;
- `ChunksCoverDocument` of Knowledge: it is about what the chunker's folds make of a
  text, and induction over data is outside what TLAPS proves;
- `NoClientAfterStop`, `ClearedIsForgotten` and `DeletedIsForgotten` are stated and
  false, see below.

## Disagreements between the code and what it says

Two have a run that ends in a counterexample:

- WSHubPanic (`websocket.go:587`): `readPump` answers a ping with a send on
  `c.send` outside the mutex while `Stop` closes it; the process panics.  (An
  unregistration closes it too, but only `readPump` asks for one, on its way out.)
- MemoryAdapter (`orchestrator.go:164`, `cmd/agent/main.go:705`): a chat without
  a conversation id is answered and never saved, because only the nil id makes
  `Process` create the record and the adapter has made an id of its own.

The others are read off the code while it was modelled; the modules do as the
code does.

Realtime and memory:

- `memory.go:311`: `GetHistory` overwrites the map entry with rows it read before
  other requests appended to it; a later request is given a history with a hole.
  After a restart a Redis hit leaves the map empty, and the next `SaveMessage`
  starts an entry with its own message only.
- `memory.go:305`: a request that read the rows before another's insertion sets the
  Redis key after that insertion deleted it; until the key expires or the next message
  is saved, a process without a map entry answers from the older rows.
- `memory.go:485`: a request that reads while `Clear`
  runs puts the cleared messages back (`ClearedIsForgotten`), and
  `DeleteConversation` leaves the map and Redis (`DeletedIsForgotten`).
- `detector.go:264`: a failed GET of the stored hash looks like a first check; the
  change is stored and never announced.
- `detector.go:392`: a dynamic value in quotes survives `normalizeContent`, which
  says it "removes dynamic content that changes frequently": every change of it is
  announced (`QuotedPage` in MCChangeDetector).
- `worker.go:423`: a graceful stop in the middle of `handleDocumentChanged` loses
  documents, whose publications fail on the cancelled context while the change is
  acknowledged.
- `run` may take a registration after `Stop` has closed everyone
  (`NoClientAfterStop`).

Serving:

- The comments of `shutdown.go:35` and `:76` say that cleanups run in the reverse
  order of their registration; they run at the same time.  "graceful shutdown
  completed" may be logged with requests in flight, when the server's own cleanup
  failed with its context.  A cleanup that fails after the timeout sends on a
  closed channel.
- `ratelimit.go:199`: a failed EXPIRE is only logged, and the counter without
  expiry blocks its client for ever; so does one made by an INCR whose reply was lost
  or that was sent again.  Fixed windows let through one less than twice the limit,
  and a restart of the memory store the limit once more.  `healthy` is set at construction and never again.

Agent:

- The server's `WriteTimeout` of 15 s (`cmd/agent/main.go:263`) is shorter than the
  router's 30 s and than `OrchestratorConfig.RequestTimeout`, which nothing
  applies.
- "Maximum tool calls per request" (`orchestrator.go:67`) bounds iterations, not
  calls; the tools of the last iteration are run before the error.  A reply that
  stops for tools and names none sends two empty messages.
- `Retrieve` returns no error, so the tools' error branches are unreachable.

Retrieval and tools:

- The keyword search ignores the date range and the standard number, so
  "Optional date range filter for documents" (`search_bnm.go:83`) does not hold for
  its results, nor does the range of the latest circulars.
- Similarities of the two searches and of the fusion have different scales and are
  sorted together; a list no longer than `top_k` is not sorted at all.

Embedder and chunker:

- The "simple LRU cache" (`embedder.go:83`) evicts in the order of insertion.
- "Maximum tokens per chunk" is exceeded by the overlap, by the blank lines between
  paragraphs and by a word that is too long alone.  `MinChunkSize` has no effect.
  An empty page becomes an empty chunk, which is embedded.
- `chunker.go:590`: "Restore the punctuation" gives the sentences left the marks in the
  order they were found; a sentence of marks only (". ." or "? !" in a row) has been
  dropped by then, so the marks after it move to the wrong sentences and the last are
  lost.

Crawlers and ingest:

- With `UseBrowser`, `DownloadPDF` returns the browser's HTML
  (`bnm_crawler.go:770`).  The local paths of the SC and IIFA scripts' files are
  fetched over HTTP.  `SetState` "(for resumption)" is discarded by the next crawl.
  A cancelled crawl ends with the status "completed".
- `cmd/crawler/main.go:1107`: embeddings are counted twice by two of the functions.
  An interrupted run may print its statistics and exit with 0.  `--workers 0`
  makes the AAOIFI command hang, interrupt or not.  Originals are saved by base
  name and collide.
- `fatwa_crawler.go:392`: "Return category with highest count" is not what its
  branch for social matters does.

## Not modelled

No program calls the query processor, the context builder, the evaluation
package, the cache manager, `html_processor.go`, the visual citations' builder or
the fallback chain of providers: they are left out, or in the case of
`LLM`'s fallback for models without tools modelled as its own code.  Nothing is
stored under the keys the cache invalidator deletes.  The object store is a client
of another program.  Configuration, logging and the front end's views are wording
and layout; the visual citations are image geometry and calls of PDF tools.  The
handlers for pagination, downloads and health are stateless; what chat and DELETE
do to a conversation is in ConversationMemory and Agent.  The crawlers' parsers of
dates, numbers and categories classify text.  `embed` and `status` of the crawler
command are stubs in the code.  Within modelled components each section above, and
the notes of PROJECT.json, say what is left out.

## Plan

1. The embedder's bounded cache and its batches.
2. WSClient and ChatClient of the front end, WSClient composed with the hub's
   batches.
3. `NATSClient.Drain` and the worker's own order of stopping, composed with the
   Stop of the hub, the pipeline and the detector.
