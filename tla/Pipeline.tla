------------------------------- MODULE Pipeline -------------------------------
(***************************************************************************)
(* The processing pipeline of internal/realtime/worker.go over the         *)
(* JetStream streams of internal/realtime/nats.go.  A crawl worker turns a *)
(* change of a page into documents and publishes one "processed" event for *)
(* each, a process worker turns that into an "indexed" event, an index     *)
(* worker ends the line.  Delivery is at least once: a message that is not *)
(* acknowledged within AckWait is delivered again, MaxDeliver times at the *)
(* most.  A worker is two goroutines: the one Start makes, which           *)
(* subscribes and waits for the end, and the callback of its subscription. *)
(***************************************************************************)
EXTENDS Naturals, Sequences, FiniteSets

CONSTANTS
    Workers, StageOf,   \* StageOf \in [Workers -> Stages]
    Late,               \* bound: the workers that have not subscribed at the start
    Docs, Found,        \* Found: the sets of documents ProcessURL may return
    MaxChanges,         \* bound: "changed" events published
    MaxDeliver,
    Faults, MaxFaults   \* what may fail, a subset of FaultKinds, and how often

Stages == {"changed", "processed", "indexed"}   \* by the subject subscribed to
FaultKinds == {"subscribe", "process", "publish", "ack", "slow", "crash"}

ASSUME PipelineAssumption ==
    /\ IsFiniteSet(Workers) /\ Late \subseteq Workers /\ StageOf \in [Workers -> Stages]
    /\ Found \subseteq SUBSET Docs /\ Found # {}
    /\ MaxChanges \in Nat /\ MaxDeliver \in Nat \ {0} /\ MaxFaults \in Nat
    /\ Faults \subseteq FaultKinds

VARIABLES
    stream,    \* the messages published: [subject, docs, from, state, count]
    worker,    \* [run, pc, msg, count, todo, view] of each worker
    subs,      \* p.subs, by worker
    draining,  \* the subscriptions that have been drained
    stop,      \* Stop: "running", "cancelled", "draining", "returned",
               \* "timedout"
    rest,      \* the subscriptions Stop's loop has still to drain
    faults     \* how often something failed

vars == <<stream, worker, subs, draining, stop, rest, faults>>

\* A message waits to be delivered, is with a consumer, or is over: it has been
\* acknowledged, terminated, or delivered too often.
States == {"ready", "pending", "acked", "termed", "dead"}

\* The workers after Start, when those not in Late have subscribed.
Started == [w \in Workers |->
    [run |-> IF w \in Late THEN "start" ELSE "serving", pc |-> "idle", msg |-> 0,
     count |-> 0, todo |-> {}, view |-> {}]]

Init ==
    /\ stream = <<>> /\ subs = Workers \ Late /\ draining = {} /\ rest = {}
    /\ worker = Started
    /\ stop = "running" /\ faults = 0

Cancelled == stop # "running"
MayFail(kind) == kind \in Faults /\ faults < MaxFaults
Fault(kind) == MayFail(kind) /\ faults' = faults + 1

\* An operation that takes the context fails once it is cancelled.
Fails(kind) == Fault(kind) \/ (Cancelled /\ UNCHANGED faults)

\* A message about a document that comes from the change at `from`; a change is
\* about no document and comes from itself.
New(subject, docs, from) ==
    [subject |-> subject, docs |-> docs, from |-> from, state |-> "ready", count |-> 0]
Origin(w) == stream[worker[w].msg].from

\* A publication that fails may have reached the stream: its reply was lost.
Lost(m) == \/ stream' = Append(stream, m) \/ UNCHANGED stream

SubjectsOf(w) == {i \in DOMAIN stream : stream[i].subject = StageOf[w]}

-----------------------------------------------------------------------------
(* The goroutine Start makes for a worker *)

\* QueueSubscribe: from here on the callback may run.  On an error the goroutine
\* ends.  `p.subs = append(p.subs, sub)` takes no lock, although every worker's
\* goroutine runs it: the slice is read here and written in a later step.
Subscribe(w) ==
    /\ worker[w].run = "start"
    /\ \/ worker' = [worker EXCEPT ![w].run = "storing", ![w].view = subs]
          /\ UNCHANGED faults
       \/ Fault("subscribe") /\ worker' = [worker EXCEPT ![w].run = "ended"]
    /\ UNCHANGED <<stream, subs, draining, stop, rest>>

\* After this the goroutine waits for ctx.Done() and ends at once when it comes.
StoreSubs(w) ==
    /\ worker[w].run = "storing"
    /\ subs' = worker[w].view \cup {w}
    /\ worker' = [worker EXCEPT ![w].run = "serving", ![w].view = {}]
    /\ UNCHANGED <<stream, draining, stop, rest, faults>>

RunStep(w) == Subscribe(w) \/ StoreSubs(w)
Gone(w) == worker[w].run = "ended" \/ (worker[w].run = "serving" /\ Cancelled)

-----------------------------------------------------------------------------
(* JetStream *)

\* The consumer of a subject gives a message to one member of its queue group,
\* and NATS runs the callback of a subscription for one message at a time.
Deliver(w, i) ==
    /\ worker[w].run \notin {"start", "ended"} /\ w \notin draining /\ worker[w].pc = "idle"
    /\ i \in SubjectsOf(w) /\ stream[i].state = "ready"
    /\ stream' = [stream EXCEPT ![i].state = "pending", ![i].count = @ + 1]
    /\ worker' = [worker EXCEPT ![w].pc = "handle", ![w].msg = i,
                                ![w].count = stream[i].count + 1]
    /\ UNCHANGED <<subs, draining, stop, rest, faults>>

\* Faulty variant: one delivery more than MaxDeliver.
RedeliverOnceMore(i) ==
    stream' = [stream EXCEPT ![i].state =
                 IF stream[i].count <= MaxDeliver THEN "ready" ELSE "dead"]

\* A message that is not settled is delivered again, or given up.
Redeliver(i) ==
    stream' = [stream EXCEPT ![i].state =
                 IF stream[i].count < MaxDeliver THEN "ready" ELSE "dead"]

Handling(i) == {w \in Workers : worker[w].pc # "idle" /\ worker[w].msg = i}

\* AckWait is over: nobody works on the message any more, or it takes too long.
AckWaitOver(i) ==
    /\ stream[i].state = "pending" /\ Handling(i) = {}
    /\ Redeliver(i)
    /\ UNCHANGED <<worker, subs, draining, stop, rest, faults>>

AckWaitTooShort(i) ==
    /\ stream[i].state = "pending" /\ Handling(i) # {} /\ Fault("slow")
    /\ Redeliver(i)
    /\ UNCHANGED <<worker, subs, draining, stop, rest>>

\* msg.Ack, msg.Nak and msg.Term return an error that no handler looks at.  They
\* have no effect on a message that is not pending.
Settles(w, how) ==
    LET i == worker[w].msg IN
    \/ /\ IF stream[i].state # "pending" THEN UNCHANGED stream
          ELSE IF how = "nak" THEN Redeliver(i)
          ELSE stream' = [stream EXCEPT ![i].state = how]
       /\ UNCHANGED faults
    \/ Fault("ack") /\ UNCHANGED stream

Finish(w, how) ==
    /\ Settles(w, how)
    /\ worker' = [worker EXCEPT ![w].pc = "idle", ![w].msg = 0, ![w].count = 0]
    /\ UNCHANGED <<subs, draining, stop, rest>>

Settle(w) == worker[w].pc \in {"acked", "nak", "termed"} /\ Finish(w, worker[w].pc)

-----------------------------------------------------------------------------
(* handleDocumentChanged *)

Publishes(w, docs) ==
    worker' = [worker EXCEPT ![w].pc = IF docs = {} THEN "acked" ELSE "publish",
                             ![w].todo = docs]
Settling(w, how) == worker' = [worker EXCEPT ![w].pc = how]

\* Faulty variants: a message whose processing fails is acknowledged; the message
\* is terminated one delivery early.
ProcessURLAcks(w) ==
    /\ worker[w].pc = "handle" /\ StageOf[w] = "changed"
    /\ \/ \E docs \in Found : Publishes(w, docs) /\ UNCHANGED faults
       \/ Fails("process") /\ Settling(w, "acked")
    /\ UNCHANGED <<stream, subs, draining, stop, rest>>

ProcessURLEarly(w) ==
    /\ worker[w].pc = "handle" /\ StageOf[w] = "changed"
    /\ \/ \E docs \in Found : Publishes(w, docs) /\ UNCHANGED faults
       \/ /\ Fails("process")
          /\ Settling(w, IF worker[w].count + 1 >= MaxDeliver THEN "termed" ELSE "nak")
    /\ UNCHANGED <<stream, subs, draining, stop, rest>>

\* ProcessURL finds documents or fails, and the last delivery is then terminated.
\* A pool without a processor acknowledges at once, as if nothing were found.
ProcessURL(w) ==
    /\ worker[w].pc = "handle" /\ StageOf[w] = "changed"
    /\ \/ \E docs \in Found : Publishes(w, docs) /\ UNCHANGED faults
       \/ /\ Fails("process")
          /\ Settling(w, IF worker[w].count >= MaxDeliver THEN "termed" ELSE "nak")
    /\ UNCHANGED <<stream, subs, draining, stop, rest>>

\* The documents one after the other; an error is logged and the loop goes on to
\* the acknowledgement.
PublishProcessed(w) ==
    /\ worker[w].pc = "publish"
    /\ \E d \in worker[w].todo :
         /\ worker' = [worker EXCEPT ![w].todo = @ \ {d},
                         ![w].pc = IF worker[w].todo = {d} THEN "acked" ELSE "publish"]
         /\ LET m == New("processed", {d}, Origin(w)) IN
            \/ ~Cancelled /\ stream' = Append(stream, m) /\ UNCHANGED faults
            \/ Fails("publish") /\ Lost(m)
    /\ UNCHANGED <<subs, draining, stop, rest>>

-----------------------------------------------------------------------------
(* handleDocumentProcessed and handleDocumentIndexed *)

\* Faulty variants: acknowledged whether or not the event is published; delivered
\* again whether or not it is.
PublishIndexedAcks(w) ==
    /\ worker[w].pc = "handle" /\ StageOf[w] = "processed"
    /\ LET m == New("indexed", stream[worker[w].msg].docs, Origin(w)) IN
       \/ ~Cancelled /\ stream' = Append(stream, m) /\ UNCHANGED faults
       \/ Fails("publish") /\ Lost(m)
    /\ Settling(w, "acked")
    /\ UNCHANGED <<subs, draining, stop, rest>>

PublishIndexedNaks(w) ==
    /\ worker[w].pc = "handle" /\ StageOf[w] = "processed"
    /\ LET m == New("indexed", stream[worker[w].msg].docs, Origin(w)) IN
       \/ ~Cancelled /\ stream' = Append(stream, m) /\ UNCHANGED faults
       \/ Fails("publish") /\ Lost(m)
    /\ Settling(w, "nak")
    /\ UNCHANGED <<subs, draining, stop, rest>>

\* A publication that fails is retried, by way of a new delivery.
PublishIndexed(w) ==
    /\ worker[w].pc = "handle" /\ StageOf[w] = "processed"
    /\ LET m == New("indexed", stream[worker[w].msg].docs, Origin(w)) IN
       \/ /\ ~Cancelled /\ stream' = Append(stream, m)
          /\ Settling(w, "acked") /\ UNCHANGED faults
       \/ Fails("publish") /\ Lost(m) /\ Settling(w, "nak")
    /\ UNCHANGED <<subs, draining, stop, rest>>

\* The events of the stage before have neither topics nor cache keys, so no
\* invalidation is published.
HandleIndexed(w) ==
    /\ worker[w].pc = "handle" /\ StageOf[w] = "indexed"
    /\ Finish(w, "acked")

CallbackStep(w) == \/ ProcessURL(w) \/ PublishProcessed(w) \/ PublishIndexed(w)
                   \/ HandleIndexed(w) \/ Settle(w)

-----------------------------------------------------------------------------
(* Stop *)

StopCancel ==
    /\ stop = "running"
    /\ stop' = "cancelled"
    /\ UNCHANGED <<stream, worker, subs, draining, rest, faults>>

\* The loop over p.subs, as it is now.
StopRange ==
    /\ stop = "cancelled"
    /\ stop' = "draining" /\ rest' = subs
    /\ UNCHANGED <<stream, worker, subs, draining, faults>>

\* sub.Drain(): no further delivery; a callback that runs goes on.
StopDrain(w) ==
    /\ stop = "draining" /\ w \in rest
    /\ rest' = rest \ {w} /\ draining' = draining \cup {w}
    /\ UNCHANGED <<stream, worker, subs, stop, faults>>

\* wg.Wait() counts the goroutines Start made, not the callbacks.
StopReturn ==
    /\ stop = "draining" /\ rest = {} /\ \A w \in Workers : Gone(w)
    /\ stop' = "returned"
    /\ UNCHANGED <<stream, worker, subs, draining, rest, faults>>

\* The context of the shutdown ends first.
StopTimeout ==
    /\ stop = "draining" /\ rest = {} /\ \E w \in Workers : ~Gone(w)
    /\ stop' = "timedout"
    /\ UNCHANGED <<stream, worker, subs, draining, rest, faults>>

StopStep == StopRange \/ (\E w \in Workers : StopDrain(w)) \/ StopReturn

-----------------------------------------------------------------------------
(* The environment *)

\* The change detector publishes a change.
Change ==
    /\ Cardinality({i \in DOMAIN stream : stream[i].subject = "changed"}) < MaxChanges
    /\ stream' = Append(stream, New("changed", {}, Len(stream) + 1))
    /\ UNCHANGED <<worker, subs, draining, stop, rest, faults>>

\* The process dies and is started again; the streams and their consumers remain.
Crash ==
    /\ stop = "running" /\ Fault("crash")
    /\ worker' = Started /\ subs' = Workers \ Late
    /\ UNCHANGED <<stream, draining, stop, rest>>

Next ==
    \/ \E w \in Workers :
         \/ RunStep(w) \/ CallbackStep(w) \/ StopDrain(w)
         \/ \E i \in DOMAIN stream : Deliver(w, i)
    \/ \E i \in DOMAIN stream : AckWaitOver(i) \/ AckWaitTooShort(i)
    \/ StopCancel \/ StopRange \/ StopReturn \/ StopTimeout
    \/ Change \/ Crash

Spec == Init /\ [][Next]_vars

\* Go runs every goroutine that can run; JetStream delivers what it can deliver,
\* and its AckWait ends.  Nothing has to change, fail or stop.
FairSpec ==
    /\ Spec
    /\ \A w \in Workers :
         /\ WF_vars(RunStep(w)) /\ WF_vars(CallbackStep(w))
         /\ WF_vars(\E i \in DOMAIN stream : Deliver(w, i))
    /\ WF_vars(\E i \in DOMAIN stream : AckWaitOver(i))
    /\ WF_vars(StopStep)

-----------------------------------------------------------------------------
(* Properties *)

Counts == 0 .. MaxDeliver

Message == [subject : Stages, docs : SUBSET Docs, from : Nat \ {0},
            state : States, count : Counts]

WorkerState ==
    [run : {"start", "storing", "serving", "ended"},
     pc : {"idle", "handle", "publish", "acked", "nak", "termed"},
     msg : Nat, count : Counts, todo : SUBSET Docs, view : SUBSET Workers]

\* The values the variables take.
TypeOK ==
    /\ stream \in Seq(Message) /\ worker \in [Workers -> WorkerState]
    /\ subs \subseteq Workers /\ draining \subseteq Workers /\ rest \subseteq Workers
    /\ stop \in {"running", "cancelled", "draining", "returned", "timedout"}
    /\ faults \in 0 .. MaxFaults

\* The events of a kind about a document of a change.
About(subject, d, from) ==
    {j \in DOMAIN stream : /\ stream[j].subject = subject
                           /\ stream[j].docs = {d} /\ stream[j].from = from}

\* A "processed" event is acknowledged only when its document's "indexed" event
\* is in the stream, whatever fails and whenever Stop cancels the handlers.
AckedIsIndexed ==
    \A i \in DOMAIN stream :
        stream[i].subject = "processed" /\ stream[i].state = "acked" =>
            \A d \in stream[i].docs : About("indexed", d, stream[i].from) # {}

\* No message is given up, by a handler or by the consumer, before it has been
\* delivered MaxDeliver times, although late settlements of earlier deliveries
\* arrive while a later one is being handled.
GivenUpOnlyAtLimit ==
    \A i \in DOMAIN stream :
        stream[i].state \in {"termed", "dead"} => stream[i].count = MaxDeliver

\* As long as nothing fails and nobody stops the pool, a document of a change is
\* processed and indexed once, however many workers share a stage.
OnceWithoutFaults ==
    faults = 0 /\ stop = "running" =>
        \A d \in Docs, i \in DOMAIN stream, s \in {"processed", "indexed"} :
            Cardinality(About(s, d, i)) <= 1

\* Fewer failures than deliveries: every document of a change gets indexed, unless
\* the pool is stopped or a worker could not subscribe, which nobody tries again.
\* For a processor that finds all of Docs, and as long as no publication fails.
EventuallyIndexed ==
    \A i \in 1 .. MaxChanges :
        i \in DOMAIN stream /\ stream[i].subject = "changed"
            ~> \/ stop # "running" \/ \E w \in Workers : worker[w].run = "ended"
               \/ \A d \in Docs : About("indexed", d, i) # {}
===============================================================================
