--------------------------- MODULE Pipeline_proofs ---------------------------
(***************************************************************************)
(* Proofs about Pipeline for any workers, documents and numbers of         *)
(* deliveries and failures.                                                *)
(***************************************************************************)
EXTENDS Pipeline, FiniteSetTheorems, TLAPS

StopTypeOK ==
    /\ subs \subseteq Workers /\ draining \subseteq Workers /\ rest \subseteq Workers
    /\ stop \in {"running", "cancelled", "draining", "returned", "timedout"}

\* The "indexed" events of the documents of a message are in the stream.
Indexed(i) == \A d \in stream[i].docs : About("indexed", d, stream[i].from) # {}

\* What holds of every message: one that waits has a delivery left, one that is
\* given up has none, and a "processed" one is about one document and is
\* acknowledged only when that is indexed.
MessageOK(i) ==
    /\ stream[i].state = "ready" => stream[i].count < MaxDeliver
    /\ stream[i].state \in {"termed", "dead"} => stream[i].count = MaxDeliver
    /\ stream[i].subject = "processed" => \E d \in Docs : stream[i].docs = {d}
    /\ stream[i].subject = "processed" /\ stream[i].state = "acked" => Indexed(i)

StreamInv == stream \in Seq(Message) /\ \A i \in DOMAIN stream : MessageOK(i)

\* What holds of a callback that handles a message: it knows a delivery of it, not
\* always the last, terminates it in the last, and acknowledges a "processed" one
\* after it has published the "indexed" one.
HandlerOK(w) ==
    worker[w].pc # "idle" =>
        LET i == worker[w].msg IN
        /\ i \in DOMAIN stream /\ stream[i].subject = StageOf[w]
        /\ worker[w].count <= stream[i].count
        /\ worker[w].pc = "termed" => worker[w].count = MaxDeliver
        /\ worker[w].pc = "publish" => StageOf[w] = "changed"
        /\ worker[w].pc = "acked" /\ StageOf[w] = "processed" => Indexed(i)

WorkerInv == worker \in [Workers -> WorkerState] /\ \A w \in Workers : HandlerOK(w)

PipelineInv ==
    StreamInv /\ WorkerInv /\ StopTypeOK /\ faults \in 0 .. MaxFaults

-----------------------------------------------------------------------------
(* What a step does to the stream *)

\* No message goes, changes what it is about, or has fewer deliveries.
Keeps ==
    /\ stream' \in Seq(Message)
    /\ \A i \in DOMAIN stream :
         /\ i \in DOMAIN stream'
         /\ stream'[i].subject = stream[i].subject /\ stream'[i].docs = stream[i].docs
         /\ stream'[i].from = stream[i].from /\ stream'[i].count >= stream[i].count

\* A document that is indexed stays indexed while messages stay what they are.
LEMMA KeepsIndexed ==
  ASSUME Keeps, NEW i \in DOMAIN stream, Indexed(i)
  PROVE  Indexed(i)'
<1> SUFFICES ASSUME NEW d \in stream'[i].docs
             PROVE  (About("indexed", d, stream[i].from) # {})'
  BY DEF Indexed
<1>1. d \in stream[i].docs /\ stream'[i].from = stream[i].from
  BY DEF Keeps
<1>2. PICK j \in DOMAIN stream : /\ stream[j].subject = "indexed"
                                 /\ stream[j].docs = {d} /\ stream[j].from = stream[i].from
  BY <1>1 DEF Indexed, About
<1>3. j \in DOMAIN stream' /\ stream'[j].subject = "indexed" /\ stream'[j].docs = {d}
      /\ stream'[j].from = stream'[i].from
  BY <1>1, <1>2 DEF Keeps
<1> QED
  BY <1>3 DEF About

\* A callback that does not move still knows a delivery of its message.
LEMMA KeepsHandler ==
  ASSUME PipelineInv, Keeps, NEW w \in Workers, worker'[w].pc = worker[w].pc,
         worker'[w].msg = worker[w].msg, worker'[w].count = worker[w].count
  PROVE  HandlerOK(w)'
<1> SUFFICES ASSUME worker[w].pc # "idle" PROVE HandlerOK(w)'
  BY DEF HandlerOK
<1> PICK i \in DOMAIN stream : i = worker[w].msg
  BY DEF PipelineInv, WorkerInv, HandlerOK
<1>1. /\ stream[i].subject = StageOf[w]
      /\ worker[w].count <= stream[i].count
      /\ worker[w].pc = "termed" => worker[w].count = MaxDeliver
      /\ worker[w].pc = "publish" => StageOf[w] = "changed"
      /\ worker[w].pc = "acked" /\ StageOf[w] = "processed" => Indexed(i)
  BY DEF PipelineInv, WorkerInv, HandlerOK
<1>2. i \in DOMAIN stream' /\ stream'[i].subject = StageOf[w]
  BY <1>1 DEF Keeps
<1>3. worker[w].count \in Nat /\ stream[i].count \in Nat /\ stream'[i].count \in Nat
  <2>1. worker[w] \in WorkerState /\ stream[i] \in Message /\ stream'[i] \in Message
    BY <1>2 DEF PipelineInv, WorkerInv, StreamInv, Keeps
  <2> QED
    BY <2>1 DEF WorkerState, Message, Counts
<1>4. worker[w].count <= stream'[i].count
  BY <1>1, <1>3 DEF Keeps
<1>5. worker[w].pc = "acked" /\ StageOf[w] = "processed" => Indexed(i)'
  BY <1>1, KeepsIndexed
<1>6. Indexed(worker[w].msg)' <=> Indexed(i)'
  <2>1. worker'[w].msg = i
    OBVIOUS
  <2> QED
    BY <2>1 DEF Indexed, About
<1> QED
  BY <1>1, <1>2, <1>4, <1>5, <1>6 DEF HandlerOK

\* A published message is the last one, and waits for its first delivery.
LEMMA AppendOK ==
  ASSUME PipelineInv, NEW m \in Message, stream' = Append(stream, m),
         m.state = "ready", m.count = 0,
         m.subject = "processed" => \E d \in Docs : m.docs = {d}
  PROVE  Keeps /\ StreamInv' /\ Len(stream) + 1 \in DOMAIN stream'
         /\ stream'[Len(stream) + 1] = m
<1> USE PipelineAssumption
<1>1. stream \in Seq(Message) /\ \A i \in DOMAIN stream : MessageOK(i)
  BY DEF PipelineInv, StreamInv
<1>2. stream' \in Seq(Message) /\ Len(stream') = Len(stream) + 1
      /\ stream'[Len(stream) + 1] = m
      /\ \A i \in DOMAIN stream : i \in DOMAIN stream' /\ stream'[i] = stream[i]
  BY <1>1
<1>3. \A i \in DOMAIN stream : stream[i].count \in Nat
  <2>1. \A i \in DOMAIN stream : stream[i] \in Message
    BY <1>1
  <2> QED
    BY <2>1 DEF Message, Counts
<1>4. Keeps
  BY <1>2, <1>3 DEF Keeps
<1>5. ASSUME NEW i \in DOMAIN stream' PROVE MessageOK(i)'
  <2>1. CASE i \in DOMAIN stream
    <3>1. MessageOK(i) /\ stream'[i] = stream[i]
      BY <1>1, <1>2, <2>1
    <3>2. Indexed(i) => Indexed(i)'
      BY <1>4, <2>1, KeepsIndexed
    <3> QED
      BY <3>1, <3>2 DEF MessageOK
  <2>2. CASE i \notin DOMAIN stream
    <3>1. i = Len(stream) + 1
      BY <1>1, <1>2, <2>2
    <3>2. stream'[i] = m
      BY <1>2, <3>1
    <3> QED
      BY <3>2 DEF MessageOK
  <2> QED
    BY <2>1, <2>2
<1>6. Len(stream) + 1 \in DOMAIN stream'
  BY <1>1, <1>2
<1> QED
  BY <1>2, <1>4, <1>5, <1>6 DEF StreamInv

\* A change of the state and the delivery count of one message that MessageOK
\* allows keeps the others and what the message is about.
LEMMA EditOK ==
  ASSUME PipelineInv, NEW i \in DOMAIN stream, stream'[i] \in Message,
         stream' = [stream EXCEPT ![i] = stream'[i]],
         stream'[i].subject = stream[i].subject, stream'[i].docs = stream[i].docs,
         stream'[i].from = stream[i].from, stream'[i].count >= stream[i].count,
         stream'[i].state = "ready" => stream'[i].count < MaxDeliver,
         stream'[i].state \in {"termed", "dead"} => stream'[i].count = MaxDeliver,
         stream'[i].state = "acked" /\ stream[i].subject = "processed" => Indexed(i)
  PROVE  Keeps /\ StreamInv'
<1>1. stream \in Seq(Message) /\ \A j \in DOMAIN stream : MessageOK(j)
  BY DEF PipelineInv, StreamInv
<1>2. stream' \in Seq(Message) /\ DOMAIN stream' = DOMAIN stream
      /\ \A j \in DOMAIN stream : j # i => stream'[j] = stream[j]
  BY <1>1
<1>3. \A j \in DOMAIN stream : stream[j].count \in Nat
  <2>1. \A j \in DOMAIN stream : stream[j] \in Message
    BY <1>1
  <2> QED
    BY <2>1 DEF Message, Counts
<1>4. Keeps
  <2>1. ASSUME NEW j \in DOMAIN stream
        PROVE  /\ stream'[j].subject = stream[j].subject /\ stream'[j].docs = stream[j].docs
               /\ stream'[j].from = stream[j].from /\ stream'[j].count >= stream[j].count
    BY <1>2, <1>3
  <2> QED
    BY <1>2, <2>1 DEF Keeps
<1>5. ASSUME NEW j \in DOMAIN stream' PROVE MessageOK(j)'
  <2>1. j \in DOMAIN stream /\ MessageOK(j)
    BY <1>1, <1>2
  <2>2. Indexed(j) => Indexed(j)'
    BY <1>4, <2>1, KeepsIndexed
  <2>3. CASE j = i
    BY <1>2, <2>1, <2>2, <2>3 DEF MessageOK
  <2>4. CASE j # i
    BY <1>2, <2>1, <2>2, <2>4 DEF MessageOK
  <2> QED
    BY <2>3, <2>4
<1> QED
  BY <1>2, <1>4, <1>5 DEF StreamInv

\* A step that leaves the stream alone.
LEMMA StreamUnchanged ==
  ASSUME PipelineInv, UNCHANGED stream
  PROVE  Keeps /\ StreamInv'
<1>1. \A i \in DOMAIN stream : stream[i].count \in Nat
  <2>1. \A i \in DOMAIN stream : stream[i] \in Message
    BY DEF PipelineInv, StreamInv
  <2> QED
    BY <2>1 DEF Message, Counts
<1>2. Keeps
  <2>1. \A i \in DOMAIN stream : stream[i].count >= stream[i].count
    BY <1>1
  <2> QED
    BY <2>1 DEF PipelineInv, StreamInv, Keeps
<1>3. ASSUME NEW i \in DOMAIN stream PROVE MessageOK(i)'
  <2>1. MessageOK(i)
    BY DEF PipelineInv, StreamInv
  <2>2. Indexed(i) => Indexed(i)'
    BY <1>2, KeepsIndexed
  <2> QED
    BY <2>1, <2>2 DEF MessageOK
<1> QED
  BY <1>2, <1>3 DEF PipelineInv, StreamInv

\* A failure is counted within the bound.
LEMMA FaultType ==
  ASSUME PipelineInv, NEW kind, Fault(kind) \/ UNCHANGED faults
  PROVE  faults' \in 0 .. MaxFaults
BY PipelineAssumption DEF PipelineInv, Fault, MayFail

-----------------------------------------------------------------------------
(* What a step does to the workers *)

\* A step of one worker keeps what holds of the others.
LEMMA OneWorker ==
  ASSUME PipelineInv, Keeps, NEW w \in Workers, worker'[w] \in WorkerState,
         worker' = [worker EXCEPT ![w] = worker'[w]], HandlerOK(w)'
  PROVE  WorkerInv'
<1>1. worker' \in [Workers -> WorkerState]
      /\ \A v \in Workers : v # w => worker'[v] = worker[v]
  BY DEF PipelineInv, WorkerInv
<1>2. ASSUME NEW v \in Workers, v # w PROVE HandlerOK(v)'
  BY <1>1, <1>2, KeepsHandler
<1> QED
  BY <1>1, <1>2 DEF WorkerInv

\* A step of no worker.
LEMMA NoWorker ==
  ASSUME PipelineInv, Keeps, UNCHANGED worker
  PROVE  WorkerInv'
<1>1. ASSUME NEW v \in Workers PROVE HandlerOK(v)'
  BY KeepsHandler
<1> QED
  BY <1>1 DEF PipelineInv, WorkerInv

-----------------------------------------------------------------------------
(* JetStream *)

\* A delivery: the message waits, so it has a delivery left.
LEMMA DeliverInv ==
  ASSUME PipelineInv, NEW w \in Workers, NEW i \in DOMAIN stream, Deliver(w, i)
  PROVE  PipelineInv'
<1> USE PipelineAssumption
<1>1. stream[i] \in Message /\ MessageOK(i) /\ worker[w] \in WorkerState
      /\ stream \in Seq(Message) /\ i \in Nat /\ worker \in [Workers -> WorkerState]
  BY DEF PipelineInv, StreamInv, WorkerInv
<1>2. stream[i].count \in 0 .. MaxDeliver - 1 /\ stream[i].subject = StageOf[w]
  BY <1>1 DEF MessageOK, Deliver, Message, Counts, SubjectsOf
<1> DEFINE n == stream[i].count + 1
<1>3. n \in Counts /\ n >= stream[i].count
  BY <1>2 DEF Counts
<1>4. /\ stream' = [stream EXCEPT ![i].state = "pending", ![i].count = n]
      /\ worker' = [worker EXCEPT ![w].pc = "handle", ![w].msg = i, ![w].count = n]
  BY DEF Deliver
<1> HIDE DEF n
<1>5. Keeps /\ StreamInv' /\ stream'[i].count = n /\ stream'[i].subject = StageOf[w]
  <2>1. stream'[i].state = "pending" /\ stream'[i].count = n
        /\ stream'[i].subject = stream[i].subject /\ stream'[i].docs = stream[i].docs
        /\ stream'[i].from = stream[i].from
    BY <1>1, <1>4 DEF Message
  <2>2. stream'[i] \in Message /\ stream' = [stream EXCEPT ![i] = stream'[i]]
    BY <1>1, <1>3, <1>4 DEF Message, States
  <2>3. Keeps /\ StreamInv'
    BY <1>3, <2>1, <2>2, EditOK
  <2> QED
    BY <1>2, <2>1, <2>3
<1>6. worker'[w].pc = "handle" /\ worker'[w].msg = i /\ worker'[w].count = n
  BY <1>1, <1>4 DEF WorkerState
<1>7. worker'[w] \in WorkerState /\ worker' = [worker EXCEPT ![w] = worker'[w]]
  <2>1. worker' = [worker EXCEPT ![w] = worker'[w]]
    BY <1>1, <1>4 DEF WorkerState
  <2>2. worker'[w] \in WorkerState
    BY <1>1, <1>3, <1>4 DEF WorkerState
  <2> QED
    BY <2>1, <2>2
<1>8. HandlerOK(w)'
  <2>1. i \in DOMAIN stream' /\ n <= stream'[i].count
    BY <1>3, <1>5 DEF Keeps, Counts
  <2> QED
    BY <1>5, <1>6, <2>1 DEF HandlerOK
<1>9. WorkerInv'
  BY <1>5, <1>7, <1>8, OneWorker
<1> QED
  BY <1>5, <1>9 DEF Deliver, PipelineInv, StopTypeOK

\* A new state for a message, of those its delivery count allows.
LEMMA StateOK ==
  ASSUME PipelineInv, NEW i \in DOMAIN stream, NEW s \in States,
         stream' = [stream EXCEPT ![i].state = s],
         s = "ready" => stream[i].count < MaxDeliver,
         s \in {"termed", "dead"} => stream[i].count = MaxDeliver,
         s = "acked" /\ stream[i].subject = "processed" => Indexed(i)
  PROVE  Keeps /\ StreamInv'
<1> USE PipelineAssumption
<1>1. stream \in Seq(Message) /\ stream[i] \in Message
  BY DEF PipelineInv, StreamInv
<1>2. stream'[i].state = s /\ stream'[i].count = stream[i].count
      /\ stream'[i].subject = stream[i].subject /\ stream'[i].docs = stream[i].docs
      /\ stream'[i].from = stream[i].from
  BY <1>1 DEF Message
<1>3. stream'[i] \in Message /\ stream' = [stream EXCEPT ![i] = stream'[i]]
  BY <1>1 DEF Message
<1>4. stream'[i].count >= stream[i].count
  BY <1>1, <1>2 DEF Message, Counts
<1> QED
  BY <1>2, <1>3, <1>4, EditOK

\* A message is given up when its deliveries are used up, and only then.
LEMMA RedeliverOK ==
  ASSUME PipelineInv, NEW i \in DOMAIN stream, Redeliver(i)
  PROVE  Keeps /\ StreamInv'
<1> USE PipelineAssumption
<1> DEFINE s == IF stream[i].count < MaxDeliver THEN "ready" ELSE "dead"
<1>1. stream[i] \in Message
  BY DEF PipelineInv, StreamInv
<1>2. s = "ready" => stream[i].count < MaxDeliver
  OBVIOUS
<1>3. s = "dead" => stream[i].count = MaxDeliver
  BY <1>1 DEF Message, Counts
<1>4. s \in {"ready", "dead"} /\ s \in States
  BY DEF States
<1>5. stream' = [stream EXCEPT ![i].state = s]
  BY DEF Redeliver
<1> HIDE DEF s
<1> QED
  BY <1>2, <1>3, <1>4, <1>5, StateOK

\* AckWait ends: on a message nobody handles, and on one that takes too long.
LEMMA AckWaitInv ==
  ASSUME PipelineInv, NEW i \in DOMAIN stream, AckWaitOver(i) \/ AckWaitTooShort(i)
  PROVE  PipelineInv'
<1>1. Redeliver(i) /\ UNCHANGED <<worker, subs, draining, stop, rest>>
  BY DEF AckWaitOver, AckWaitTooShort
<1>2. Keeps /\ StreamInv'
  BY <1>1, RedeliverOK
<1>3. WorkerInv'
  BY <1>1, <1>2, NoWorker
<1>4. faults' \in 0 .. MaxFaults
  BY FaultType DEF AckWaitOver, AckWaitTooShort
<1> QED
  BY <1>1, <1>2, <1>3, <1>4 DEF PipelineInv, StopTypeOK

\* A callback settles its message: MessageOK allows it if the message is
\* terminated in its last delivery and acknowledged once it is indexed.
LEMMA FinishInv ==
  ASSUME PipelineInv, NEW w \in Workers, NEW how \in {"acked", "nak", "termed"},
         NEW i \in DOMAIN stream, i = worker[w].msg, Finish(w, how),
         how = "termed" => stream[i].count = MaxDeliver,
         how = "acked" /\ stream[i].subject = "processed" => Indexed(i)
  PROVE  PipelineInv'
<1> USE PipelineAssumption
<1>1. Keeps /\ StreamInv'
  <2>1. CASE UNCHANGED stream
    BY <2>1, StreamUnchanged
  <2>2. CASE Redeliver(i)
    BY <2>2, RedeliverOK
  <2>3. CASE how # "nak" /\ stream' = [stream EXCEPT ![i].state = how]
    <3>1. how \in States /\ how \notin {"ready", "dead"}
      BY <2>3 DEF States
    <3> QED
      BY <2>3, <3>1, StateOK
  <2> QED
    BY <2>1, <2>2, <2>3 DEF Finish, Settles
<1>2. worker \in [Workers -> WorkerState] /\ worker[w] \in WorkerState
  BY DEF PipelineInv, WorkerInv
<1>3. 0 \in Counts
  BY DEF Counts
<1>4. worker' = [worker EXCEPT ![w].pc = "idle", ![w].msg = 0, ![w].count = 0]
  BY DEF Finish
<1>5. worker'[w] \in WorkerState
  BY <1>2, <1>3, <1>4 DEF WorkerState
<1>6. worker' = [worker EXCEPT ![w] = worker'[w]] /\ worker'[w].pc = "idle"
  BY <1>2, <1>4 DEF WorkerState
<1>7. WorkerInv'
  <2>1. HandlerOK(w)'
    BY <1>6 DEF HandlerOK
  <2> QED
    BY <1>1, <1>5, <1>6, <2>1, OneWorker
<1>8. faults' \in 0 .. MaxFaults
  BY FaultType DEF Finish, Settles
<1> QED
  BY <1>1, <1>7, <1>8 DEF Finish, PipelineInv, StopTypeOK

-----------------------------------------------------------------------------
(* The callbacks *)

\* What a callback has decided is what it knows to be allowed.
LEMMA SettleInv ==
  ASSUME PipelineInv, NEW w \in Workers, Settle(w)
  PROVE  PipelineInv'
<1> USE PipelineAssumption
<1>1. PICK i \in DOMAIN stream : i = worker[w].msg
  BY DEF PipelineInv, WorkerInv, HandlerOK, Settle
<1>2. worker[w].pc \in {"acked", "nak", "termed"} /\ Finish(w, worker[w].pc)
  BY DEF Settle
<1>3. /\ stream[i].subject = StageOf[w] /\ worker[w].count <= stream[i].count
      /\ worker[w].pc = "termed" => worker[w].count = MaxDeliver
      /\ worker[w].pc = "acked" /\ StageOf[w] = "processed" => Indexed(i)
  BY <1>1, <1>2 DEF PipelineInv, WorkerInv, HandlerOK
<1>4. stream[i].count \in 0 .. MaxDeliver
  <2>1. stream[i] \in Message
    BY DEF PipelineInv, StreamInv
  <2> QED
    BY <2>1 DEF Message, Counts
<1>5. worker[w].pc = "termed" => stream[i].count = MaxDeliver
  BY <1>3, <1>4
<1>6. PICK how \in {"acked", "nak", "termed"} : how = worker[w].pc
  BY <1>2
<1> QED
  BY <1>1, <1>2, <1>3, <1>5, <1>6, FinishInv

\* An index worker acknowledges its message, which is no "processed" event.
LEMMA HandleIndexedInv ==
  ASSUME PipelineInv, NEW w \in Workers, HandleIndexed(w)
  PROVE  PipelineInv'
<1>1. PICK i \in DOMAIN stream : i = worker[w].msg
  BY DEF PipelineInv, WorkerInv, HandlerOK, HandleIndexed
<1>2. stream[i].subject = "indexed"
  BY <1>1 DEF PipelineInv, WorkerInv, HandlerOK, HandleIndexed
<1> QED
  BY <1>1, <1>2, FinishInv DEF HandleIndexed

\* A callback that goes on with its message, having perhaps published.
LEMMA HandlingInv ==
  ASSUME PipelineInv, NEW w \in Workers, NEW i \in DOMAIN stream, i = worker[w].msg,
         worker[w].pc # "idle", Keeps, StreamInv', worker'[w] \in WorkerState,
         worker' = [worker EXCEPT ![w] = worker'[w]],
         worker'[w].msg = worker[w].msg, worker'[w].count = worker[w].count,
         worker'[w].pc = "termed" => worker[w].count = MaxDeliver,
         worker'[w].pc = "publish" => StageOf[w] = "changed",
         worker'[w].pc = "acked" /\ StageOf[w] = "processed" => Indexed(i)',
         UNCHANGED <<subs, draining, stop, rest>>, faults' \in 0 .. MaxFaults
  PROVE  PipelineInv'
<1>1. stream[i].subject = StageOf[w] /\ worker[w].count <= stream[i].count
  BY DEF PipelineInv, WorkerInv, HandlerOK
<1>2. worker[w].count \in Nat /\ stream[i].count \in Nat /\ stream'[i].count \in Nat
  <2>1. worker[w] \in WorkerState /\ stream[i] \in Message /\ stream'[i] \in Message
    BY DEF PipelineInv, WorkerInv, StreamInv, Keeps
  <2> QED
    BY <2>1 DEF WorkerState, Message, Counts
<1>3. i \in DOMAIN stream' /\ stream'[i].subject = StageOf[w]
      /\ worker[w].count <= stream'[i].count
  BY <1>1, <1>2, SMTT(30) DEF Keeps
<1>4. Indexed(worker[w].msg)' <=> Indexed(i)'
  <2>1. worker'[w].msg = i
    OBVIOUS
  <2> QED
    BY <2>1 DEF Indexed, About
<1>5. HandlerOK(w)'
  BY <1>3, <1>4 DEF HandlerOK
<1>6. WorkerInv'
  BY <1>5, OneWorker
<1> QED
  BY <1>6 DEF PipelineInv, StopTypeOK

\* A callback of a crawl worker that has tried ProcessURL.
LEMMA ProcessURLInv ==
  ASSUME PipelineInv, NEW w \in Workers, ProcessURL(w)
  PROVE  PipelineInv'
<1> USE PipelineAssumption
<1>1. PICK i \in DOMAIN stream : i = worker[w].msg
  BY DEF PipelineInv, WorkerInv, HandlerOK, ProcessURL
<1>2. worker[w] \in WorkerState /\ worker \in [Workers -> WorkerState]
  BY DEF PipelineInv, WorkerInv
<1>3. Keeps /\ StreamInv'
  BY StreamUnchanged DEF ProcessURL
<1>4. /\ worker[w].pc = "handle" /\ StageOf[w] = "changed"
      /\ UNCHANGED <<subs, draining, stop, rest>>
  BY DEF ProcessURL
<1>5. faults' \in 0 .. MaxFaults
  BY FaultType DEF ProcessURL, Fails
<1>6. CASE \E docs \in Found : Publishes(w, docs)
  <2>1. PICK docs \in SUBSET Docs : Publishes(w, docs)
    BY <1>6
  <2>2. PICK pc \in {"acked", "publish"} :
          worker' = [worker EXCEPT ![w].pc = pc, ![w].todo = docs]
    BY <2>1 DEF Publishes
  <2>3. worker'[w] \in WorkerState /\ worker' = [worker EXCEPT ![w] = worker'[w]]
    BY <1>2, <2>2 DEF WorkerState
  <2>4. worker'[w].msg = worker[w].msg /\ worker'[w].count = worker[w].count
        /\ worker'[w].pc = pc
    BY <1>2, <2>2 DEF WorkerState
  <2> QED
    BY <1>1, <1>3, <1>4, <1>5, <2>2, <2>3, <2>4, HandlingInv
<1>7. CASE Settling(w, IF worker[w].count >= MaxDeliver THEN "termed" ELSE "nak")
  <2>1. PICK pc \in {"termed", "nak"} : /\ worker' = [worker EXCEPT ![w].pc = pc]
                                        /\ pc = "termed" => worker[w].count >= MaxDeliver
    BY <1>7 DEF Settling
  <2>2. worker[w].count >= MaxDeliver => worker[w].count = MaxDeliver
    BY <1>2 DEF WorkerState, Counts
  <2>3. worker'[w] \in WorkerState /\ worker' = [worker EXCEPT ![w] = worker'[w]]
    BY <1>2, <2>1 DEF WorkerState
  <2>4. worker'[w].msg = worker[w].msg /\ worker'[w].count = worker[w].count
        /\ worker'[w].pc = pc
    BY <1>2, <2>1 DEF WorkerState
  <2> QED
    BY <1>1, <1>3, <1>4, <1>5, <2>1, <2>2, <2>3, <2>4, HandlingInv
<1> QED
  BY <1>6, <1>7 DEF ProcessURL

\* A crawl worker publishes a document, or fails to.
LEMMA PublishProcessedInv ==
  ASSUME PipelineInv, NEW w \in Workers, PublishProcessed(w)
  PROVE  PipelineInv'
<1> USE PipelineAssumption
<1>1. PICK i \in DOMAIN stream : i = worker[w].msg
  BY DEF PipelineInv, WorkerInv, HandlerOK, PublishProcessed
<1>2. /\ worker[w] \in WorkerState /\ worker \in [Workers -> WorkerState]
      /\ stream[i] \in Message
  BY DEF PipelineInv, WorkerInv, StreamInv
<1>3. worker[w].pc = "publish" /\ StageOf[w] = "changed"
  BY DEF PublishProcessed, PipelineInv, WorkerInv, HandlerOK
<1>4. PICK d \in worker[w].todo :
        /\ worker' = [worker EXCEPT ![w].todo = @ \ {d},
                        ![w].pc = IF worker[w].todo = {d} THEN "acked" ELSE "publish"]
        /\ LET m == New("processed", {d}, Origin(w)) IN
           \/ ~Cancelled /\ stream' = Append(stream, m) /\ UNCHANGED faults
           \/ Fails("publish") /\ Lost(m)
  BY DEF PublishProcessed
<1> DEFINE m == New("processed", {d}, Origin(w))
<1>5. d \in Docs /\ worker[w].todo \in SUBSET Docs
  BY <1>2 DEF WorkerState
<1>6. m \in Message /\ m.state = "ready" /\ m.count = 0 /\ m.docs = {d}
  <2>1. 0 \in Counts /\ "ready" \in States /\ "processed" \in Stages
    BY DEF Counts, States, Stages
  <2>2. Origin(w) \in Nat \ {0}
    BY <1>1, <1>2 DEF Origin, Message
  <2> QED
    BY <1>5, <2>1, <2>2 DEF New, Message
<1> HIDE DEF m
<1>7. stream' = Append(stream, m) \/ UNCHANGED stream
  BY <1>4 DEF Lost, m
<1>8. Keeps /\ StreamInv'
  BY <1>5, <1>6, <1>7, AppendOK, StreamUnchanged
<1>9. PICK pc \in {"acked", "publish"} :
        worker' = [worker EXCEPT ![w].todo = @ \ {d}, ![w].pc = pc]
  BY <1>4
<1>10. worker'[w] \in WorkerState /\ worker' = [worker EXCEPT ![w] = worker'[w]]
  <2> DEFINE todo == worker[w].todo \ {d}
  <2>1. todo \in SUBSET Docs /\ worker' = [worker EXCEPT ![w].todo = todo, ![w].pc = pc]
    BY <1>5, <1>9
  <2> HIDE DEF todo
  <2> QED
    BY <1>2, <2>1 DEF WorkerState
<1>11. worker'[w].msg = worker[w].msg /\ worker'[w].count = worker[w].count
       /\ worker'[w].pc = pc
  BY <1>2, <1>9 DEF WorkerState
<1>12. faults' \in 0 .. MaxFaults
  BY <1>4, FaultType DEF Fails
<1>13. UNCHANGED <<subs, draining, stop, rest>>
  BY DEF PublishProcessed
<1> QED
  BY <1>1, <1>3, <1>8, <1>9, <1>10, <1>11, <1>12, <1>13, HandlingInv

\* A process worker acknowledges only after its publication has succeeded, which
\* put the "indexed" event of its message into the stream.
LEMMA PublishIndexedInv ==
  ASSUME PipelineInv, NEW w \in Workers, PublishIndexed(w)
  PROVE  PipelineInv'
<1> USE PipelineAssumption
<1>1. PICK i \in DOMAIN stream : i = worker[w].msg
  BY DEF PipelineInv, WorkerInv, HandlerOK, PublishIndexed
<1>2. /\ worker[w] \in WorkerState /\ worker \in [Workers -> WorkerState]
      /\ stream[i] \in Message
  BY DEF PipelineInv, WorkerInv, StreamInv
<1>3. /\ worker[w].pc = "handle" /\ StageOf[w] = "processed"
      /\ stream[i].subject = "processed"
  BY <1>1 DEF PublishIndexed, PipelineInv, WorkerInv, HandlerOK
<1>4. PICK d \in Docs : stream[i].docs = {d}
  BY <1>3 DEF PipelineInv, StreamInv, MessageOK
<1> DEFINE m == New("indexed", stream[i].docs, stream[i].from)
<1>5. /\ m \in Message /\ m.state = "ready" /\ m.count = 0 /\ m.subject = "indexed"
      /\ m.docs = {d} /\ m.from = stream[i].from
  <2>1. 0 \in Counts /\ "ready" \in States /\ "indexed" \in Stages
    BY DEF Counts, States, Stages
  <2> QED
    BY <1>2, <1>4, <2>1 DEF New, Message
<1>6. \/ ~Cancelled /\ stream' = Append(stream, m) /\ Settling(w, "acked") /\ UNCHANGED faults
      \/ Fails("publish") /\ Lost(m) /\ Settling(w, "nak")
  BY <1>1 DEF PublishIndexed, Origin
<1> HIDE DEF m
<1>7. Keeps /\ StreamInv'
  BY <1>5, <1>6, AppendOK, StreamUnchanged DEF Lost
<1>8. PICK pc \in {"acked", "nak"} : /\ worker' = [worker EXCEPT ![w].pc = pc]
                                     /\ pc = "acked" => stream' = Append(stream, m)
  BY <1>6 DEF Settling
<1>9. worker'[w] \in WorkerState /\ worker' = [worker EXCEPT ![w] = worker'[w]]
  BY <1>2, <1>8 DEF WorkerState
<1>10. worker'[w].msg = worker[w].msg /\ worker'[w].count = worker[w].count
       /\ worker'[w].pc = pc
  BY <1>2, <1>8 DEF WorkerState
<1>11. pc = "acked" => Indexed(i)'
  <2>1. SUFFICES ASSUME pc = "acked" PROVE Indexed(i)'
    OBVIOUS
  <2>2. Len(stream) + 1 \in DOMAIN stream' /\ stream'[Len(stream) + 1] = m
    BY <1>5, <1>8, <2>1, AppendOK
  <2>3. stream'[i].docs = {d} /\ stream'[i].from = stream[i].from
    BY <1>4, <1>7 DEF Keeps
  <2> QED
    BY <1>5, <2>2, <2>3 DEF Indexed, About
<1>12. faults' \in 0 .. MaxFaults
  BY <1>6, FaultType DEF Fails
<1>13. UNCHANGED <<subs, draining, stop, rest>>
  BY DEF PublishIndexed
<1> QED
  BY <1>1, <1>3, <1>7, <1>8, <1>9, <1>10, <1>11, <1>12, <1>13, HandlingInv

-----------------------------------------------------------------------------
(* The other steps *)

\* A worker subscribes and stores its subscription; its callback may run already.
LEMMA RunStepInv ==
  ASSUME PipelineInv, NEW w \in Workers, RunStep(w)
  PROVE  PipelineInv'
<1>1. /\ worker[w] \in WorkerState /\ worker \in [Workers -> WorkerState]
      /\ subs \in SUBSET Workers /\ worker[w].view \in SUBSET Workers
  BY DEF PipelineInv, WorkerInv, StopTypeOK, WorkerState
<1>2. Keeps /\ StreamInv'
  BY StreamUnchanged DEF RunStep, Subscribe, StoreSubs
<1>3. PICK run \in {"storing", "serving", "ended"}, view \in SUBSET Workers :
        worker' = [worker EXCEPT ![w].run = run, ![w].view = view]
  <2>1. CASE worker' = [worker EXCEPT ![w].run = "ended"]
    <3>1. worker' = [worker EXCEPT ![w].run = "ended", ![w].view = worker[w].view]
      BY <1>1, <2>1 DEF WorkerState
    <3> QED
      BY <1>1, <3>1
  <2>2. CASE worker' # [worker EXCEPT ![w].run = "ended"]
    BY <1>1, <2>2 DEF RunStep, Subscribe, StoreSubs
  <2> QED
    BY <2>1, <2>2
<1>4. worker'[w] \in WorkerState /\ worker' = [worker EXCEPT ![w] = worker'[w]]
  BY <1>1, <1>3 DEF WorkerState
<1>5. worker'[w].pc = worker[w].pc /\ worker'[w].msg = worker[w].msg
      /\ worker'[w].count = worker[w].count
  BY <1>1, <1>3 DEF WorkerState
<1>6. HandlerOK(w)'
  BY <1>2, <1>5, KeepsHandler
<1>7. WorkerInv'
  BY <1>2, <1>4, <1>6, OneWorker
<1>8. StopTypeOK'
  <2>1. subs' \in SUBSET Workers
    BY <1>1 DEF RunStep, Subscribe, StoreSubs
  <2> QED
    BY <2>1 DEF RunStep, Subscribe, StoreSubs, PipelineInv, StopTypeOK
<1>9. faults' \in 0 .. MaxFaults
  BY FaultType DEF RunStep, Subscribe, StoreSubs
<1> QED
  BY <1>2, <1>7, <1>8, <1>9 DEF PipelineInv

\* Stop reads the subscriptions, drains them and waits.
LEMMA StopInv ==
  ASSUME PipelineInv,
         \/ StopCancel \/ StopRange \/ StopReturn \/ StopTimeout
         \/ \E w \in Workers : StopDrain(w)
  PROVE  PipelineInv'
<1>1. UNCHANGED <<stream, worker, subs, faults>>
  BY DEF StopCancel, StopRange, StopReturn, StopTimeout, StopDrain
<1>2. Keeps /\ StreamInv' /\ WorkerInv'
  BY <1>1, StreamUnchanged, NoWorker
<1>3. StopTypeOK'
  BY <1>1 DEF StopCancel, StopRange, StopReturn, StopTimeout, StopDrain, PipelineInv, StopTypeOK
<1> QED
  BY <1>1, <1>2, <1>3 DEF PipelineInv

\* A change is published.
LEMMA ChangeInv ==
  ASSUME PipelineInv, Change
  PROVE  PipelineInv'
<1> USE PipelineAssumption
<1> DEFINE m == New("changed", {}, Len(stream) + 1)
<1>1. m \in Message /\ m.state = "ready" /\ m.count = 0 /\ m.subject = "changed"
  <2>1. 0 \in Counts /\ "ready" \in States /\ "changed" \in Stages
    BY DEF Counts, States, Stages
  <2>2. Len(stream) + 1 \in Nat \ {0}
    BY DEF PipelineInv, StreamInv
  <2> QED
    BY <2>1, <2>2 DEF New, Message
<1>2. stream' = Append(stream, m) /\ UNCHANGED <<worker, subs, draining, stop, rest, faults>>
  BY DEF Change
<1> HIDE DEF m
<1>3. Keeps /\ StreamInv'
  BY <1>1, <1>2, AppendOK
<1>4. WorkerInv'
  BY <1>2, <1>3, NoWorker
<1> QED
  BY <1>2, <1>3, <1>4 DEF PipelineInv, StopTypeOK

\* The workers a start makes handle nothing.
LEMMA StartedOK == Started \in [Workers -> WorkerState]
                   /\ \A w \in Workers : Started[w].pc = "idle"
<1>1. 0 \in Counts
  BY PipelineAssumption DEF Counts
<1> QED
  BY <1>1 DEF Started, WorkerState

\* A crash forgets what the callbacks were doing; the stream remains.
LEMMA CrashInv ==
  ASSUME PipelineInv, Crash
  PROVE  PipelineInv'
<1>1. /\ UNCHANGED <<stream, draining, stop, rest>>
      /\ worker' = Started /\ subs' = Workers \ Late
  BY DEF Crash
<1>2. Keeps /\ StreamInv'
  BY <1>1, StreamUnchanged
<1>3. WorkerInv'
  BY <1>1, StartedOK DEF WorkerInv, HandlerOK
<1>4. faults' \in 0 .. MaxFaults
  BY FaultType DEF Crash
<1> QED
  BY <1>1, <1>2, <1>3, <1>4 DEF PipelineInv, StopTypeOK

-----------------------------------------------------------------------------
(* The theorems *)

\* At the start the streams are empty and nothing is handled.
LEMMA InvInit == Init => PipelineInv
<1> SUFFICES ASSUME Init PROVE PipelineInv
  OBVIOUS
<1>1. StreamInv
  BY DEF Init, StreamInv
<1>2. WorkerInv
  BY StartedOK DEF Init, WorkerInv, HandlerOK
<1>3. faults \in 0 .. MaxFaults
  BY PipelineAssumption DEF Init
<1> QED
  BY <1>1, <1>2, <1>3 DEF Init, PipelineInv, StopTypeOK

\* Every step keeps the invariant.
LEMMA InvNext == PipelineInv /\ [Next]_vars => PipelineInv'
<1> SUFFICES ASSUME PipelineInv, [Next]_vars PROVE PipelineInv'
  OBVIOUS
<1>1. ASSUME NEW w \in Workers, CallbackStep(w) PROVE PipelineInv'
  BY <1>1, ProcessURLInv, PublishProcessedInv, PublishIndexedInv, HandleIndexedInv,
     SettleInv DEF CallbackStep
<1>2. ASSUME NEW w \in Workers, NEW i \in DOMAIN stream, Deliver(w, i) PROVE PipelineInv'
  BY <1>2, DeliverInv
<1>3. ASSUME NEW i \in DOMAIN stream, AckWaitOver(i) \/ AckWaitTooShort(i)
      PROVE  PipelineInv'
  BY <1>3, AckWaitInv
<1>4. CASE UNCHANGED vars
  BY <1>4, StreamUnchanged, NoWorker DEF vars, PipelineInv, StopTypeOK
<1> QED
  BY <1>1, <1>2, <1>3, <1>4, RunStepInv, StopInv, ChangeInv, CrashInv DEF Next

\* The types, and with them the delivery counts, hold for ever.
THEOREM PipelineTypeCorrect == Spec => []TypeOK
<1>1. PipelineInv => TypeOK
  BY DEF PipelineInv, StreamInv, WorkerInv, StopTypeOK, TypeOK
<1> QED
  BY <1>1, InvInit, InvNext, PTL DEF Spec

\* The acknowledgement of a "processed" event never loses its document, for any
\* number of workers of a stage, whatever fails, and under Stop and crashes.
THEOREM NoIndexLost == Spec => []AckedIsIndexed
<1>1. PipelineInv => AckedIsIndexed
  BY DEF PipelineInv, StreamInv, MessageOK, Indexed, AckedIsIndexed
<1> QED
  BY <1>1, InvInit, InvNext, PTL DEF Spec

\* Neither a handler nor the consumer gives a message up before its MaxDeliver
\* deliveries, although handlers decide by the count they were delivered with.
THEOREM GivenUpAtLimit == Spec => []GivenUpOnlyAtLimit
<1>1. PipelineInv => GivenUpOnlyAtLimit
  BY DEF PipelineInv, StreamInv, MessageOK, GivenUpOnlyAtLimit
<1> QED
  BY <1>1, InvInit, InvNext, PTL DEF Spec

-----------------------------------------------------------------------------
(* As long as nothing fails *)

Calm == faults = 0 /\ stop = "running"

Handles(w, i) == worker[w].pc # "idle" /\ worker[w].msg = i

\* A message is with one callback from its only delivery to its acknowledgement.
HandledOnce ==
    /\ \A w \in Workers : worker[w].pc # "idle" =>
         /\ worker[w].pc \in {"handle", "publish", "acked"}
         /\ stream[worker[w].msg].state = "pending"
    /\ \A i \in DOMAIN stream, w, v \in Workers : Handles(w, i) /\ Handles(v, i) => w = v
    /\ \A i \in DOMAIN stream :
         stream[i].state = "pending" => \E w \in Workers : Handles(w, i)

\* The callback of change i has published what it had to about these documents,
\* and the one of the "processed" event k has published its "indexed" event.
Published(i, docs) ==
    \/ stream[i].state = "acked"
    \/ \E w \in Workers : /\ Handles(w, i) /\ worker[w].pc \in {"publish", "acked"}
                          /\ docs \cap worker[w].todo = {}
Forwarded(k) ==
    \/ stream[k].state = "acked"
    \/ \E w \in Workers : Handles(w, k) /\ worker[w].pc = "acked"

\* Where the events come from.
Sources ==
    /\ \A i \in DOMAIN stream : stream[i].subject = "changed" => stream[i].from = i
    /\ \A j \in DOMAIN stream : stream[j].subject = "processed" =>
         /\ stream[j].from \in DOMAIN stream /\ stream[stream[j].from].subject = "changed"
         /\ Published(stream[j].from, stream[j].docs)
    /\ \A j \in DOMAIN stream : stream[j].subject = "indexed" =>
         \E k \in DOMAIN stream :
            /\ stream[k].subject = "processed" /\ stream[k].docs = stream[j].docs
            /\ stream[k].from = stream[j].from /\ Forwarded(k)

Same(j, k) ==
    /\ stream[j].subject = stream[k].subject /\ stream[j].docs = stream[k].docs
    /\ stream[j].from = stream[k].from

\* No event about a document of a change is published twice.
Single == \A j, k \in DOMAIN stream : stream[j].subject # "changed" /\ Same(j, k) => j = k

CalmInv == Calm => HandledOnce /\ Sources /\ Single

\* A delivery: nobody has the message, so nothing comes from it yet.
LEMMA DeliverCalm ==
  ASSUME PipelineInv, HandledOnce, Sources, Single,
         NEW w \in Workers, NEW i \in DOMAIN stream, Deliver(w, i)
  PROVE  (HandledOnce /\ Sources /\ Single)'
<1>1. /\ stream \in Seq(Message) /\ worker \in [Workers -> WorkerState]
      /\ stream[i] \in Message /\ worker[w] \in WorkerState
  BY DEF PipelineInv, StreamInv, WorkerInv
<1>2. /\ stream[i].state = "ready" /\ worker[w].pc = "idle"
      /\ stream' = [stream EXCEPT ![i].state = "pending", ![i].count = @ + 1]
      /\ worker' = [worker EXCEPT ![w].pc = "handle", ![w].msg = i,
                                  ![w].count = stream[i].count + 1]
  BY DEF Deliver
<1>3. /\ DOMAIN stream' = DOMAIN stream
      /\ \A j \in DOMAIN stream \ {i} : stream'[j] = stream[j]
      /\ stream'[i].subject = stream[i].subject /\ stream'[i].docs = stream[i].docs
      /\ stream'[i].from = stream[i].from /\ stream'[i].state = "pending"
  BY <1>1, <1>2 DEF Message
<1>4. /\ \A v \in Workers \ {w} : worker'[v] = worker[v]
      /\ worker'[w].pc = "handle" /\ worker'[w].msg = i
  BY <1>1, <1>2 DEF WorkerState
<1>5. \A v \in Workers : ~Handles(v, i)
  BY <1>2 DEF HandledOnce, Handles
<1>6. \A v \in Workers, j \in DOMAIN stream : Handles(v, j)' <=> Handles(v, j) \/ (v = w /\ j = i)
  BY <1>2, <1>4 DEF Handles
<1>7. HandledOnce'
  <2>1. \A v \in Workers : worker'[v].pc # "idle" =>
           /\ worker'[v].pc \in {"handle", "publish", "acked"}
           /\ stream'[worker'[v].msg].state = "pending"
    <3>1. \A v \in Workers \ {w} : worker[v].pc # "idle" => worker[v].msg \in DOMAIN stream \ {i}
      BY <1>5 DEF PipelineInv, WorkerInv, HandlerOK, Handles
    <3> QED
      BY <1>3, <1>4, <3>1 DEF HandledOnce
  <2>2. \A j \in DOMAIN stream, u, v \in Workers : (Handles(u, j) /\ Handles(v, j) => u = v)'
    BY <1>5, <1>6 DEF HandledOnce
  <2>3. \A j \in DOMAIN stream : stream'[j].state = "pending" => \E v \in Workers : Handles(v, j)'
    BY <1>3, <1>6 DEF HandledOnce
  <2> QED
    BY <1>3, <2>1, <2>2, <2>3 DEF HandledOnce
<1>8. ASSUME NEW f \in DOMAIN stream, NEW docs, Published(f, docs) PROVE Published(f, docs)'
  <2>1. f # i
    BY <1>2, <1>5, <1>8 DEF Published
  <2>2. CASE stream[f].state = "acked"
    BY <1>3, <2>1, <2>2 DEF Published
  <2>3. ASSUME NEW v \in Workers, Handles(v, f), worker[v].pc \in {"publish", "acked"},
               docs \cap worker[v].todo = {}
        PROVE  Published(f, docs)'
    BY <1>2, <1>4, <1>6, <2>3 DEF Published
  <2> QED
    BY <1>8, <2>2, <2>3 DEF Published
<1>9. ASSUME NEW k \in DOMAIN stream, Forwarded(k) PROVE Forwarded(k)'
  <2>1. k # i
    BY <1>2, <1>5, <1>9 DEF Forwarded
  <2> QED
    BY <1>2, <1>3, <1>4, <1>6, <1>9, <2>1, ZenonT(30) DEF Forwarded
<1>10. \A j \in DOMAIN stream : /\ stream'[j].subject = stream[j].subject
                                /\ stream'[j].docs = stream[j].docs
                                /\ stream'[j].from = stream[j].from
  BY <1>3
<1>11. Sources'
  BY <1>3, <1>8, <1>9, <1>10 DEF Sources
<1>12. Single'
  BY <1>3, <1>10 DEF Single, Same
<1> QED
  BY <1>7, <1>11, <1>12

\* A callback of a crawl worker has its documents and publishes nothing yet.
LEMMA ProcessURLCalm ==
  ASSUME PipelineInv, Calm, Calm', HandledOnce, Sources, Single,
         NEW w \in Workers, ProcessURL(w)
  PROVE  (HandledOnce /\ Sources /\ Single)'
<1>1. PICK docs \in Found : Publishes(w, docs) /\ stream' = stream /\ worker[w].pc = "handle"
  BY DEF ProcessURL, Fails, Fault, Cancelled, Calm
<1>2. worker[w] \in WorkerState /\ worker \in [Workers -> WorkerState]
  BY DEF PipelineInv, WorkerInv
<1>3. PICK pc \in {"acked", "publish"} :
        worker' = [worker EXCEPT ![w].pc = pc, ![w].todo = docs]
  BY <1>1 DEF Publishes
<1>4. /\ \A v \in Workers \ {w} : worker'[v] = worker[v]
      /\ worker'[w].pc \in {"acked", "publish"} /\ worker'[w].msg = worker[w].msg
  BY <1>2, <1>3 DEF WorkerState
<1>5. \A v \in Workers : \A j : Handles(v, j)' <=> Handles(v, j)
  BY <1>1, <1>4 DEF Handles
<1>6. HandledOnce'
  BY <1>1, <1>4, <1>5 DEF HandledOnce
<1>7. \A f \in DOMAIN stream : \A D : Published(f, D) => Published(f, D)'
  BY <1>1, <1>4, <1>5 DEF Published
<1>8. \A k \in DOMAIN stream : Forwarded(k) => Forwarded(k)'
  BY <1>1, <1>4, <1>5 DEF Forwarded
<1> QED
  BY <1>1, <1>6, <1>7, <1>8 DEF Sources, Single, Same

\* A publication that succeeds adds a message that nobody has.
LEMMA AppendCalm ==
  ASSUME PipelineInv, HandledOnce, NEW m \in Message, m.state = "ready",
         stream' = Append(stream, m),
         \A v \in Workers : /\ worker'[v].msg = worker[v].msg
                            /\ worker'[v].pc = "idle" <=> worker[v].pc = "idle"
                            /\ worker'[v].pc \in {"idle", "handle", "publish", "acked"}
  PROVE  /\ HandledOnce'
         /\ DOMAIN stream' = DOMAIN stream \cup {Len(stream) + 1}
         /\ Len(stream) + 1 \notin DOMAIN stream /\ stream'[Len(stream) + 1] = m
         /\ \A j \in DOMAIN stream : stream'[j] = stream[j]
         /\ \A v \in Workers, j \in DOMAIN stream : Handles(v, j)' <=> Handles(v, j)
<1>1. stream \in Seq(Message)
  BY DEF PipelineInv, StreamInv
<1>2. /\ DOMAIN stream' = DOMAIN stream \cup {Len(stream) + 1}
      /\ Len(stream) + 1 \notin DOMAIN stream /\ stream'[Len(stream) + 1] = m
      /\ \A j \in DOMAIN stream : stream'[j] = stream[j]
  BY <1>1
<1>3. \A v \in Workers : \A j : Handles(v, j)' <=> Handles(v, j)
  BY DEF Handles
<1>4. \A v \in Workers : \A j : Handles(v, j) => j \in DOMAIN stream
  BY DEF Handles, PipelineInv, WorkerInv, HandlerOK
<1>5. HandledOnce'
  <2>1. \A v \in Workers : worker'[v].pc # "idle" =>
           /\ worker'[v].pc \in {"handle", "publish", "acked"}
           /\ stream'[worker'[v].msg].state = "pending"
    BY <1>2, <1>4 DEF HandledOnce, Handles
  <2>2. \A j \in DOMAIN stream', u, v \in Workers : (Handles(u, j) /\ Handles(v, j) => u = v)'
    BY <1>3, <1>4 DEF HandledOnce
  <2>3. \A j \in DOMAIN stream' :
          stream'[j].state = "pending" => \E v \in Workers : Handles(v, j)'
    BY <1>2, <1>3 DEF HandledOnce
  <2> QED
    BY <2>1, <2>2, <2>3 DEF HandledOnce
<1> QED
  BY <1>2, <1>3, <1>5

\* A crawl worker publishes a document it has not published before.
LEMMA PublishProcessedCalm ==
  ASSUME PipelineInv, Calm, Calm', HandledOnce, Sources, Single,
         NEW w \in Workers, PublishProcessed(w)
  PROVE  (HandledOnce /\ Sources /\ Single)'
<1>1. PICK i \in DOMAIN stream : i = worker[w].msg
  BY DEF PipelineInv, WorkerInv, HandlerOK, PublishProcessed
<1>2. /\ worker[w] \in WorkerState /\ worker \in [Workers -> WorkerState]
      /\ stream \in Seq(Message) /\ stream[i] \in Message
  BY DEF PipelineInv, WorkerInv, StreamInv
<1>3. /\ worker[w].pc = "publish" /\ stream[i].subject = "changed"
      /\ Handles(w, i) /\ stream[i].from = i /\ stream[i].state = "pending"
  BY <1>1 DEF PublishProcessed, PipelineInv, WorkerInv, HandlerOK, HandledOnce, Handles,
     Sources
<1> DEFINE m(d) == New("processed", {d}, i)
           n == Len(stream) + 1
<1>4. PICK d \in worker[w].todo :
        /\ worker' = [worker EXCEPT ![w].todo = @ \ {d},
                        ![w].pc = IF worker[w].todo = {d} THEN "acked" ELSE "publish"]
        /\ stream' = Append(stream, m(d))
  <2>1. ~Fails("publish")
    BY DEF Fails, Fault, Cancelled, Calm
  <2>2. Origin(w) = i
    BY <1>1, <1>3 DEF Origin
  <2> QED
    BY <2>1, <2>2 DEF PublishProcessed
<1>5. PICK pc \in {"acked", "publish"} :
        worker' = [worker EXCEPT ![w].todo = @ \ {d}, ![w].pc = pc]
  BY <1>4
<1>6. /\ \A v \in Workers \ {w} : worker'[v] = worker[v]
      /\ worker'[w].pc \in {"acked", "publish"} /\ worker'[w].msg = worker[w].msg
      /\ worker'[w].todo = worker[w].todo \ {d}
  BY <1>2, <1>5 DEF WorkerState
<1>7. /\ m(d) \in Message /\ m(d).state = "ready" /\ m(d).subject = "processed"
      /\ m(d).docs = {d} /\ m(d).from = i
  <2>1. 0 \in Counts /\ "ready" \in States /\ "processed" \in Stages /\ {d} \in SUBSET Docs
    BY <1>2, PipelineAssumption DEF Counts, States, Stages, WorkerState
  <2>2. i \in Nat \ {0}
    BY <1>2
  <2> QED
    BY <2>1, <2>2 DEF New, Message
<1>8. /\ HandledOnce' /\ DOMAIN stream' = DOMAIN stream \cup {n} /\ n \notin DOMAIN stream
      /\ stream'[n].subject = "processed" /\ stream'[n].docs = {d} /\ stream'[n].from = i
      /\ \A j \in DOMAIN stream : stream'[j] = stream[j]
      /\ \A v \in Workers, j \in DOMAIN stream : Handles(v, j)' <=> Handles(v, j)
  <2>1. \A v \in Workers : /\ worker'[v].msg = worker[v].msg
                           /\ worker'[v].pc = "idle" <=> worker[v].pc = "idle"
                           /\ worker'[v].pc \in {"idle", "handle", "publish", "acked"}
    BY <1>3, <1>6 DEF HandledOnce
  <2> HIDE DEF m
  <2> QED
    BY <1>4, <1>7, <2>1, AppendCalm
<1> HIDE DEF m, n
<1>9. \A f \in DOMAIN stream : \A D : Published(f, D) => Published(f, D)'
  <2>1. \A v \in Workers : worker[v].pc \in {"publish", "acked"} =>
           worker'[v].pc \in {"publish", "acked"} /\ worker'[v].todo \subseteq worker[v].todo
    BY <1>6
  <2> QED
    BY <1>8, <2>1 DEF Published
<1>10. \A k \in DOMAIN stream : Forwarded(k) => Forwarded(k)'
  BY <1>3, <1>6, <1>8 DEF Forwarded
<1>11. Published(i, {d})'
  BY <1>3, <1>6, <1>8 DEF Published
<1>12. ASSUME NEW k \in DOMAIN stream, stream[k].subject = "processed",
              stream[k].docs = {d}, stream[k].from = i
       PROVE  FALSE
  <2>1. Published(i, {d})
    BY <1>12 DEF Sources
  <2>2. PICK v \in Workers : Handles(v, i) /\ {d} \cap worker[v].todo = {}
    BY <1>3, <2>1 DEF Published
  <2>3. v = w
    BY <1>3, <2>2 DEF HandledOnce
  <2> QED
    BY <1>4, <2>2, <2>3
<1>13. Sources'
  <2>1. \A j \in DOMAIN stream' : stream'[j].subject = "changed" => stream'[j].from = j
    BY <1>8 DEF Sources
  <2>2. ASSUME NEW j \in DOMAIN stream', stream'[j].subject = "processed"
        PROVE  /\ stream'[j].from \in DOMAIN stream'
               /\ stream'[stream'[j].from].subject = "changed"
               /\ (Published(stream[j].from, stream[j].docs))'
    <3>1. CASE j = n
      BY <1>3, <1>8, <1>11, <3>1
    <3>2. CASE j \in DOMAIN stream
      BY <1>8, <1>9, <2>2, <3>2 DEF Sources
    <3> QED
      BY <1>8, <3>1, <3>2
  <2>3. ASSUME NEW j \in DOMAIN stream', stream'[j].subject = "indexed"
        PROVE  \E k \in DOMAIN stream' :
                 /\ stream'[k].subject = "processed" /\ stream'[k].docs = stream'[j].docs
                 /\ stream'[k].from = stream'[j].from /\ Forwarded(k)'
    BY <1>8, <1>10, <2>3 DEF Sources
  <2> QED
    BY <2>1, <2>2, <2>3 DEF Sources
<1>14. Single'
  BY <1>8, <1>12 DEF Single, Same
<1> QED
  BY <1>8, <1>13, <1>14

\* A process worker publishes for a document it has not published for before.
LEMMA PublishIndexedCalm ==
  ASSUME PipelineInv, Calm, Calm', HandledOnce, Sources, Single,
         NEW w \in Workers, PublishIndexed(w)
  PROVE  (HandledOnce /\ Sources /\ Single)'
<1>1. PICK i \in DOMAIN stream : i = worker[w].msg
  BY DEF PipelineInv, WorkerInv, HandlerOK, PublishIndexed
<1>2. /\ worker[w] \in WorkerState /\ worker \in [Workers -> WorkerState]
      /\ stream \in Seq(Message) /\ stream[i] \in Message
  BY DEF PipelineInv, WorkerInv, StreamInv
<1>3. /\ worker[w].pc = "handle" /\ stream[i].subject = "processed"
      /\ Handles(w, i) /\ stream[i].state = "pending"
  BY <1>1 DEF PublishIndexed, PipelineInv, WorkerInv, HandlerOK, HandledOnce, Handles
<1> DEFINE m == New("indexed", stream[i].docs, stream[i].from)
           n == Len(stream) + 1
<1>4. worker' = [worker EXCEPT ![w].pc = "acked"] /\ stream' = Append(stream, m)
  <2>1. ~Fails("publish")
    BY DEF Fails, Fault, Cancelled, Calm
  <2> QED
    BY <1>1, <2>1 DEF PublishIndexed, Origin, Settling
<1>5. /\ \A v \in Workers \ {w} : worker'[v] = worker[v]
      /\ worker'[w].pc = "acked" /\ worker'[w].msg = worker[w].msg
  BY <1>2, <1>4 DEF WorkerState
<1>6. /\ m \in Message /\ m.state = "ready" /\ m.subject = "indexed"
      /\ m.docs = stream[i].docs /\ m.from = stream[i].from
  <2>1. 0 \in Counts /\ "ready" \in States /\ "indexed" \in Stages
    BY PipelineAssumption DEF Counts, States, Stages
  <2> QED
    BY <1>2, <2>1 DEF New, Message
<1>7. /\ HandledOnce' /\ DOMAIN stream' = DOMAIN stream \cup {n} /\ n \notin DOMAIN stream
      /\ stream'[n].subject = "indexed" /\ stream'[n].docs = stream[i].docs
      /\ stream'[n].from = stream[i].from
      /\ \A j \in DOMAIN stream : stream'[j] = stream[j]
      /\ \A v \in Workers, j \in DOMAIN stream : Handles(v, j)' <=> Handles(v, j)
  <2>1. \A v \in Workers : /\ worker'[v].msg = worker[v].msg
                           /\ worker'[v].pc = "idle" <=> worker[v].pc = "idle"
                           /\ worker'[v].pc \in {"idle", "handle", "publish", "acked"}
    BY <1>3, <1>5 DEF HandledOnce
  <2> HIDE DEF m
  <2> QED
    BY <1>4, <1>6, <2>1, AppendCalm
<1> HIDE DEF m, n
<1>8. \A f \in DOMAIN stream : \A D : Published(f, D) => Published(f, D)'
  BY <1>3, <1>5, <1>7 DEF Published
<1>9. \A k \in DOMAIN stream : Forwarded(k) => Forwarded(k)'
  BY <1>3, <1>5, <1>7 DEF Forwarded
<1>10. Forwarded(i)'
  BY <1>3, <1>5, <1>7 DEF Forwarded
<1>11. ASSUME NEW k \in DOMAIN stream, stream[k].subject = "indexed",
              stream[k].docs = stream[i].docs, stream[k].from = stream[i].from
       PROVE  FALSE
  <2>1. PICK j \in DOMAIN stream :
           /\ stream[j].subject = "processed" /\ stream[j].docs = stream[k].docs
           /\ stream[j].from = stream[k].from /\ Forwarded(j)
    BY <1>11 DEF Sources
  <2>2. j = i
    BY <1>3, <1>11, <2>1 DEF Single, Same
  <2>3. PICK v \in Workers : Handles(v, i) /\ worker[v].pc = "acked"
    BY <1>3, <2>1, <2>2 DEF Forwarded
  <2>4. v = w
    BY <1>3, <2>3 DEF HandledOnce
  <2> QED
    BY <1>3, <2>3, <2>4
<1>12. Sources'
  <2>1. \A j \in DOMAIN stream' : stream'[j].subject = "changed" => stream'[j].from = j
    BY <1>7 DEF Sources
  <2>2. ASSUME NEW j \in DOMAIN stream', stream'[j].subject = "processed"
        PROVE  /\ stream'[j].from \in DOMAIN stream'
               /\ stream'[stream'[j].from].subject = "changed"
               /\ (Published(stream[j].from, stream[j].docs))'
    BY <1>7, <1>8, <2>2 DEF Sources
  <2>3. ASSUME NEW j \in DOMAIN stream', stream'[j].subject = "indexed"
        PROVE  \E k \in DOMAIN stream' :
                 /\ stream'[k].subject = "processed" /\ stream'[k].docs = stream'[j].docs
                 /\ stream'[k].from = stream'[j].from /\ Forwarded(k)'
    <3>1. CASE j = n
      BY <1>3, <1>7, <1>10, <3>1
    <3>2. CASE j \in DOMAIN stream
      BY <1>7, <1>9, <2>3, <3>2 DEF Sources
    <3> QED
      BY <1>7, <3>1, <3>2
  <2> QED
    BY <2>1, <2>2, <2>3 DEF Sources
<1>13. Single'
  BY <1>7, <1>11 DEF Single, Same
<1> QED
  BY <1>7, <1>12, <1>13

\* A callback acknowledges its message and is free.
LEMMA FinishCalm ==
  ASSUME PipelineInv, Calm, Calm', HandledOnce, Sources, Single,
         NEW w \in Workers, worker[w].pc # "idle", Finish(w, "acked")
  PROVE  (HandledOnce /\ Sources /\ Single)'
<1>1. PICK i \in DOMAIN stream : i = worker[w].msg
  BY DEF PipelineInv, WorkerInv, HandlerOK
<1>2. /\ worker[w] \in WorkerState /\ worker \in [Workers -> WorkerState]
      /\ stream \in Seq(Message) /\ stream[i] \in Message
  BY DEF PipelineInv, WorkerInv, StreamInv
<1>3. stream[i].state = "pending" /\ Handles(w, i)
  BY <1>1 DEF HandledOnce, Handles
<1>4. /\ stream' = [stream EXCEPT ![i].state = "acked"]
      /\ worker' = [worker EXCEPT ![w].pc = "idle", ![w].msg = 0, ![w].count = 0]
  BY <1>1, <1>3 DEF Finish, Settles, Fault, Calm
<1>5. /\ DOMAIN stream' = DOMAIN stream
      /\ \A j \in DOMAIN stream \ {i} : stream'[j] = stream[j]
      /\ stream'[i].subject = stream[i].subject /\ stream'[i].docs = stream[i].docs
      /\ stream'[i].from = stream[i].from /\ stream'[i].state = "acked"
  BY <1>2, <1>4 DEF Message
<1>6. worker'[w].pc = "idle" /\ \A v \in Workers \ {w} : worker'[v] = worker[v]
  BY <1>2, <1>4 DEF WorkerState
<1>7. \A v \in Workers, j \in DOMAIN stream : Handles(v, j)' <=> Handles(v, j) /\ v # w
  BY <1>6 DEF Handles
<1>8. \A v \in Workers, j \in DOMAIN stream : Handles(v, j) /\ v # w => j # i
  BY <1>3 DEF HandledOnce
<1>9. HandledOnce'
  <2>1. \A v \in Workers : worker'[v].pc # "idle" =>
           /\ worker'[v].pc \in {"handle", "publish", "acked"}
           /\ stream'[worker'[v].msg].state = "pending"
    <3>1. \A v \in Workers \ {w} : worker[v].pc # "idle" => worker[v].msg \in DOMAIN stream \ {i}
      BY <1>8 DEF PipelineInv, WorkerInv, HandlerOK, Handles
    <3> QED
      BY <1>5, <1>6, <3>1 DEF HandledOnce
  <2>2. \A j \in DOMAIN stream, u, v \in Workers : (Handles(u, j) /\ Handles(v, j) => u = v)'
    BY <1>7 DEF HandledOnce
  <2>3. \A j \in DOMAIN stream : stream'[j].state = "pending" => \E v \in Workers : Handles(v, j)'
    <3> SUFFICES ASSUME NEW j \in DOMAIN stream, stream'[j].state = "pending"
                 PROVE  \E v \in Workers : Handles(v, j)'
      OBVIOUS
    <3>1. j # i /\ stream[j].state = "pending"
      BY <1>5
    <3>2. PICK v \in Workers : Handles(v, j)
      BY <3>1 DEF HandledOnce
    <3>3. v # w
      BY <1>1, <3>1, <3>2 DEF Handles
    <3> QED
      BY <1>7, <3>2, <3>3
  <2> QED
    BY <1>5, <2>1, <2>2, <2>3 DEF HandledOnce
<1>10. \A f \in DOMAIN stream : \A D : Published(f, D) => Published(f, D)'
  <2> SUFFICES ASSUME NEW f \in DOMAIN stream, NEW D, Published(f, D) PROVE Published(f, D)'
    OBVIOUS
  <2>1. CASE f = i
    BY <1>5, <2>1 DEF Published
  <2>2. CASE f # i
    BY <1>1, <1>5, <1>6, <1>7, <2>2 DEF Published, Handles
  <2> QED
    BY <2>1, <2>2
<1>11. \A k \in DOMAIN stream : Forwarded(k) => Forwarded(k)'
  <2> SUFFICES ASSUME NEW k \in DOMAIN stream, Forwarded(k) PROVE Forwarded(k)'
    OBVIOUS
  <2>1. CASE k = i
    BY <1>5, <2>1 DEF Forwarded
  <2>2. CASE k # i
    BY <1>1, <1>5, <1>6, <1>7, <2>2 DEF Forwarded, Handles
  <2> QED
    BY <2>1, <2>2
<1>12. \A j \in DOMAIN stream : /\ stream'[j].subject = stream[j].subject
                                /\ stream'[j].docs = stream[j].docs
                                /\ stream'[j].from = stream[j].from
  BY <1>5
<1>13. Sources'
  BY <1>5, <1>10, <1>11, <1>12 DEF Sources
<1>14. Single'
  BY <1>5, <1>12 DEF Single, Same
<1> QED
  BY <1>9, <1>13, <1>14

\* A change comes from itself.
LEMMA ChangeCalm ==
  ASSUME PipelineInv, HandledOnce, Sources, Single, Change
  PROVE  (HandledOnce /\ Sources /\ Single)'
<1> DEFINE n == Len(stream) + 1
           m == New("changed", {}, n)
<1>1. m \in Message /\ m.state = "ready" /\ m.subject = "changed" /\ m.from = n
  <2>1. 0 \in Counts /\ "ready" \in States /\ "changed" \in Stages
    BY PipelineAssumption DEF Counts, States, Stages
  <2>2. n \in Nat \ {0}
    BY DEF PipelineInv, StreamInv
  <2> HIDE DEF n
  <2> QED
    BY <2>1, <2>2 DEF New, Message
<1>2. stream' = Append(stream, m) /\ worker' = worker
  BY DEF Change
<1>3. /\ HandledOnce' /\ DOMAIN stream' = DOMAIN stream \cup {n} /\ n \notin DOMAIN stream
      /\ stream'[n] = m
      /\ \A j \in DOMAIN stream : stream'[j] = stream[j]
      /\ \A v \in Workers, j \in DOMAIN stream : Handles(v, j)' <=> Handles(v, j)
  <2>1. \A v \in Workers : /\ worker'[v].msg = worker[v].msg
                           /\ worker'[v].pc = "idle" <=> worker[v].pc = "idle"
                           /\ worker'[v].pc \in {"idle", "handle", "publish", "acked"}
    BY <1>2 DEF HandledOnce
  <2> HIDE DEF m
  <2> QED
    BY <1>1, <1>2, <2>1, AppendCalm
<1> HIDE DEF m, n
<1>4. \A f \in DOMAIN stream : \A D : Published(f, D) => Published(f, D)'
  BY <1>2, <1>3 DEF Published
<1>5. \A k \in DOMAIN stream : Forwarded(k) => Forwarded(k)'
  BY <1>2, <1>3 DEF Forwarded
<1>6. \A j \in DOMAIN stream' : stream'[j].subject # "changed" => j \in DOMAIN stream
  BY <1>1, <1>3
<1>7. Sources'
  <2>1. \A j \in DOMAIN stream' : stream'[j].subject = "changed" => stream'[j].from = j
    BY <1>1, <1>3 DEF Sources
  <2>2. ASSUME NEW j \in DOMAIN stream', stream'[j].subject = "processed"
        PROVE  /\ stream'[j].from \in DOMAIN stream'
               /\ stream'[stream'[j].from].subject = "changed"
               /\ (Published(stream[j].from, stream[j].docs))'
    BY <1>3, <1>4, <1>6, <2>2 DEF Sources
  <2>3. ASSUME NEW j \in DOMAIN stream', stream'[j].subject = "indexed"
        PROVE  \E k \in DOMAIN stream' :
                 /\ stream'[k].subject = "processed" /\ stream'[k].docs = stream'[j].docs
                 /\ stream'[k].from = stream'[j].from /\ Forwarded(k)'
    BY <1>3, <1>5, <1>6, <2>3 DEF Sources
  <2> QED
    BY <2>1, <2>2, <2>3 DEF Sources
<1>8. Single'
  BY <1>3, <1>6 DEF Single, Same
<1> QED
  BY <1>3, <1>7, <1>8

\* A step that touches neither a message nor a callback.
LEMMA IdleCalm ==
  ASSUME HandledOnce, Sources, Single, UNCHANGED stream,
         \A v \in Workers : /\ worker'[v].pc = worker[v].pc /\ worker'[v].msg = worker[v].msg
                            /\ worker'[v].todo = worker[v].todo
  PROVE  (HandledOnce /\ Sources /\ Single)'
<1>1. \A v \in Workers : \A j : Handles(v, j)' <=> Handles(v, j)
  BY DEF Handles
<1>2. HandledOnce'
  BY <1>1 DEF HandledOnce
<1>3. \A f \in DOMAIN stream : \A D : Published(f, D) => Published(f, D)'
  BY <1>1 DEF Published
<1>4. \A k \in DOMAIN stream : Forwarded(k) => Forwarded(k)'
  BY <1>1 DEF Forwarded
<1> QED
  BY <1>2, <1>3, <1>4 DEF Sources, Single, Same

\* Without a failure before it, every step that is no failure keeps the history of
\* each message.
LEMMA CalmNext == PipelineInv /\ CalmInv /\ [Next]_vars => CalmInv'
<1> SUFFICES ASSUME PipelineInv, CalmInv, [Next]_vars, Calm'
             PROVE  (HandledOnce /\ Sources /\ Single)'
  BY DEF CalmInv
<1>0. faults \in Nat /\ worker \in [Workers -> WorkerState]
  BY PipelineAssumption DEF PipelineInv, WorkerInv
<1>1. \A kind : ~Fault(kind)
  BY <1>0 DEF Fault, Calm
<1>2. stop = "running" /\ faults = 0
  <2>1. faults' = faults \/ \E kind : Fault(kind)
    BY DEF Next, RunStep, CallbackStep, Subscribe, StoreSubs, ProcessURL, PublishProcessed,
       PublishIndexed, HandleIndexed, Settle, Finish, Settles, Fails, Deliver, AckWaitOver,
       AckWaitTooShort, StopCancel, StopRange, StopDrain, StopReturn, StopTimeout, Change,
       Crash, vars
  <2>2. stop' = "running" => stop = "running"
    BY DEF Next, RunStep, CallbackStep, Subscribe, StoreSubs, ProcessURL, PublishProcessed,
       PublishIndexed, HandleIndexed, Settle, Finish, Deliver, AckWaitOver,
       AckWaitTooShort, StopCancel, StopRange, StopDrain, StopReturn, StopTimeout, Change,
       Crash, vars
  <2> QED
    BY <1>1, <2>1, <2>2 DEF Calm
<1>3. Calm /\ HandledOnce /\ Sources /\ Single
  BY <1>2 DEF Calm, CalmInv
<1>4. ASSUME NEW w \in Workers, RunStep(w) PROVE (HandledOnce /\ Sources /\ Single)'
  <2>1. /\ stream' = stream
        /\ \A v \in Workers : /\ worker'[v].pc = worker[v].pc /\ worker'[v].msg = worker[v].msg
                              /\ worker'[v].todo = worker[v].todo
    BY <1>0, <1>1, <1>4 DEF RunStep, Subscribe, StoreSubs, WorkerState
  <2> QED
    BY <1>3, <2>1, IdleCalm
<1>5. ASSUME NEW w \in Workers, HandleIndexed(w) \/ Settle(w)
      PROVE  (HandledOnce /\ Sources /\ Single)'
  <2>1. worker[w].pc # "idle" /\ Finish(w, "acked")
    BY <1>3, <1>5 DEF HandleIndexed, Settle, HandledOnce
  <2> QED
    BY <1>3, <2>1, FinishCalm
<1>6. ASSUME NEW w \in Workers, CallbackStep(w) PROVE (HandledOnce /\ Sources /\ Single)'
  BY <1>3, <1>5, <1>6, ProcessURLCalm, PublishProcessedCalm, PublishIndexedCalm
     DEF CallbackStep
<1>7. ASSUME NEW w \in Workers, NEW i \in DOMAIN stream, Deliver(w, i)
      PROVE  (HandledOnce /\ Sources /\ Single)'
  BY <1>3, <1>7, DeliverCalm
<1>8. ASSUME NEW i \in DOMAIN stream, AckWaitOver(i) \/ AckWaitTooShort(i) PROVE FALSE
  <2>1. stream[i].state = "pending" /\ Handling(i) = {}
    BY <1>1, <1>8 DEF AckWaitOver, AckWaitTooShort
  <2> QED
    BY <1>3, <2>1 DEF HandledOnce, Handling, Handles
<1>9. ASSUME \/ Crash \/ StopCancel \/ StopRange \/ StopReturn \/ StopTimeout
             \/ \E w \in Workers : StopDrain(w)
      PROVE  FALSE
  BY <1>1, <1>2, <1>9
     DEF Crash, StopCancel, StopRange, StopReturn, StopTimeout, StopDrain, Calm
<1>10. CASE UNCHANGED vars
  <2>1. stream' = stream /\ worker' = worker
    BY <1>10 DEF vars
  <2> QED
    BY <1>3, <2>1, IdleCalm
<1> QED
  BY <1>3, <1>4, <1>6, <1>7, <1>8, <1>9, <1>10, ChangeCalm DEF Next

\* Without failures and before Stop, a document of a change is processed and
\* indexed once, whatever the workers of a stage do in parallel.
THEOREM OnceIfCalm == Spec => []OnceWithoutFaults
<1>1. Init => CalmInv
  <2>1. Init => stream = <<>> /\ \A w \in Workers : worker[w].pc = "idle"
    BY StartedOK DEF Init
  <2> QED
    BY <2>1 DEF CalmInv, HandledOnce, Handles, Sources, Single
<1>2. ASSUME PipelineInv, CalmInv PROVE OnceWithoutFaults
  <2> SUFFICES ASSUME Calm, NEW d \in Docs, NEW i \in DOMAIN stream,
                      NEW s \in {"processed", "indexed"}
               PROVE  Cardinality(About(s, d, i)) <= 1
    BY DEF OnceWithoutFaults, Calm
  <2>1. \A j, k \in About(s, d, i) : j = k
    BY <1>2 DEF CalmInv, Single, Same, About
  <2>2. CASE About(s, d, i) = {}
    BY <2>2, FS_EmptySet
  <2>3. ASSUME NEW j \in About(s, d, i) PROVE Cardinality(About(s, d, i)) <= 1
    <3>1. About(s, d, i) = {j}
      BY <2>1, <2>3
    <3>2. Cardinality({j}) = 1
      BY FS_Singleton
    <3> QED
      BY <3>1, <3>2
  <2> QED
    BY <2>2, <2>3
<1> QED
  BY <1>1, <1>2, InvInit, InvNext, CalmNext, PTL DEF Spec
===============================================================================
