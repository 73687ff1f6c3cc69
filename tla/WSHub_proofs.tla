----------------------------- MODULE WSHub_proofs -----------------------------
(***************************************************************************)
(* Proofs about WSHub for any number of clients, events and topics.        *)
(***************************************************************************)
EXTENDS WSHub, FiniteSetTheorems, SequenceTheorems, TLAPS

\* What the program counters say of the values the goroutines hold.
HoldsOK ==
    /\ hub.pc \in {"register", "unregister"} => hub.client \in Clients
    /\ hub.pc \in {"broadcast", "fanout"} => hub.msg \in Msgs
    /\ \A s \in Subs : nats[s].pc # "idle" => nats[s].msg \in Msgs
    /\ \A c \in Clients : writer[c].pc = "write" => writer[c].held \in AnyMsg
    /\ \A c \in Clients : reader[c].pc = "handling" => reader[c].frame \in Frames
    /\ Len(bcast) <= Len(log)

TypeInv == TypeOK /\ HoldsOK

\* The types hold before anything ran: NewWSHub and Start make an empty hub.
LEMMA TypeInit == Init => TypeInv
<1> SUFFICES ASSUME Init PROVE TypeInv
  OBVIOUS
<1>0. /\ clients = {} /\ bcast = <<>> /\ log = <<>> /\ pending = Msgs
      /\ gauge = 0 /\ stop = "running" /\ panicked = FALSE
  BY DEF Init
<1>1. SharedTypeOK
  <2>1. bcast \in Seq(Msgs) /\ log \in Seq(Msgs) /\ gauge \in Int
    BY <1>0
  <2>2. panicked \in BOOLEAN /\ stop \in {"running", "cancelled", "stopped"}
    BY <1>0
  <2> QED
    BY <1>0, <2>1, <2>2 DEF SharedTypeOK
<1> USE DEF Init
<1>5. HubTypeOK
  BY DEF HubTypeOK, HubPcs
<1>6. NatsTypeOK
  BY DEF NatsTypeOK
<1>2. ReaderTypeOK /\ WriterTypeOK
  BY DEF ReaderTypeOK, WriterTypeOK
<1>3. ClientTypeOK /\ HistoryTypeOK
  BY DEF ClientTypeOK, HistoryTypeOK
<1>4. HoldsOK
  BY DEF HoldsOK
<1> QED
  BY <1>1, <1>2, <1>3, <1>4, <1>5, <1>6 DEF TypeInv, TypeOK

\* What a non-blocking send leaves in the channels.
LEMMA OfferType ==
  ASSUME NEW c \in Clients, NEW m \in AnyMsg, ClientTypeOK, Offer(c, m)
  PROVE  send' \in [Clients -> Seq(AnyMsg)] /\ panicked' \in BOOLEAN
<1>1. closed[c] \in BOOLEAN /\ send[c] \in Seq(AnyMsg)
  BY DEF ClientTypeOK
<1>2. Append(send[c], m) \in Seq(AnyMsg)
  BY <1>1
<1> QED
  BY <1>1, <1>2 DEF ClientTypeOK, Offer

\* run receiving from h.register keeps the types: the hub holds that client.
LEMMA HubTakeRegisterType ==
  ASSUME NEW c \in Clients, TypeInv, HubTakeRegister(c)
  PROVE  TypeInv'
<1> USE DEF TypeInv, TypeOK, HubTakeRegister, hubVars, clientVars, history
<1>1. HubTypeOK'
  BY DEF HubTypeOK, HubPcs
<1>2. ClientTypeOK'
  BY DEF ClientTypeOK
<1>3. (SharedTypeOK /\ NatsTypeOK /\ ReaderTypeOK /\ WriterTypeOK
        /\ HistoryTypeOK)'
  BY DEF SharedTypeOK, NatsTypeOK, ReaderTypeOK, WriterTypeOK, HistoryTypeOK
<1>4. HoldsOK'
  BY DEF HoldsOK, HubTypeOK, ClientTypeOK, HubPcs
<1> QED
  BY <1>1, <1>2, <1>3, <1>4

\* run receiving from h.unregister keeps the types: the hub holds that client.
LEMMA HubTakeUnregisterType ==
  ASSUME NEW c \in Clients, TypeInv, HubTakeUnregister(c)
  PROVE  TypeInv'
<1> USE DEF TypeInv, TypeOK, HubTakeUnregister, hubVars, clientVars, history
<1>1. HubTypeOK'
  BY DEF HubTypeOK, HubPcs
<1>2. ReaderTypeOK'
  BY DEF ReaderTypeOK
<1>3. (SharedTypeOK /\ NatsTypeOK /\ WriterTypeOK
        /\ ClientTypeOK /\ HistoryTypeOK)'
  BY DEF SharedTypeOK, NatsTypeOK, WriterTypeOK, ClientTypeOK, HistoryTypeOK
<1>4. HoldsOK'
  BY DEF HoldsOK, HubTypeOK, ReaderTypeOK, HubPcs
<1> QED
  BY <1>1, <1>2, <1>3, <1>4

\* One send of run's fan-out keeps the types: a drop is recorded for an event.
LEMMA HubOfferType ==
  ASSUME NEW c \in Clients, TypeInv, HubOffer(c)
  PROVE  TypeInv'
<1> USE DEF TypeInv, TypeOK, HubOffer, Offer, hubVars, clientVars, history
<1>1. SharedTypeOK'
  BY DEF SharedTypeOK, ClientTypeOK
<1>2. HubTypeOK'
  BY DEF HubTypeOK, HubPcs
<1>3. ClientTypeOK'
  BY DEF ClientTypeOK, HoldsOK, AnyMsg, ReaderTypeOK, Frames, NoFrame
<1>4. HistoryTypeOK'
  BY DEF HistoryTypeOK, HoldsOK, SharedTypeOK, ClientTypeOK
<1>5. (NatsTypeOK /\ ReaderTypeOK /\ WriterTypeOK)'
  BY DEF NatsTypeOK, ReaderTypeOK, WriterTypeOK
<1>6. HoldsOK'
  BY DEF HoldsOK, SharedTypeOK, HubTypeOK, ClientTypeOK, HubPcs
<1> QED
  BY <1>1, <1>2, <1>3, <1>4, <1>5, <1>6

\* The registration keeps the types: the client run holds enters the map.
LEMMA HubRegisterType ==
  ASSUME TypeInv, HubRegister
  PROVE  TypeInv'
<1> USE DEF TypeInv, TypeOK, HubRegister, hubVars, clientVars, history
<1>1. SharedTypeOK'
  BY DEF SharedTypeOK, HoldsOK
<1>2. HubTypeOK'
  BY DEF HubTypeOK, HubPcs
<1>3. HistoryTypeOK'
  BY DEF HistoryTypeOK, HoldsOK, SharedTypeOK, ClientTypeOK
<1>4. (NatsTypeOK /\ ReaderTypeOK /\ WriterTypeOK /\ ClientTypeOK)'
  BY DEF NatsTypeOK, ReaderTypeOK, WriterTypeOK, ClientTypeOK
<1>5. HoldsOK'
  BY DEF HoldsOK, SharedTypeOK, HubTypeOK, HubPcs
<1> QED
  BY <1>1, <1>2, <1>3, <1>4, <1>5

\* Counting a registered client keeps the types.
LEMMA HubCountType ==
  ASSUME TypeInv, HubCount
  PROVE  TypeInv'
<1> USE DEF TypeInv, TypeOK, HubCount, hubVars, clientVars, history
<1>1. SharedTypeOK'
  <2>1. gauge' \in Int
    BY DEF SharedTypeOK
  <2> QED
    BY <2>1 DEF SharedTypeOK
<1>2. HubTypeOK'
  BY DEF HubTypeOK, HubPcs
<1>3. (NatsTypeOK /\ ReaderTypeOK /\ WriterTypeOK /\ ClientTypeOK
        /\ HistoryTypeOK)'
  BY DEF NatsTypeOK, ReaderTypeOK, WriterTypeOK, ClientTypeOK, HistoryTypeOK
<1>4. HoldsOK'
  BY DEF HoldsOK, SharedTypeOK, HubTypeOK, HubPcs
<1> QED
  BY <1>1, <1>2, <1>3, <1>4

\* The unregistration keeps the types: the client run holds leaves the map.
LEMMA HubUnregisterType ==
  ASSUME TypeInv, HubUnregister
  PROVE  TypeInv'
<1> USE DEF TypeInv, TypeOK, HubUnregister, CloseSend, hubVars, clientVars, history
<1>1. SharedTypeOK'
  BY DEF SharedTypeOK, HoldsOK, ClientTypeOK
<1>2. HubTypeOK'
  BY DEF HubTypeOK, HubPcs
<1>3. ClientTypeOK'
  BY DEF ClientTypeOK
<1>4. (NatsTypeOK /\ ReaderTypeOK /\ WriterTypeOK /\ HistoryTypeOK)'
  BY DEF NatsTypeOK, ReaderTypeOK, WriterTypeOK, HistoryTypeOK
<1>5. HoldsOK'
  BY DEF HoldsOK, SharedTypeOK, HubTypeOK, ClientTypeOK, HubPcs
<1> QED
  BY <1>1, <1>2, <1>3, <1>4, <1>5

\* run receiving from h.broadcast keeps the types: a queue has an event at its head.
LEMMA HubTakeBroadcastType ==
  ASSUME TypeInv, HubTakeBroadcast
  PROVE  TypeInv'
<1> USE DEF TypeInv, TypeOK, HubTakeBroadcast, hubVars, clientVars, history
<1>1. SharedTypeOK'
  BY DEF SharedTypeOK, HoldsOK
<1>a. Head(bcast) \in Msgs
  BY DEF SharedTypeOK
<1>2. HubTypeOK'
  BY <1>a DEF HubTypeOK, HubPcs
<1>3. (NatsTypeOK /\ ReaderTypeOK /\ WriterTypeOK /\ ClientTypeOK /\ HistoryTypeOK)'
  BY DEF NatsTypeOK, ReaderTypeOK, WriterTypeOK, ClientTypeOK, HistoryTypeOK
<1>4. HoldsOK'
  BY DEF HoldsOK, SharedTypeOK, HubTypeOK, HubPcs
<1> QED
  BY <1>1, <1>2, <1>3, <1>4

\* Locking for a fan-out keeps the types: it will visit the registered clients.
LEMMA HubLockBroadcastType ==
  ASSUME TypeInv, HubLockBroadcast
  PROVE  TypeInv'
<1> USE DEF TypeInv, TypeOK, HubLockBroadcast, hubVars, clientVars, history
<1>1. HubTypeOK'
  BY DEF HubTypeOK, SharedTypeOK, HubPcs
<1>2. (SharedTypeOK /\ NatsTypeOK /\ ReaderTypeOK /\ WriterTypeOK
        /\ ClientTypeOK /\ HistoryTypeOK)'
  BY DEF SharedTypeOK, NatsTypeOK, ReaderTypeOK, WriterTypeOK, ClientTypeOK,
     HistoryTypeOK
<1>3. HoldsOK'
  BY DEF HoldsOK, HubTypeOK, HubPcs
<1> QED
  BY <1>1, <1>2, <1>3

\* The end of run's fan-out keeps the types.
LEMMA HubUnlockBroadcastType ==
  ASSUME TypeInv, HubUnlockBroadcast
  PROVE  TypeInv'
<1> USE DEF TypeInv, TypeOK, HubUnlockBroadcast, hubVars, clientVars, history
<1>1. HubTypeOK'
  BY DEF HubTypeOK, HubPcs
<1>2. (SharedTypeOK /\ NatsTypeOK /\ ReaderTypeOK /\ WriterTypeOK
        /\ ClientTypeOK /\ HistoryTypeOK)'
  BY DEF SharedTypeOK, NatsTypeOK, ReaderTypeOK, WriterTypeOK, ClientTypeOK,
     HistoryTypeOK
<1>3. HoldsOK'
  BY DEF HoldsOK, HubTypeOK, HubPcs
<1> QED
  BY <1>1, <1>2, <1>3

\* The return of run keeps the types.
LEMMA HubExitType ==
  ASSUME TypeInv, HubExit
  PROVE  TypeInv'
<1> USE DEF TypeInv, TypeOK, HubExit, hubVars, clientVars, history
<1>1. HubTypeOK'
  BY DEF HubTypeOK, HubPcs
<1>2. (SharedTypeOK /\ NatsTypeOK /\ ReaderTypeOK /\ WriterTypeOK
        /\ ClientTypeOK /\ HistoryTypeOK)'
  BY DEF SharedTypeOK, NatsTypeOK, ReaderTypeOK, WriterTypeOK, ClientTypeOK,
     HistoryTypeOK
<1>3. HoldsOK'
  BY DEF HoldsOK, HubTypeOK, HubPcs
<1> QED
  BY <1>1, <1>2, <1>3

\* The cancellation in Stop keeps the types.
LEMMA StopCancelType ==
  ASSUME TypeInv, StopCancel
  PROVE  TypeInv'
<1> USE DEF TypeInv, TypeOK, StopCancel, hubVars, clientVars, history
<1>1. SharedTypeOK'
  BY DEF SharedTypeOK
<1>2. (HubTypeOK /\ NatsTypeOK /\ ReaderTypeOK /\ WriterTypeOK /\ ClientTypeOK /\ HistoryTypeOK)'
  BY DEF HubTypeOK, NatsTypeOK, ReaderTypeOK, WriterTypeOK, ClientTypeOK, HistoryTypeOK
<1>3. HoldsOK'
  BY DEF HoldsOK, SharedTypeOK
<1> QED
  BY <1>1, <1>2, <1>3

\* Closing every client in Stop keeps the types.
LEMMA StopCloseType ==
  ASSUME TypeInv, StopClose
  PROVE  TypeInv'
<1> USE DEF TypeInv, TypeOK, StopClose, hubVars, clientVars, history
<1>1. SharedTypeOK'
  BY DEF SharedTypeOK
<1>2. ClientTypeOK'
  BY DEF ClientTypeOK, SharedTypeOK
<1>3. (HubTypeOK /\ NatsTypeOK /\ ReaderTypeOK /\ WriterTypeOK /\ HistoryTypeOK)'
  BY DEF HubTypeOK, NatsTypeOK, ReaderTypeOK, WriterTypeOK, HistoryTypeOK
<1>4. HoldsOK'
  BY DEF HoldsOK, SharedTypeOK, ClientTypeOK
<1> QED
  BY <1>1, <1>2, <1>3, <1>4

\* The start of a NATS callback keeps the types: it holds the event delivered.
LEMMA NatsDeliverType ==
  ASSUME NEW s \in Subs, NEW m \in Msgs, TypeInv, NatsDeliver(s, m)
  PROVE  TypeInv'
<1> USE DEF TypeInv, TypeOK, NatsDeliver, hubVars, clientVars, history
<1>1. SharedTypeOK'
  BY DEF SharedTypeOK
<1>2. NatsTypeOK'
  BY DEF NatsTypeOK, SharedTypeOK, Subs
<1>3. (HubTypeOK /\ ReaderTypeOK /\ WriterTypeOK /\ ClientTypeOK /\ HistoryTypeOK)'
  BY DEF HubTypeOK, ReaderTypeOK, WriterTypeOK, ClientTypeOK, HistoryTypeOK
<1>a. \A u \in Subs : nats'[u].pc # "idle" => nats'[u].msg \in Msgs
  BY DEF HoldsOK, NatsTypeOK
<1>4. HoldsOK'
  BY <1>a DEF HoldsOK
<1> QED
  BY <1>1, <1>2, <1>3, <1>4

\* One send of broadcastToTopics keeps the types.
LEMMA NatsOfferType ==
  ASSUME NEW s \in Subs, NEW c \in Clients, TypeInv, NatsOffer(s, c)
  PROVE  TypeInv'
<1> USE DEF TypeInv, TypeOK, NatsOffer, Offer, hubVars, clientVars, history
<1>a. nats[s].msg \in AnyMsg
  BY DEF HoldsOK, AnyMsg
<1>1. SharedTypeOK'
  BY DEF SharedTypeOK, ClientTypeOK
<1>2. NatsTypeOK'
  BY DEF NatsTypeOK
<1>3. ClientTypeOK'
  BY <1>a, OfferType DEF ClientTypeOK
<1>4. (HubTypeOK /\ ReaderTypeOK /\ WriterTypeOK /\ HistoryTypeOK)'
  BY DEF HubTypeOK, ReaderTypeOK, WriterTypeOK, HistoryTypeOK
<1>5. HoldsOK'
  BY DEF HoldsOK, SharedTypeOK, NatsTypeOK, ClientTypeOK
<1> QED
  BY <1>1, <1>2, <1>3, <1>4, <1>5

\* A callback's send to h.broadcast keeps the types: the event it holds is queued.
LEMMA NatsEnqueueType ==
  ASSUME NEW s \in Subs, TypeInv, NatsEnqueue(s)
  PROVE  TypeInv'
<1> USE DEF TypeInv, TypeOK, NatsEnqueue, hubVars, clientVars, history
<1>1. SharedTypeOK'
  BY DEF SharedTypeOK, HoldsOK
<1>2. NatsTypeOK'
  BY DEF NatsTypeOK
<1>3. (HubTypeOK /\ ReaderTypeOK /\ WriterTypeOK /\ ClientTypeOK /\ HistoryTypeOK)'
  BY DEF HubTypeOK, ReaderTypeOK, WriterTypeOK, ClientTypeOK, HistoryTypeOK
<1>4. HoldsOK'
  BY DEF HoldsOK, SharedTypeOK, NatsTypeOK
<1> QED
  BY <1>1, <1>2, <1>3, <1>4

\* The end of broadcastToTopics keeps the types.
LEMMA NatsUnlockType ==
  ASSUME NEW s \in Subs, TypeInv, NatsUnlock(s)
  PROVE  TypeInv'
<1> USE DEF TypeInv, TypeOK, NatsUnlock, hubVars, clientVars, history
<1>1. NatsTypeOK'
  BY DEF NatsTypeOK
<1>2. (SharedTypeOK /\ HubTypeOK /\ ReaderTypeOK /\ WriterTypeOK
        /\ ClientTypeOK /\ HistoryTypeOK)'
  BY DEF SharedTypeOK, HubTypeOK, ReaderTypeOK, WriterTypeOK, ClientTypeOK,
     HistoryTypeOK
<1>3. HoldsOK'
  BY DEF HoldsOK, NatsTypeOK
<1> QED
  BY <1>1, <1>2, <1>3

\* HandleWebSocket keeps the types: the new client has topics.
LEMMA ConnectType ==
  ASSUME NEW c \in Clients, TypeInv, Connect(c)
  PROVE  TypeInv'
<1> USE DEF TypeInv, TypeOK, Connect, hubVars, clientVars, history
<1>1. ClientTypeOK'
  BY DEF ClientTypeOK
<1>2. (SharedTypeOK /\ HubTypeOK /\ NatsTypeOK /\ ReaderTypeOK /\ WriterTypeOK
        /\ HistoryTypeOK)'
  BY DEF SharedTypeOK, HubTypeOK, NatsTypeOK, ReaderTypeOK, WriterTypeOK, HistoryTypeOK
<1>3. HoldsOK'
  BY DEF HoldsOK, ClientTypeOK
<1> QED
  BY <1>1, <1>2, <1>3

\* Starting the two pumps keeps the types.
LEMMA StartPumpsType ==
  ASSUME NEW c \in Clients, TypeInv, StartPumps(c)
  PROVE  TypeInv'
<1> USE DEF TypeInv, TypeOK, StartPumps, hubVars, clientVars, history
<1>1. ClientTypeOK'
  BY DEF ClientTypeOK
<1>2. ReaderTypeOK'
  BY DEF ReaderTypeOK
<1>3. WriterTypeOK'
  BY DEF WriterTypeOK
<1>4. (SharedTypeOK /\ HubTypeOK /\ NatsTypeOK /\ HistoryTypeOK)'
  BY DEF SharedTypeOK, HubTypeOK, NatsTypeOK, HistoryTypeOK
<1>5. HoldsOK'
  BY DEF HoldsOK, ReaderTypeOK, WriterTypeOK, ClientTypeOK
<1> QED
  BY <1>1, <1>2, <1>3, <1>4, <1>5

\* A frame read by readPump keeps the types, the limiter's count included.
LEMMA ReadFrameType ==
  ASSUME NEW c \in Clients, TypeInv, ReadFrame(c)
  PROVE  TypeInv'
<1> USE DEF TypeInv, TypeOK, ReadFrame, hubVars, clientVars, history
<1>1. ReaderTypeOK'
  BY DEF ReaderTypeOK
<1>2. (SharedTypeOK /\ HubTypeOK /\ NatsTypeOK /\ WriterTypeOK
        /\ ClientTypeOK /\ HistoryTypeOK)'
  BY DEF SharedTypeOK, HubTypeOK, NatsTypeOK, WriterTypeOK, ClientTypeOK, HistoryTypeOK
<1>3. HoldsOK'
  BY DEF HoldsOK, ReaderTypeOK
<1> QED
  BY <1>1, <1>2, <1>3

\* handleMessage keeps the types: topics come from the frame, a pong is a message.
LEMMA HandleMessageType ==
  ASSUME NEW c \in Clients, TypeInv, HandleMessage(c)
  PROVE  TypeInv'
<1> USE DEF TypeInv, TypeOK, HandleMessage, Offer, hubVars, clientVars, history
<1>1. SharedTypeOK'
  BY DEF SharedTypeOK, ClientTypeOK
<1>2. ReaderTypeOK'
  BY DEF ReaderTypeOK
<1>3. ClientTypeOK'
  <2>1. send' \in [Clients -> Seq(AnyMsg)]
    BY OfferType DEF ClientTypeOK, AnyMsg
  <2>2. reader[c].frame \in Frames
    BY DEF HoldsOK
  <2>3. reader[c].frame.type \in {"subscribe", "unsubscribe"}
          => reader[c].frame.topic \in Topics
    BY <2>2 DEF Frames
  <2>a. topics \in [Clients -> SUBSET Topics]
    BY DEF ClientTypeOK
  <2>b. CASE reader[c].frame.type = "subscribe"
    <3>1. topics' = [topics EXCEPT ![c] = @ \cup {reader[c].frame.topic}]
      BY <2>b
    <3>2. topics' \in [Clients -> SUBSET Topics]
      BY <2>3, <2>a, <2>b, <3>1
    <3> QED
      BY <2>1, <3>2 DEF ClientTypeOK
  <2>c. CASE reader[c].frame.type = "unsubscribe"
    BY <2>1, <2>3, <2>a, <2>c DEF ClientTypeOK
  <2>d. CASE reader[c].frame.type \notin {"subscribe", "unsubscribe"}
    BY <2>1, <2>a, <2>d DEF ClientTypeOK
  <2> QED
    BY <2>b, <2>c, <2>d
<1>4. (HubTypeOK /\ NatsTypeOK /\ WriterTypeOK /\ HistoryTypeOK)'
  BY DEF HubTypeOK, NatsTypeOK, WriterTypeOK, HistoryTypeOK
<1>5. HoldsOK'
  BY DEF HoldsOK, SharedTypeOK, ReaderTypeOK, ClientTypeOK
<1> QED
  BY <1>1, <1>2, <1>3, <1>4, <1>5

\* The end of readPump's loop keeps the types.
LEMMA ReadErrorType ==
  ASSUME NEW c \in Clients, TypeInv, ReadError(c)
  PROVE  TypeInv'
<1> USE DEF TypeInv, TypeOK, ReadError, hubVars, clientVars, history
<1>1. ReaderTypeOK'
  BY DEF ReaderTypeOK
<1>2. (SharedTypeOK /\ HubTypeOK /\ NatsTypeOK /\ WriterTypeOK
        /\ ClientTypeOK /\ HistoryTypeOK)'
  BY DEF SharedTypeOK, HubTypeOK, NatsTypeOK, WriterTypeOK, ClientTypeOK, HistoryTypeOK
<1>3. HoldsOK'
  BY DEF HoldsOK, ReaderTypeOK
<1> QED
  BY <1>1, <1>2, <1>3

\* readPump's deferred Close keeps the types.
LEMMA ReaderCloseType ==
  ASSUME NEW c \in Clients, TypeInv, ReaderClose(c)
  PROVE  TypeInv'
<1> USE DEF TypeInv, TypeOK, ReaderClose, hubVars, clientVars, history
<1>1. ReaderTypeOK'
  BY DEF ReaderTypeOK
<1>2. ClientTypeOK'
  BY DEF ClientTypeOK
<1>3. (SharedTypeOK /\ HubTypeOK /\ NatsTypeOK /\ WriterTypeOK
        /\ HistoryTypeOK)'
  BY DEF SharedTypeOK, HubTypeOK, NatsTypeOK, WriterTypeOK, HistoryTypeOK
<1>4. HoldsOK'
  BY DEF HoldsOK, ReaderTypeOK, ClientTypeOK
<1> QED
  BY <1>1, <1>2, <1>3, <1>4

\* writePump taking a message keeps the types: it holds the queue's head.
LEMMA WriterTakeType ==
  ASSUME NEW c \in Clients, TypeInv, WriterTake(c)
  PROVE  TypeInv'
<1> USE DEF TypeInv, TypeOK, WriterTake, hubVars, clientVars, history
<1>1. WriterTypeOK'
  BY DEF WriterTypeOK, ClientTypeOK
<1>2. ClientTypeOK'
  BY DEF ClientTypeOK
<1>3. (SharedTypeOK /\ HubTypeOK /\ NatsTypeOK /\ ReaderTypeOK /\ HistoryTypeOK)'
  BY DEF SharedTypeOK, HubTypeOK, NatsTypeOK, ReaderTypeOK, HistoryTypeOK
<1>4. HoldsOK'
  BY DEF HoldsOK, WriterTypeOK, ClientTypeOK
<1> QED
  BY <1>1, <1>2, <1>3, <1>4

\* Writing a batch keeps the types: a frame is a sequence of messages.
LEMMA WriteFrameType ==
  ASSUME NEW c \in Clients, TypeInv, WriteFrame(c)
  PROVE  TypeInv'
<1> USE DEF TypeInv, TypeOK, WriteFrame, hubVars, clientVars, history
<1>1. WriterTypeOK'
  BY DEF WriterTypeOK
<1>2. ClientTypeOK'
  BY DEF ClientTypeOK
<1>3. HistoryTypeOK'
  BY DEF HistoryTypeOK, HoldsOK, SharedTypeOK, ClientTypeOK
<1>4. (SharedTypeOK /\ HubTypeOK /\ NatsTypeOK /\ ReaderTypeOK)'
  BY DEF SharedTypeOK, HubTypeOK, NatsTypeOK, ReaderTypeOK
<1>5. HoldsOK'
  BY DEF HoldsOK, WriterTypeOK, ClientTypeOK
<1> QED
  BY <1>1, <1>2, <1>3, <1>4, <1>5

\* A failed write keeps the types.
LEMMA WriteErrorType ==
  ASSUME NEW c \in Clients, TypeInv, WriteError(c)
  PROVE  TypeInv'
<1> USE DEF TypeInv, TypeOK, WriteError, hubVars, clientVars, history
<1>1. WriterTypeOK'
  BY DEF WriterTypeOK
<1>2. ClientTypeOK'
  BY DEF ClientTypeOK
<1>3. (SharedTypeOK /\ HubTypeOK /\ NatsTypeOK /\ ReaderTypeOK /\ HistoryTypeOK)'
  BY DEF SharedTypeOK, HubTypeOK, NatsTypeOK, ReaderTypeOK, HistoryTypeOK
<1>4. HoldsOK'
  BY DEF HoldsOK, WriterTypeOK, ClientTypeOK
<1> QED
  BY <1>1, <1>2, <1>3, <1>4

\* writePump's end on a closed channel keeps the types.
LEMMA WriterClosedType ==
  ASSUME NEW c \in Clients, TypeInv, WriterClosed(c)
  PROVE  TypeInv'
<1> USE DEF TypeInv, TypeOK, WriterClosed, hubVars, clientVars, history
<1>1. WriterTypeOK'
  BY DEF WriterTypeOK
<1>2. ClientTypeOK'
  BY DEF ClientTypeOK
<1>3. (SharedTypeOK /\ HubTypeOK /\ NatsTypeOK /\ ReaderTypeOK /\ HistoryTypeOK)'
  BY DEF SharedTypeOK, HubTypeOK, NatsTypeOK, ReaderTypeOK, HistoryTypeOK
<1>4. HoldsOK'
  BY DEF HoldsOK, WriterTypeOK, ClientTypeOK
<1> QED
  BY <1>1, <1>2, <1>3, <1>4

\* writePump's end on a failed ping keeps the types.
LEMMA PingErrorType ==
  ASSUME NEW c \in Clients, TypeInv, PingError(c)
  PROVE  TypeInv'
<1> USE DEF TypeInv, TypeOK, PingError, hubVars, clientVars, history
<1>1. WriterTypeOK'
  BY DEF WriterTypeOK
<1>2. ClientTypeOK'
  BY DEF ClientTypeOK
<1>3. (SharedTypeOK /\ HubTypeOK /\ NatsTypeOK /\ ReaderTypeOK /\ HistoryTypeOK)'
  BY DEF SharedTypeOK, HubTypeOK, NatsTypeOK, ReaderTypeOK, HistoryTypeOK
<1>4. HoldsOK'
  BY DEF HoldsOK, WriterTypeOK, ClientTypeOK
<1> QED
  BY <1>1, <1>2, <1>3, <1>4

\* The loss of a connection keeps the types.
LEMMA PeerGoneType ==
  ASSUME NEW c \in Clients, TypeInv, PeerGone(c)
  PROVE  TypeInv'
<1> USE DEF TypeInv, TypeOK, PeerGone, hubVars, clientVars, history
<1>1. ClientTypeOK'
  BY DEF ClientTypeOK
<1>2. (SharedTypeOK /\ HubTypeOK /\ NatsTypeOK /\ ReaderTypeOK /\ WriterTypeOK
        /\ HistoryTypeOK)'
  BY DEF SharedTypeOK, HubTypeOK, NatsTypeOK, ReaderTypeOK, WriterTypeOK, HistoryTypeOK
<1>3. HoldsOK'
  BY DEF HoldsOK, ClientTypeOK
<1> QED
  BY <1>1, <1>2, <1>3

\* Every step of the hub, its clients and its callbacks keeps the types.
LEMMA TypeStep == TypeInv /\ [Next]_vars => TypeInv'
<1> SUFFICES ASSUME TypeInv, [Next]_vars PROVE TypeInv'
  OBVIOUS
<1>1. CASE UNCHANGED vars
  <2> USE <1>1 DEF TypeInv, TypeOK, vars, hubVars, clientVars, history
  <2>1. (SharedTypeOK /\ HubTypeOK /\ NatsTypeOK)'
    BY DEF SharedTypeOK, HubTypeOK, NatsTypeOK
  <2>2. (ReaderTypeOK /\ WriterTypeOK /\ ClientTypeOK /\ HistoryTypeOK)'
    BY DEF ReaderTypeOK, WriterTypeOK, ClientTypeOK, HistoryTypeOK
  <2>3. HoldsOK'
    BY DEF HoldsOK
  <2> QED
    BY <2>1, <2>2, <2>3
<1>2. CASE Next
  BY <1>2, HubTakeRegisterType, HubTakeUnregisterType, HubOfferType, HubRegisterType,
     HubCountType,
     HubUnregisterType, HubTakeBroadcastType, HubLockBroadcastType,
     HubUnlockBroadcastType, HubExitType, StopCancelType, StopCloseType,
     NatsDeliverType, NatsOfferType, NatsEnqueueType, NatsUnlockType, ConnectType,
     StartPumpsType, ReadFrameType, HandleMessageType, ReadErrorType, ReaderCloseType,
     WriterTakeType, WriteFrameType, WriteErrorType, WriterClosedType, PingErrorType,
     PeerGoneType
     DEF Next, HubStep, NatsStep, ReaderStep, WriterStep
<1> QED
  BY <1>1, <1>2

\* The variables hold values of their types in every reachable state.
THEOREM TypeCorrect == Spec => []TypeOK
<1>1. TypeInv => TypeOK
  BY DEF TypeInv
<1> QED
  BY TypeInit, TypeStep, <1>1, PTL DEF Spec

-----------------------------------------------------------------------------
(* Who closes, and who may still send *)

\* A client that run has not yet put into h.clients was never closed, so the
\* one it is about to add is open; a fan-out visits registered clients only.
Unregistered(c) == c \notin clients /\ ~closed[c]

OpenInv ==
    /\ \A c \in Clients : conn[c] = "none" => join[c] = "none"
    /\ \A c \in Clients : join[c] \in {"none", "registering"} => Unregistered(c)
    /\ hub.pc = "register" =>
         Unregistered(hub.client) /\ join[hub.client] \in {"handed", "done"}
    /\ MembersOpen
    /\ hub.pc = "fanout" => hub.todo \subseteq clients
    /\ \A s \in Subs : nats[s].pc = "fanout" => nats[s].todo \subseteq clients

\* The open-channel invariant holds of an empty hub.
LEMMA OpenInit == Init => OpenInv
BY DEF Init, OpenInv, Unregistered, MembersOpen

\* Every step keeps it: only HubUnregister and StopClose close channels, and both
\* need the lock that a fan-out holds for reading and take the client out of the map.
LEMMA OpenStep == TypeInv /\ OpenInv /\ [Next]_vars => OpenInv'
<1> SUFFICES ASSUME TypeInv, OpenInv, [Next]_vars PROVE OpenInv'
  OBVIOUS
<1> USE DEF TypeInv, TypeOK, HubTypeOK, NatsTypeOK, ClientTypeOK, SharedTypeOK,
            HubPcs, HoldsOK, OpenInv, Unregistered, MembersOpen, hubVars, clientVars
<1>1. ASSUME NEW c \in Clients, HubTakeRegister(c) PROVE OpenInv'
  BY <1>1 DEF HubTakeRegister
<1>2. ASSUME NEW c \in Clients, HubTakeUnregister(c) PROVE OpenInv'
  BY <1>2 DEF HubTakeUnregister
<1>3. ASSUME NEW c \in Clients, HubOffer(c) PROVE OpenInv'
  BY <1>3 DEF HubOffer, Offer
<1>4. CASE HubRegister
  BY <1>4 DEF HubRegister, ReadLocked, Fanning
<1>29. CASE HubCount
  BY <1>29 DEF HubCount
<1>5. CASE HubUnregister
  <2> DEFINE c == hub.client
  <2>1. CASE c \notin clients
    BY <1>5, <2>1 DEF HubUnregister, ReadLocked, Fanning
  <2>2. CASE c \in clients
    <3>1. /\ clients' = clients \ {c} /\ closed' = [closed EXCEPT ![c] = TRUE]
          /\ hub'.pc = "select" /\ UNCHANGED <<conn, join, nats>>
      BY <1>5, <2>2 DEF HubUnregister, CloseSend
    <3>2. join[c] \notin {"none", "registering"}
      BY <2>2
    <3>3. \A d \in Clients \ {c} : closed'[d] = closed[d] /\ (d \in clients' <=> d \in clients)
      BY <3>1
    <3>4. MembersOpen'
      BY <3>1, <3>3
    <3>5. \A s \in Subs : nats[s].pc # "fanout"
      BY <1>5 DEF HubUnregister, ReadLocked, Fanning
    <3>6. \A d \in Clients : join'[d] \in {"none", "registering"} => Unregistered(d)'
      BY <3>1, <3>2, <3>3
    <3> QED
      BY <3>1, <3>4, <3>5, <3>6
  <2> QED
    BY <2>1, <2>2
<1>6. CASE HubTakeBroadcast
  BY <1>6 DEF HubTakeBroadcast
<1>7. CASE HubLockBroadcast
  BY <1>7 DEF HubLockBroadcast
<1>8. CASE HubUnlockBroadcast
  BY <1>8 DEF HubUnlockBroadcast
<1>9. CASE HubExit
  BY <1>9 DEF HubExit
<1>10. CASE StopCancel
  BY <1>10 DEF StopCancel
<1>11. CASE StopClose
  BY <1>11 DEF StopClose, ReadLocked, Fanning
<1>12. ASSUME NEW s \in Subs, NEW m \in Msgs, NatsDeliver(s, m) PROVE OpenInv'
  <2>1. ASSUME NEW u \in Subs, nats'[u].pc = "fanout"
        PROVE  nats'[u].todo \subseteq clients
    <3>1. CASE u = s
      BY <1>12, <2>1, <3>1 DEF NatsDeliver
    <3>2. CASE u # s
      BY <1>12, <2>1, <3>2 DEF NatsDeliver
    <3> QED
      BY <3>1, <3>2
  <2>2. UNCHANGED <<clients, hub, conn, join, closed>>
    BY <1>12 DEF NatsDeliver
  <2> QED
    BY <2>1, <2>2
<1>13. ASSUME NEW s \in Subs, NEW c \in Clients, NatsOffer(s, c) PROVE OpenInv'
  BY <1>13 DEF NatsOffer, Offer
<1>14. ASSUME NEW s \in Subs, NatsEnqueue(s) PROVE OpenInv'
  BY <1>14 DEF NatsEnqueue
<1>15. ASSUME NEW s \in Subs, NatsUnlock(s) PROVE OpenInv'
  BY <1>15 DEF NatsUnlock
<1>16. ASSUME NEW c \in Clients, Connect(c) PROVE OpenInv'
  BY <1>16 DEF Connect
<1>17. ASSUME NEW c \in Clients, StartPumps(c) PROVE OpenInv'
  BY <1>17 DEF StartPumps
<1>18. ASSUME NEW c \in Clients, ReadFrame(c) PROVE OpenInv'
  BY <1>18 DEF ReadFrame
<1>19. ASSUME NEW c \in Clients, HandleMessage(c) PROVE OpenInv'
  BY <1>19 DEF HandleMessage, Offer
<1>20. ASSUME NEW c \in Clients, ReadError(c) PROVE OpenInv'
  BY <1>20 DEF ReadError
<1>21. ASSUME NEW c \in Clients, ReaderClose(c) PROVE OpenInv'
  BY <1>21 DEF ReaderClose
<1>22. ASSUME NEW c \in Clients, WriterTake(c) PROVE OpenInv'
  BY <1>22 DEF WriterTake
<1>23. ASSUME NEW c \in Clients, WriteFrame(c) PROVE OpenInv'
  BY <1>23 DEF WriteFrame
<1>24. ASSUME NEW c \in Clients, WriteError(c) PROVE OpenInv'
  BY <1>24 DEF WriteError
<1>25. ASSUME NEW c \in Clients, WriterClosed(c) PROVE OpenInv'
  BY <1>25 DEF WriterClosed
<1>26. ASSUME NEW c \in Clients, PingError(c) PROVE OpenInv'
  BY <1>26 DEF PingError
<1>27. ASSUME NEW c \in Clients, PeerGone(c) PROVE OpenInv'
  BY <1>27 DEF PeerGone
<1>28. CASE UNCHANGED vars
  BY <1>28 DEF vars
<1> QED
  BY <1>1, <1>2, <1>3, <1>4, <1>5, <1>6, <1>7, <1>8, <1>9, <1>10, <1>11, <1>12, <1>13,
     <1>14, <1>15, <1>16, <1>17, <1>18, <1>19, <1>20, <1>21, <1>22, <1>23, <1>24,
     <1>25, <1>26, <1>27, <1>28, <1>29
     DEF Next, HubStep, NatsStep, ReaderStep, WriterStep

\* Whatever the order of unregistrations, fan-outs and Stop, a client in
\* h.clients has an open send channel, and so has one a fan-out is about to visit.
THEOREM MembersStayOpen == Spec => [](MembersOpen /\ FanoutTargetsOpen)
<1>1. OpenInv => MembersOpen /\ FanoutTargetsOpen
  BY DEF OpenInv, MembersOpen, FanoutTargetsOpen, Fanning
<1> QED
  BY TypeInit, TypeStep, OpenInit, OpenStep, <1>1, PTL DEF Spec

-----------------------------------------------------------------------------

\* Only a readPump that answers a ping can die in a send on a closed channel: no
\* step of run, Stop or a NATS callback closes a channel twice or sends on a
\* closed one.
THEOREM PanicOnlyFromPong == Spec => OnlyPongPanics
<1> DEFINE PongToClosed ==
      \E c \in Clients : reader[c].pc = "handling"
                           /\ reader[c].frame.type = "ping" /\ closed[c]
<1>1. ASSUME TypeInv, OpenInv, Next PROVE panicked' => PongToClosed
  <2> USE <1>1 DEF TypeInv, TypeOK, SharedTypeOK, HubTypeOK, NatsTypeOK, ClientTypeOK, HoldsOK,
                 OpenInv, MembersOpen, hubVars, clientVars
  <2>1. ASSUME NEW c \in Clients, HubOffer(c) PROVE ~panicked'
    BY <2>1 DEF Next, HubOffer, Offer
  <2>2. ASSUME HubUnregister PROVE ~panicked'
    BY <2>2 DEF Next, HubUnregister, CloseSend, ReadLocked, Fanning
  <2>3. ASSUME StopClose PROVE ~panicked'
    BY <2>3 DEF Next, StopClose, ReadLocked, Fanning
  <2>4. ASSUME NEW s \in Subs, NEW c \in Clients, NatsOffer(s, c) PROVE ~panicked'
    BY <2>4 DEF Next, NatsOffer, Offer
  <2>5. ASSUME NEW c \in Clients, HandleMessage(c), panicked' PROVE PongToClosed
    BY <2>5 DEF Next, HandleMessage, Offer
  <2>6. ASSUME panicked', ~PongToClosed PROVE FALSE
    BY <1>1, <2>1, <2>2, <2>3, <2>4, <2>5, <2>6
       DEF Next, HubStep, NatsStep, ReaderStep, WriterStep, HubTakeRegister,
           HubTakeUnregister, HubRegister, HubCount, HubTakeBroadcast, HubLockBroadcast,
           HubUnlockBroadcast, HubExit, StopCancel, NatsDeliver, NatsEnqueue,
           NatsUnlock, Connect, StartPumps, ReadFrame, ReadError, ReaderClose,
           WriterTake, WriteFrame, WriteError, WriterClosed, PingError, PeerGone
  <2> QED
    BY <2>6
<1>2. ASSUME TypeInv, OpenInv, [Next]_vars PROVE [panicked' => PongToClosed]_vars
  BY <1>1, <1>2
<1> QED
  BY TypeInit, TypeStep, OpenInit, OpenStep, <1>2, PTL DEF Spec, OnlyPongPanics

-----------------------------------------------------------------------------
(* The gauge *)

\* Every step keeps the gauge's relation to the map: HubCount makes up for
\* HubRegister, and HubUnregister changes both.
LEMMA GaugeStep ==
  ASSUME TypeInv, OpenInv, GaugeExact, [Next]_vars
  PROVE  GaugeExact'
<1> USE DEF TypeInv, TypeOK, SharedTypeOK, HoldsOK, OpenInv, Unregistered
<1>f. IsFiniteSet(clients)
  BY HubAssumption, FS_Subset
<1>1. CASE HubRegister
  <2>1. Cardinality(clients \cup {hub.client}) = Cardinality(clients) + 1
    BY <1>1, <1>f, FS_AddElement DEF HubRegister
  <2>2. hub.pc # "count" /\ hub'.pc = "count"
    BY <1>1 DEF HubRegister, HubTypeOK
  <2> QED
    BY <1>1, <2>1, <2>2 DEF HubRegister, GaugeExact, Uncounted
<1>2. CASE HubUnregister
  <2>1. hub.client \in clients
          => Cardinality(clients \ {hub.client}) = Cardinality(clients) - 1
    BY <1>f, FS_RemoveElement
  <2>2. hub.pc # "count" /\ hub'.pc # "count"
    BY <1>2 DEF HubUnregister, HubTypeOK
  <2>3. CASE hub.client \in clients
    <3>1. clients' = clients \ {hub.client} /\ gauge' = gauge - 1 /\ stop' = stop
      BY <1>2, <2>3 DEF HubUnregister
    <3> QED
      BY <2>1, <2>2, <2>3, <3>1 DEF GaugeExact, Uncounted
  <2>4. CASE hub.client \notin clients
    <3>1. UNCHANGED <<clients, gauge, stop>>
      BY <1>2, <2>4 DEF HubUnregister
    <3> QED
      BY <2>2, <3>1 DEF GaugeExact, Uncounted
  <2> QED
    BY <2>3, <2>4
<1>3. CASE HubCount
  <2>1. hub.pc = "count" /\ hub'.pc # "count"
    BY <1>3 DEF HubCount, HubTypeOK
  <2> QED
    BY <1>3, <2>1 DEF HubCount, GaugeExact, Uncounted
<1>4. CASE StopCancel \/ StopClose
  BY <1>4 DEF StopCancel, StopClose, GaugeExact, Uncounted
<1>5. CASE /\ UNCHANGED <<clients, gauge, stop>>
           /\ hub'.pc = "count" <=> hub.pc = "count"
  BY <1>5 DEF GaugeExact, Uncounted
<1>6. CASE \E c \in Clients : HubTakeRegister(c) \/ HubTakeUnregister(c) \/ HubOffer(c)
  <2>1. hub.pc # "count" /\ hub'.pc # "count"
    BY <1>6 DEF HubTakeRegister, HubTakeUnregister, HubOffer, HubTypeOK
  <2>2. UNCHANGED <<clients, gauge, stop>>
    BY <1>6 DEF HubTakeRegister, HubTakeUnregister, HubOffer
  <2> QED
    BY <2>1, <2>2, <1>5
<1>7. CASE HubTakeBroadcast \/ HubLockBroadcast \/ HubUnlockBroadcast \/ HubExit
  <2>1. hub.pc # "count" /\ hub'.pc # "count"
    BY <1>7 DEF HubTakeBroadcast, HubLockBroadcast, HubUnlockBroadcast, HubExit, HubTypeOK
  <2>2. UNCHANGED <<clients, gauge, stop>>
    BY <1>7 DEF HubTakeBroadcast, HubLockBroadcast, HubUnlockBroadcast, HubExit
  <2> QED
    BY <2>1, <2>2, <1>5
<1>8. CASE UNCHANGED vars
  BY <1>5, <1>8 DEF vars, hubVars
<1> QED
  BY <1>1, <1>2, <1>3, <1>4, <1>5, <1>6, <1>7, <1>8
     DEF Next, HubStep, NatsStep, ReaderStep, WriterStep, hubVars,
         NatsDeliver, NatsOffer, NatsEnqueue, NatsUnlock, Connect, StartPumps,
         ReadFrame, HandleMessage, ReadError, ReaderClose, WriterTake, WriteFrame,
         WriteError, WriterClosed, PingError, PeerGone

\* ConnectionsCurrent counts the registered clients as long as Stop has not
\* replaced the map.
THEOREM GaugeCounts == Spec => []GaugeExact
<1>1. Init => GaugeExact
  BY FS_EmptySet DEF Init, GaugeExact, Uncounted
<1> QED
  BY TypeInit, TypeStep, OpenInit, OpenStep, GaugeStep, <1>1, PTL DEF Spec

-----------------------------------------------------------------------------
(* What the clients get *)

\* An event is in one place: not delivered yet, in the hand of its subscription's
\* callback, or in the log; only broadcasts enter the log.
LogInv ==
    /\ \A i, j \in DOMAIN log : log[i] = log[j] => i = j
    /\ \A i \in DOMAIN log : log[i] \notin pending
    /\ \A s \in Subs : nats[s].pc # "idle" =>
         /\ nats[s].msg \notin pending /\ KindOf[nats[s].msg] = s
         /\ \A i \in DOMAIN log : log[i] # nats[s].msg
    /\ \A s \in Subs : nats[s].pc = "fanout" => nats[s].msg \notin Broadcasts

\* h.broadcast holds the end of the log, and run fans out what is before it.
BcastInv ==
    /\ \A i \in 1 .. Len(bcast) : bcast[i] = log[Taken + i]
    /\ hub.pc \in {"broadcast", "fanout"} => Taken \in DOMAIN log /\ hub.msg = log[Taken]

\* The broadcasts of a sequence are among the first d of the log, in their order.
InOrder(q, l, d) ==
    /\ \A i \in DOMAIN q : q[i] \in Broadcasts => \E n \in 1 .. d : l[n] = q[i]
    /\ \A i, j \in DOMAIN q, n, k \in 1 .. d :
         i < j /\ q[i] \in Broadcasts /\ q[j] \in Broadcasts /\ l[n] = q[i] /\ l[k] = q[j]
           => n < k

\* A writePump holds a message from its receive to its write.
HeldInv ==
    \A c \in Clients :
        /\ writer[c].pc \in {"none", "select"} => writer[c].held = NoMsg
        /\ writer[c].pc = "write" => writer[c].held # NoMsg
        /\ join[c] # "done" => writer[c].pc = "none"

\* What is queued for a client are broadcasts that were fanned out, in their order.
QueueInv == \A c \in Clients : InOrder(Queued(c), log, Done(c))

DeliveryInv == LogInv /\ BcastInv /\ HeldInv /\ QueueInv /\ NoSilentLoss

\* The order is kept when the log grows, and more of it is fanned out.
LEMMA OrderGrows ==
  ASSUME NEW q, NEW l, NEW m, NEW d \in Nat, NEW e \in Nat, InOrder(q, l, d),
         d <= e, \A n \in 1 .. d : m[n] = l[n],
         \A n, k \in 1 .. e : m[n] = m[k] => n = k
  PROVE  InOrder(q, m, e)
<1>1. ASSUME NEW i \in DOMAIN q, q[i] \in Broadcasts PROVE \E n \in 1 .. d : m[n] = q[i]
  BY <1>1 DEF InOrder
<1>2. 1 .. d \subseteq 1 .. e
  OBVIOUS
<1>3. ASSUME NEW i \in DOMAIN q, q[i] \in Broadcasts, NEW n \in 1 .. e, m[n] = q[i]
      PROVE  n \in 1 .. d /\ l[n] = q[i]
  <2>1. PICK k \in 1 .. d : m[k] = q[i]
    BY <1>1, <1>3
  <2>2. n = k
    BY <1>2, <1>3, <2>1
  <2> QED
    BY <1>3, <2>1, <2>2
<1> QED
  BY <1>1, <1>2, <1>3 DEF InOrder

\* It is kept when something else is queued,
LEMMA OrderAppendOther ==
  ASSUME NEW q \in Seq(AnyMsg), NEW m \in AnyMsg, NEW l, NEW d \in Nat,
         InOrder(q, l, d), m \notin Broadcasts
  PROVE  InOrder(Append(q, m), l, d)
<1> DEFINE a == Append(q, m)
<1>1. /\ DOMAIN a = 1 .. Len(q) + 1 /\ DOMAIN q = 1 .. Len(q) /\ Len(q) \in Nat
      /\ \A i \in 1 .. Len(q) : a[i] = q[i]
      /\ a[Len(q) + 1] = m
  OBVIOUS
<1> HIDE DEF a
<1>2. \A i \in DOMAIN a : a[i] \in Broadcasts => i \in DOMAIN q /\ a[i] = q[i]
  BY <1>1
<1>3. InOrder(a, l, d)
  BY <1>2 DEF InOrder
<1> QED
  BY <1>3 DEF a

\* when the next broadcast of the log is,
LEMMA OrderAppendNext ==
  ASSUME NEW q \in Seq(AnyMsg), NEW l, NEW d \in Nat, l[d + 1] \in AnyMsg,
         InOrder(q, l, d), \A n, k \in 1 .. d + 1 : l[n] = l[k] => n = k
  PROVE  InOrder(Append(q, l[d + 1]), l, d + 1)
<1> DEFINE a == Append(q, l[d + 1])
<1>1. /\ DOMAIN a = 1 .. Len(q) + 1 /\ DOMAIN q = 1 .. Len(q) /\ Len(q) \in Nat
      /\ \A i \in 1 .. Len(q) : a[i] = q[i]
      /\ a[Len(q) + 1] = l[d + 1]
  OBVIOUS
<1> HIDE DEF a
<1>2. InOrder(q, l, d + 1)
  BY OrderGrows
<1>3. \A i \in DOMAIN a : a[i] \in Broadcasts => \E n \in 1 .. d + 1 : l[n] = a[i]
  BY <1>1, <1>2 DEF InOrder
<1>4. ASSUME NEW i \in DOMAIN a, NEW j \in DOMAIN a, NEW n \in 1 .. d + 1, NEW k \in 1 .. d + 1,
             i < j, a[i] \in Broadcasts, a[j] \in Broadcasts, l[n] = a[i], l[k] = a[j]
      PROVE  n < k
  <2>1. i \in DOMAIN q /\ a[i] = q[i]
    BY <1>1, <1>4
  <2>2. CASE j \in DOMAIN q
    BY <1>1, <1>2, <1>4, <2>1, <2>2 DEF InOrder
  <2>3. CASE j \notin DOMAIN q
    <3>1. a[j] = l[d + 1]
      BY <1>1, <2>3
    <3>2. k = d + 1
      BY <1>4, <3>1
    <3>3. PICK h \in 1 .. d : l[h] = q[i]
      BY <1>4, <2>1 DEF InOrder
    <3>4. n = h
      BY <1>4, <2>1, <3>3
    <3> QED
      BY <3>2, <3>3, <3>4
  <2> QED
    BY <2>2, <2>3
<1>5. InOrder(a, l, d + 1)
  BY <1>3, <1>4 DEF InOrder
<1> QED
  BY <1>5 DEF a

\* and when the end of the queue is lost.
LEMMA OrderPrefix ==
  ASSUME NEW q \in Seq(AnyMsg), NEW w \in Seq(AnyMsg), NEW l, NEW d \in Nat,
         Len(w) <= Len(q), \A i \in 1 .. Len(w) : w[i] = q[i],
         InOrder(q, l, d)
  PROVE  InOrder(w, l, d)
<1>1. DOMAIN w \subseteq DOMAIN q /\ \A i \in DOMAIN w : w[i] = q[i]
  OBVIOUS
<1> QED
  BY <1>1 DEF InOrder

\* What the steps do to the log and to what is on its way to it.
LEMMA LogMoves ==
  ASSUME TypeInv, LogInv, [Next]_vars
  PROVE  LogInv'
<1> USE DEF TypeInv, TypeOK, SharedTypeOK, NatsTypeOK, HoldsOK
<1>1. ASSUME NEW s \in Subs, NEW m \in Msgs, NatsDeliver(s, m) PROVE LogInv'
  <2>a. pending' = pending \ {m} /\ log' = log /\ m \in pending /\ KindOf[m] = s
    BY <1>1 DEF NatsDeliver, history
  <2>b. \/ /\ s = "cache" \/ TopicsOf[m] = {}
           /\ nats' = [nats EXCEPT ![s] = [pc |-> "sending", msg |-> m, todo |-> {}]]
        \/ /\ s = "indexed" /\ TopicsOf[m] # {}
           /\ nats' = [nats EXCEPT ![s] = [pc |-> "fanout", msg |-> m, todo |-> clients]]
    BY <1>1 DEF NatsDeliver
  <2>c. nats'[s].msg = m /\ \A u \in Subs \ {s} : nats'[u] = nats[u]
    BY <2>b
  <2>d. ASSUME nats'[s].pc = "fanout" PROVE m \notin Broadcasts
    <3>1. s = "indexed" /\ TopicsOf[m] # {}
      BY <2>b, <2>d
    <3> QED
      BY <2>a, <3>1 DEF Broadcasts
  <2>1. /\ pending' = pending \ {m} /\ log' = log /\ m \in pending /\ KindOf[m] = s
        /\ \A u \in Subs \ {s} : nats'[u] = nats[u]
        /\ nats'[s].msg = m
        /\ nats'[s].pc = "fanout" => m \notin Broadcasts
    BY <2>a, <2>c, <2>d
  <2>2. \A u \in Subs : nats'[u].pc # "idle" =>
           /\ nats'[u].msg \notin pending' /\ KindOf[nats'[u].msg] = u
           /\ \A i \in DOMAIN log : log[i] # nats'[u].msg
    BY <2>1 DEF LogInv
  <2> QED
    BY <2>1, <2>2 DEF LogInv
<1>2. ASSUME NEW s \in Subs, NatsEnqueue(s) PROVE LogInv'
  <2> DEFINE m == nats[s].msg
  <2>1. /\ pending' = pending /\ log' = Append(log, m) /\ m \in Msgs
        /\ \A u \in Subs \ {s} : nats'[u] = nats[u]
        /\ nats'[s].pc = "idle" /\ nats[s].pc # "idle"
    BY <1>2 DEF NatsEnqueue
  <2>2. /\ DOMAIN log' = 1 .. Len(log) + 1 /\ DOMAIN log = 1 .. Len(log)
        /\ \A i \in 1 .. Len(log) : log'[i] = log[i]
        /\ log'[Len(log) + 1] = m /\ Len(log) \in Nat
    BY <2>1
  <2>3. /\ m \notin pending /\ KindOf[m] = s /\ \A i \in DOMAIN log : log[i] # m
    BY <2>1 DEF LogInv
  <2>4. \A u \in Subs \ {s} : nats[u].pc # "idle" => nats[u].msg # m
    BY <2>3 DEF LogInv
  <2> HIDE DEF m
  <2>5. \A i \in DOMAIN log' : log'[i] \notin pending
    BY <2>2, <2>3 DEF LogInv
  <2>6. \A i, j \in DOMAIN log' : log'[i] = log'[j] => i = j
    BY <2>2, <2>3 DEF LogInv
  <2>7. \A u \in Subs : nats'[u].pc # "idle" =>
           /\ nats'[u].msg \notin pending /\ KindOf[nats'[u].msg] = u
           /\ \A i \in DOMAIN log' : log'[i] # nats'[u].msg
    BY <2>1, <2>2, <2>4 DEF LogInv
  <2>8. \A u \in Subs : nats'[u].pc = "fanout" => nats'[u].msg \notin Broadcasts
    BY <2>1 DEF LogInv
  <2> QED
    BY <2>1, <2>5, <2>6, <2>7, <2>8 DEF LogInv
<1>3. ASSUME NEW s \in Subs, NatsUnlock(s) PROVE LogInv'
  <2>1. UNCHANGED <<log, pending>>
    BY <1>3 DEF NatsUnlock, history
  <2>2. nats'[s].pc = "idle" /\ \A u \in Subs \ {s} : nats'[u] = nats[u]
    BY <1>3 DEF NatsUnlock
  <2> QED
    BY <2>1, <2>2 DEF LogInv
<1>4. ASSUME NEW s \in Subs, NEW c \in Clients, NatsOffer(s, c) PROVE LogInv'
  <2>1. /\ UNCHANGED <<log, pending>>
        /\ \A u \in Subs : nats'[u].pc = nats[u].pc /\ nats'[u].msg = nats[u].msg
    BY <1>4 DEF NatsOffer, history
  <2> QED
    BY <2>1 DEF LogInv
<1>5. CASE UNCHANGED <<log, pending, nats>>
  BY <1>5 DEF LogInv
<1>6. CASE HubStep
  <2>1. UNCHANGED <<log, pending, nats>>
    BY <1>6 DEF HubStep, HubTakeRegister, HubTakeUnregister, HubOffer, HubRegister,
       HubCount, HubUnregister, HubTakeBroadcast, HubLockBroadcast,
       HubUnlockBroadcast, HubExit, history
  <2> QED
    BY <1>5, <2>1
<1>7. CASE \E c \in Clients :
             \/ Connect(c) \/ StartPumps(c) \/ ReadFrame(c) \/ ReaderStep(c)
             \/ WriterStep(c) \/ PeerGone(c)
  <2>1. UNCHANGED <<log, pending, nats>>
    BY <1>7 DEF Connect, StartPumps, ReadFrame, ReaderStep, HandleMessage, ReadError,
       ReaderClose, WriterStep, WriterTake, WriteFrame, WriteError, WriterClosed,
       PingError, PeerGone, hubVars, history
  <2> QED
    BY <1>5, <2>1
<1>8. CASE StopCancel \/ StopClose \/ UNCHANGED vars
  BY <1>5, <1>8 DEF StopCancel, StopClose, vars, hubVars, history
<1> QED
  BY <1>1, <1>2, <1>3, <1>4, <1>6, <1>7, <1>8 DEF Next, NatsStep

\* What run has taken of the log, or is about to fan out, does not change.
LEMMA BcastMoves ==
  ASSUME TypeInv, BcastInv, [Next]_vars
  PROVE  BcastInv'
<1> USE DEF TypeInv, TypeOK, SharedTypeOK, HubTypeOK, HoldsOK, Taken
<1>0. /\ bcast \in Seq(Msgs) /\ log \in Seq(Msgs) /\ Len(bcast) <= Len(log)
      /\ Taken \in Nat
  OBVIOUS
<1>1. ASSUME NEW s \in Subs, NatsEnqueue(s) PROVE BcastInv'
  <2> DEFINE m == nats[s].msg
  <2>1. /\ bcast' = Append(bcast, m) /\ log' = Append(log, m) /\ hub' = hub
        /\ m \in Msgs
    BY <1>1 DEF NatsEnqueue
  <2> HIDE DEF m
  <2>2. /\ Len(bcast') = Len(bcast) + 1 /\ Len(log') = Len(log) + 1
        /\ DOMAIN log' = 1 .. Len(log) + 1 /\ DOMAIN log = 1 .. Len(log)
        /\ \A i \in 1 .. Len(log) : log'[i] = log[i]
        /\ \A i \in 1 .. Len(bcast) : bcast'[i] = bcast[i]
        /\ log'[Len(log) + 1] = m /\ bcast'[Len(bcast) + 1] = m
    BY <1>0, <2>1
  <2>3. Taken' = Taken /\ Len(bcast) \in Nat /\ Len(log) \in Nat
    BY <1>0, <2>2
  <2>4. ASSUME NEW i \in 1 .. Len(bcast') PROVE bcast'[i] = log'[Taken + i]
    <3>1. CASE i = Len(bcast) + 1
      <4>1. Taken + i = Len(log) + 1
        BY <1>0, <2>3, <3>1
      <4> QED
        BY <2>2, <3>1, <4>1
    <3>2. CASE i # Len(bcast) + 1
      <4>1. i \in 1 .. Len(bcast) /\ Taken + i \in 1 .. Len(log)
        BY <1>0, <2>2, <2>3, <2>4, <3>2
      <4>2. bcast[i] = log[Taken + i]
        BY <4>1 DEF BcastInv
      <4> QED
        BY <2>2, <4>1, <4>2
    <3> QED
      BY <3>1, <3>2
  <2>5. ASSUME hub'.pc \in {"broadcast", "fanout"}
        PROVE  Taken \in DOMAIN log' /\ hub'.msg = log'[Taken]
    <3>1. Taken \in DOMAIN log /\ hub.msg = log[Taken]
      BY <2>1, <2>5 DEF BcastInv
    <3> QED
      BY <2>1, <2>2, <2>3, <3>1
  <2>6. BcastInv' <=>
          /\ \A i \in 1 .. Len(bcast') : bcast'[i] = log'[Taken' + i]
          /\ hub'.pc \in {"broadcast", "fanout"} =>
               Taken' \in DOMAIN log' /\ hub'.msg = log'[Taken']
    BY DEF BcastInv
  <2> HIDE DEF Taken
  <2> QED
    BY <2>3, <2>4, <2>5, <2>6
<1>2. CASE HubTakeBroadcast
  <2>1. /\ bcast # <<>> /\ bcast' = Tail(bcast) /\ log' = log
        /\ hub'.pc = "broadcast" /\ hub'.msg = Head(bcast)
    BY <1>2 DEF HubTakeBroadcast, history
  <2>2. /\ Len(bcast') = Len(bcast) - 1 /\ Head(bcast) = bcast[1] /\ 1 \in 1 .. Len(bcast)
        /\ \A i \in 1 .. Len(bcast) - 1 : bcast'[i] = bcast[i + 1]
        /\ DOMAIN log = 1 .. Len(log)
    BY <1>0, <2>1
  <2>3. Taken' = Taken + 1 /\ Taken + 1 \in 1 .. Len(log)
    BY <1>0, <2>1, <2>2
  <2>4. hub'.msg = log[Taken + 1]
    BY <2>1, <2>2 DEF BcastInv
  <2>5. ASSUME NEW i \in 1 .. Len(bcast') PROVE bcast'[i] = log[(Taken + 1) + i]
    <3>1. i + 1 \in 1 .. Len(bcast) /\ bcast'[i] = bcast[i + 1] /\ Taken + (i + 1) = (Taken + 1) + i
      BY <1>0, <2>2, <2>5
    <3> QED
      BY <3>1 DEF BcastInv
  <2> HIDE DEF Taken
  <2> QED
    BY <2>1, <2>2, <2>3, <2>4, <2>5 DEF BcastInv
<1>3. CASE /\ UNCHANGED <<log, bcast>>
           /\ hub'.pc \in {"broadcast", "fanout"} =>
                hub.pc \in {"broadcast", "fanout"} /\ hub'.msg = hub.msg
  BY <1>3 DEF BcastInv
<1>4. ASSUME HubStep, ~HubTakeBroadcast PROVE BcastInv'
  <2>1. /\ UNCHANGED <<log, bcast>>
        /\ hub'.pc \in {"broadcast", "fanout"} =>
             hub.pc \in {"broadcast", "fanout"} /\ hub'.msg = hub.msg
    BY <1>4 DEF HubStep, HubTakeRegister, HubTakeUnregister, HubOffer, HubRegister,
       HubCount, HubUnregister, HubLockBroadcast,
       HubUnlockBroadcast, HubExit, history
  <2> QED
    BY <1>3, <2>1
<1>5. CASE \E c \in Clients :
             \/ Connect(c) \/ StartPumps(c) \/ ReadFrame(c) \/ ReaderStep(c)
             \/ WriterStep(c) \/ PeerGone(c)
  <2>1. UNCHANGED <<log, bcast, hub>>
    BY <1>5 DEF Connect, StartPumps, ReadFrame, ReaderStep, HandleMessage, ReadError,
       ReaderClose, WriterStep, WriterTake, WriteFrame, WriteError, WriterClosed,
       PingError, PeerGone, hubVars, history
  <2> QED
    BY <1>3, <2>1
<1>6. CASE StopCancel \/ StopClose \/ UNCHANGED vars
  BY <1>3, <1>6 DEF StopCancel, StopClose, vars, hubVars, history
<1>7. ASSUME NEW s \in Subs, NatsStep(s), ~NatsEnqueue(s) PROVE BcastInv'
  <2>1. UNCHANGED <<log, bcast, hub>>
    BY <1>7 DEF NatsStep, NatsDeliver, NatsOffer, NatsUnlock, history
  <2> QED
    BY <1>3, <2>1
<1> QED
  BY <1>1, <1>2, <1>4, <1>5, <1>6, <1>7 DEF Next

\* What is queued for a client: written, then held by its writePump, then in
\* its channel.
QueueOf(w, h, s) == w \o (IF h = NoMsg THEN <<>> ELSE <<h>>) \o s

\* A message put into the channel comes last,
LEMMA QueueAppend ==
  ASSUME NEW w \in Seq(AnyMsg), NEW h \in AnyMsg \cup {NoMsg}, NEW s \in Seq(AnyMsg),
         NEW m \in AnyMsg
  PROVE  /\ QueueOf(w, h, s) \in Seq(AnyMsg)
         /\ QueueOf(w, h, Append(s, m)) = Append(QueueOf(w, h, s), m)
<1> DEFINE k == IF h = NoMsg THEN <<>> ELSE <<h>>
           v == w \o k
<1>1. k \in Seq(AnyMsg)
  <2>1. CASE h = NoMsg
    BY <2>1
  <2>2. CASE h # NoMsg
    BY <2>2
  <2> QED
    BY <2>1, <2>2
<1> HIDE DEF k
<1>2. v \in Seq(AnyMsg)
  BY <1>1
<1> HIDE DEF v
<1>3. v \o Append(s, m) = Append(v \o s, m) /\ v \o s \in Seq(AnyMsg)
  BY <1>2
<1> QED
  BY <1>3 DEF QueueOf, v, k

\* one taken out of the channel stays where it is,
LEMMA QueueTake ==
  ASSUME NEW w \in Seq(AnyMsg), NEW s \in Seq(AnyMsg), s # <<>>
  PROVE  QueueOf(w, Head(s), Tail(s)) = QueueOf(w, NoMsg, s)
<1>1. Head(s) \in AnyMsg /\ Head(s) # NoMsg
  BY HubAssumption DEF AnyMsg
<1>2. w \o <<>> = w
  OBVIOUS
<1>3. (w \o <<Head(s)>>) \o Tail(s) = w \o s
  OBVIOUS
<1> QED
  BY <1>1, <1>2, <1>3 DEF QueueOf

\* and so do the ones that are written.
LEMMA QueueWrite ==
  ASSUME NEW w \in Seq(AnyMsg), NEW h \in AnyMsg, NEW s \in Seq(AnyMsg)
  PROVE  QueueOf(Append(w, h) \o s, NoMsg, <<>>) = QueueOf(w, h, s)
<1>1. h # NoMsg
  BY HubAssumption DEF AnyMsg
<1>2. Append(w, h) = w \o <<h>> /\ Append(w, h) \o s \in Seq(AnyMsg)
  OBVIOUS
<1>3. ((Append(w, h) \o s) \o <<>>) \o <<>> = Append(w, h) \o s
  BY <1>2
<1> QED
  BY <1>1, <1>2, <1>3 DEF QueueOf

\* run goes through the log: what it has offered a client grows by the broadcast
\* it sends to it, or by one it fans out while the client is not registered.
LEMMA DoneMoves ==
  ASSUME TypeInv, BcastInv, [Next]_vars, NEW c \in Clients
  PROVE  /\ Done(c) \in Nat /\ Done(c) <= Len(log) /\ Taken \in Nat
         /\ Len(log) \in Nat /\ Len(log') \in Nat /\ Len(log) <= Len(log')
         /\ \A n \in 1 .. Len(log) : log'[n] = log[n]
         /\ \/ Done(c)' = Done(c)
            \/ /\ Done(c)' = Done(c) + 1 /\ Done(c) + 1 <= Len(log)
               /\ HubOffer(c) \/ (HubLockBroadcast /\ c \notin clients)
         /\ HubOffer(c) => Done(c) + 1 = Taken /\ Done(c)' = Taken
<1> USE DEF TypeInv, TypeOK, SharedTypeOK, HoldsOK
<1>0. /\ bcast \in Seq(Msgs) /\ log \in Seq(Msgs) /\ Len(bcast) <= Len(log)
      /\ Len(bcast) \in Nat /\ Len(log) \in Nat /\ DOMAIN log = 1 .. Len(log)
  OBVIOUS
<1>1. Taken \in Nat /\ Taken <= Len(log) /\ (hub.pc \in {"broadcast", "fanout"} => Taken >= 1)
  BY <1>0 DEF BcastInv, Taken
<1>2. Done(c) \in Nat /\ Done(c) <= Len(log)
  BY <1>0, <1>1 DEF Done
<1>3. /\ Len(log') \in Nat /\ Len(log) <= Len(log')
      /\ \A n \in 1 .. Len(log) : log'[n] = log[n]
      /\ Taken' = Taken \/ HubTakeBroadcast
  <2>1. ASSUME NEW s \in Subs, NatsEnqueue(s)
        PROVE  /\ Len(log') = Len(log) + 1 /\ Taken' = Taken
               /\ \A n \in 1 .. Len(log) : log'[n] = log[n]
    <3> DEFINE m == nats[s].msg
    <3>1. bcast' = Append(bcast, m) /\ log' = Append(log, m) /\ m \in Msgs
      BY <2>1 DEF NatsEnqueue
    <3> HIDE DEF m
    <3>2. /\ Len(bcast') = Len(bcast) + 1 /\ Len(log') = Len(log) + 1
          /\ \A i \in 1 .. Len(log) : log'[i] = log[i]
      BY <1>0, <3>1
    <3> QED
      BY <1>0, <3>2 DEF Taken
  <2>2. CASE HubTakeBroadcast
    BY <1>0, <2>2 DEF HubTakeBroadcast, history
  <2>3. CASE UNCHANGED <<log, bcast>>
    BY <1>0, <2>3 DEF Taken
  <2>4. CASE ~HubTakeBroadcast /\ ~\E s \in Subs : NatsEnqueue(s)
    <3>1. UNCHANGED <<log, bcast>>
      BY <2>4 DEF Next, HubStep, NatsStep, ReaderStep, WriterStep, HubTakeRegister,
         HubTakeUnregister, HubOffer, HubRegister, HubCount, HubUnregister,
         HubLockBroadcast, HubUnlockBroadcast, HubExit, StopCancel, StopClose,
         NatsDeliver, NatsOffer, NatsUnlock, Connect, StartPumps, ReadFrame,
         HandleMessage, ReadError, ReaderClose, WriterTake, WriteFrame, WriteError,
         WriterClosed, PingError, PeerGone, vars, hubVars, history
    <3> QED
      BY <2>3, <3>1
  <2> QED
    BY <1>0, <2>1, <2>2, <2>4
<1>4. HubOffer(c) => Done(c) + 1 = Taken /\ Done(c)' = Taken
  <2> SUFFICES ASSUME HubOffer(c) PROVE Done(c) + 1 = Taken /\ Done(c)' = Taken
    OBVIOUS
  <2>1. hub.pc = "fanout" /\ c \in hub.todo /\ hub'.pc = "fanout" /\ c \notin hub'.todo
    BY DEF HubOffer, HubTypeOK
  <2>2. UNCHANGED <<log, bcast>>
    BY DEF HubOffer
  <2>3. Taken' = Taken
    BY <2>2 DEF Taken
  <2> QED
    BY <1>1, <2>1, <2>3 DEF Done
<1>5. \/ Done(c)' = Done(c)
      \/ /\ Done(c)' = Done(c) + 1 /\ Done(c) + 1 <= Len(log)
         /\ HubOffer(c) \/ (HubLockBroadcast /\ c \notin clients)
  <2>1. CASE HubTakeBroadcast
    <3>1. hub.pc = "select" /\ hub'.pc = "broadcast" /\ bcast # <<>> /\ bcast' = Tail(bcast)
          /\ log' = log
      BY <2>1 DEF HubTakeBroadcast, HubTypeOK, history
    <3>2. Len(bcast') = Len(bcast) - 1
      BY <1>0, <3>1
    <3>3. Taken' = Taken + 1
      BY <1>0, <3>1, <3>2 DEF Taken
    <3> QED
      BY <1>1, <3>1, <3>3 DEF Done
  <2>2. CASE HubLockBroadcast
    <3>1. hub.pc = "broadcast" /\ hub'.pc = "fanout" /\ hub'.todo = clients
          /\ UNCHANGED <<log, bcast>>
      BY <2>2 DEF HubLockBroadcast, HubTypeOK, history
    <3>2. Taken' = Taken
      BY <3>1 DEF Taken
    <3> QED
      BY <1>1, <2>2, <3>1, <3>2 DEF Done
  <2>3. CASE HubOffer(c)
    <3>1. Done(c) + 1 = Taken /\ Done(c)' = Taken
      BY <1>4, <2>3
    <3> QED
      BY <1>1, <2>3, <3>1
  <2>4. ASSUME NEW d \in Clients \ {c}, HubOffer(d) PROVE Done(c)' = Done(c)
    <3>1. hub.pc = "fanout" /\ hub'.pc = "fanout" /\ (c \in hub'.todo <=> c \in hub.todo)
          /\ UNCHANGED <<log, bcast>>
      BY <2>4 DEF HubOffer, HubTypeOK
    <3>2. Taken' = Taken
      BY <3>1 DEF Taken
    <3> QED
      BY <3>1, <3>2 DEF Done
  <2>5. CASE HubUnlockBroadcast
    <3>1. hub.pc = "fanout" /\ hub.todo = {} /\ hub'.pc = "select"
          /\ UNCHANGED <<log, bcast>>
      BY <2>5 DEF HubUnlockBroadcast, HubTypeOK, history
    <3>2. Taken' = Taken
      BY <3>1 DEF Taken
    <3> QED
      BY <3>1, <3>2 DEF Done
  <2>6. ASSUME HubStep, ~HubTakeBroadcast, ~HubLockBroadcast, ~HubUnlockBroadcast,
               ~\E d \in Clients : HubOffer(d)
        PROVE  Done(c)' = Done(c)
    <3>1. hub.pc \notin {"broadcast", "fanout"} /\ hub'.pc \notin {"broadcast", "fanout"}
      BY <2>6 DEF HubStep, HubTakeRegister, HubTakeUnregister, HubRegister, HubCount,
         HubUnregister, HubExit, HubTypeOK
    <3> QED
      BY <1>3, <2>6, <3>1 DEF Done
  <2>7. ASSUME ~HubStep PROVE Done(c)' = Done(c)
    <3>1. hub' = hub
      BY <2>7 DEF Next, NatsStep, ReaderStep, WriterStep, StopCancel, StopClose,
         NatsDeliver, NatsOffer, NatsEnqueue, NatsUnlock, Connect, StartPumps, ReadFrame,
         HandleMessage, ReadError, ReaderClose, WriterTake, WriteFrame, WriteError,
         WriterClosed, PingError, PeerGone, vars, hubVars
    <3>2. Taken' = Taken
      BY <1>3, <2>7 DEF HubStep
    <3> QED
      BY <3>1, <3>2 DEF Done
  <2> QED
    BY <2>1, <2>2, <2>3, <2>4, <2>5, <2>6, <2>7
<1> QED
  BY <1>0, <1>1, <1>2, <1>3, <1>4, <1>5

\* A writePump holds a message exactly while it is about to write it.
LEMMA HeldMoves ==
  ASSUME TypeInv, OpenInv, HeldInv, [Next]_vars
  PROVE  HeldInv'
<1>0. /\ DOMAIN writer = Clients /\ DOMAIN join = Clients /\ NoMsg \notin AnyMsg
      /\ \A c \in Clients : writer[c] \in [pc : {"none", "select", "write", "done"},
                                           held : AnyMsg \cup {NoMsg}]
      /\ \A c \in Clients : send[c] \in Seq(AnyMsg)
      /\ \A c \in Clients : conn[c] = "none" => join[c] = "none"
  BY HubAssumption DEF TypeInv, TypeOK, WriterTypeOK, ClientTypeOK, AnyMsg, OpenInv
<1>1. ASSUME NEW c \in Clients, WriterTake(c) PROVE HeldInv'
  <2>1. Head(send[c]) # NoMsg
    BY <1>0, <1>1 DEF WriterTake
  <2> QED
    BY <1>0, <1>1, <2>1 DEF WriterTake, HeldInv
<1>2. ASSUME NEW c \in Clients,
             WriteFrame(c) \/ WriteError(c) \/ WriterClosed(c) \/ PingError(c)
      PROVE  HeldInv'
  <2>1. /\ writer[c].pc \in {"select", "write"} /\ join' = join
        /\ \A d \in Clients \ {c} : writer'[d] = writer[d]
    BY <1>0, <1>2 DEF WriteFrame, WriteError, WriterClosed, PingError
  <2>2. join'[c] = "done"
    BY <2>1 DEF HeldInv
  <2>3. \/ writer'[c].pc = "done"
        \/ writer'[c].pc = "select" /\ writer'[c].held = NoMsg
    <3>1. CASE WriteFrame(c)
      BY <1>0, <3>1 DEF WriteFrame
    <3>2. CASE WriteError(c) \/ WriterClosed(c) \/ PingError(c)
      <4>1. writer' = [writer EXCEPT ![c].pc = "done"]
        BY <3>2 DEF WriteError, WriterClosed, PingError
      <4> QED
        BY <1>0, <4>1
    <3> QED
      BY <1>2, <3>1, <3>2
  <2> QED
    BY <2>1, <2>2, <2>3 DEF HeldInv
<1>3. ASSUME NEW c \in Clients, StartPumps(c) PROVE HeldInv'
  BY <1>0, <1>3 DEF StartPumps, HeldInv
<1>4. ASSUME NEW c \in Clients, Connect(c) \/ HubTakeRegister(c) PROVE HeldInv'
  BY <1>0, <1>4 DEF Connect, HubTakeRegister, HeldInv
<1>5. CASE UNCHANGED <<writer, join>>
  BY <1>5 DEF HeldInv
<1>6. CASE UNCHANGED vars
  BY <1>5, <1>6 DEF vars, clientVars
<1> QED
  BY <1>1, <1>2, <1>3, <1>4, <1>5, <1>6
     DEF Next, HubStep, NatsStep, ReaderStep, WriterStep, HubTakeUnregister, HubOffer,
         HubRegister, HubCount, HubUnregister, HubTakeBroadcast, HubLockBroadcast,
         HubUnlockBroadcast, HubExit, StopCancel, StopClose, NatsDeliver, NatsOffer,
         NatsEnqueue, NatsUnlock, ReadFrame, HandleMessage, ReadError, ReaderClose,
         PeerGone, clientVars

\* What may happen to the messages queued for a client in one step: nothing, one
\* more at the end, or the loss of those its connection no longer takes.
LEMMA QueueMoves ==
  ASSUME TypeInv, LogInv, HeldInv, [Next]_vars, NEW c \in Clients
  PROVE  /\ Queued(c) = QueueOf(wire[c], writer[c].held, send[c])
         /\ Queued(c) \in Seq(AnyMsg) /\ wire[c] \in Seq(AnyMsg)
         /\ \/ Queued(c)' = Queued(c)
            \/ WriteFrame(c) /\ conn[c] # "open" /\ Queued(c)' = wire[c]
            \/ \E m \in AnyMsg \ Broadcasts : Queued(c)' = Append(Queued(c), m)
            \/ HubOffer(c) /\ Queued(c)' = Append(Queued(c), hub.msg)
<1> USE DEF TypeInv, TypeOK
<1> DEFINE w == wire[c]
           h == writer[c].held
           s == send[c]
           Moves == \/ Queued(c)' = Queued(c)
                    \/ WriteFrame(c) /\ conn[c] # "open" /\ Queued(c)' = w
                    \/ \E m \in AnyMsg \ Broadcasts : Queued(c)' = Append(Queued(c), m)
                    \/ HubOffer(c) /\ Queued(c)' = Append(Queued(c), hub.msg)
<1>0. /\ w \in Seq(AnyMsg) /\ h \in AnyMsg \cup {NoMsg} /\ s \in Seq(AnyMsg)
      /\ NoMsg \notin AnyMsg /\ Pong \in AnyMsg /\ DOMAIN wire = Clients
      /\ DOMAIN send = Clients /\ DOMAIN writer = Clients
  BY HubAssumption DEF HistoryTypeOK, WriterTypeOK, ClientTypeOK, AnyMsg
<1>1. Queued(c) = QueueOf(w, h, s) /\ Queued(c)' = QueueOf(w', h', s')
  BY DEF Queued, QueueOf
<1>3. /\ writer[c].pc \in {"none", "select"} => h = NoMsg
      /\ writer[c].pc = "write" => h # NoMsg
  BY DEF HeldInv
<1>s. ASSUME NEW d \in Clients, NEW m \in AnyMsg, Offer(d, m)
      PROVE  s' = s \/ (d = c /\ s' = Append(s, m))
  BY <1>0, <1>s DEF Offer
<1>u. UNCHANGED wire => w' = w
  OBVIOUS
<1>v. UNCHANGED writer => h' = h
  OBVIOUS
<1>x. UNCHANGED send => s' = s
  OBVIOUS
<1>11. WriterTake(c) => /\ s # <<>> /\ s' = Tail(s) /\ h = NoMsg /\ h' = Head(s)
                        /\ w' = w
  BY <1>0, <1>3 DEF WriterTake, history
<1>12. WriteFrame(c) => /\ s' = <<>> /\ h \in AnyMsg /\ h' = NoMsg
                        /\ w' = IF conn[c] = "open" THEN Append(w, h) \o s ELSE w
  BY <1>0, <1>3 DEF WriteFrame
<1>13. WriteError(c) \/ WriterClosed(c) \/ PingError(c) \/ StartPumps(c)
         => h' = h /\ s' = s /\ w' = w
  <2>1. \A pc : [writer EXCEPT ![c].pc = pc][c].held = h
    BY <1>0 DEF WriterTypeOK
  <2> QED
    BY <1>0, <2>1 DEF WriteError, WriterClosed, PingError, StartPumps, history
<1>10. ASSUME NEW d \in Clients \ {c},
              WriterTake(d) \/ WriteFrame(d) \/ WriteError(d) \/ WriterClosed(d)
                \/ PingError(d) \/ StartPumps(d)
       PROVE  h' = h /\ s' = s /\ w' = w
  BY <1>0, <1>10 DEF WriterTake, WriteFrame, WriteError, WriterClosed, PingError,
     StartPumps, history
<1> HIDE DEF w, h, s, Moves
<1>2. Queued(c) \in Seq(AnyMsg)
  BY <1>0, <1>1, QueueAppend
<1>4. ASSUME NEW m \in AnyMsg, w' = w, h' = h, s' = Append(s, m)
      PROVE  Queued(c)' = Append(Queued(c), m)
  BY <1>0, <1>1, <1>4, QueueAppend
<1>5. ASSUME w' = w, h' = h, s' = s PROVE Moves
  BY <1>1, <1>5 DEF Moves
<1>6. ASSUME UNCHANGED <<wire, writer, send>> PROVE Moves
  BY <1>5, <1>6, <1>u, <1>v, <1>x
<1>7. ASSUME NEW d \in Clients, HubOffer(d) PROVE Moves
  <2>1. w' = w /\ h' = h /\ Offer(d, hub.msg) /\ hub.msg \in AnyMsg
    BY <1>7, <1>u, <1>v DEF HubOffer, HoldsOK, AnyMsg
  <2>2. CASE s' = s
    BY <1>5, <2>1, <2>2
  <2>3. CASE d = c /\ s' = Append(s, hub.msg)
    BY <1>4, <1>7, <2>1, <2>3 DEF Moves
  <2> QED
    BY <1>s, <2>1, <2>2, <2>3
<1>8. ASSUME NEW u \in Subs, NEW d \in Clients, NatsOffer(u, d) PROVE Moves
  <2> DEFINE m == nats[u].msg
  <2>1. UNCHANGED <<wire, writer>> /\ nats[u].pc = "fanout" /\ (Offer(d, m) \/ send' = send)
    BY <1>8 DEF NatsOffer, history
  <2>2. m \in AnyMsg /\ m \notin Broadcasts
    BY <2>1 DEF HoldsOK, AnyMsg, LogInv
  <2> HIDE DEF m
  <2>3. w' = w /\ h' = h
    BY <2>1, <1>u, <1>v
  <2>4. CASE s' = s
    BY <1>5, <2>3, <2>4
  <2>5. CASE s' = Append(s, m)
    BY <1>4, <2>2, <2>3, <2>5 DEF Moves
  <2> QED
    BY <1>s, <1>x, <2>1, <2>2, <2>4, <2>5
<1>9. ASSUME NEW d \in Clients, HandleMessage(d) PROVE Moves
  <2>1. UNCHANGED <<wire, writer>> /\ (Offer(d, Pong) \/ send' = send)
    BY <1>9 DEF HandleMessage, history
  <2>2. Pong \in AnyMsg /\ Pong \notin Broadcasts
    BY HubAssumption DEF AnyMsg, Broadcasts
  <2>3. w' = w /\ h' = h
    BY <2>1, <1>u, <1>v
  <2>4. CASE s' = s
    BY <1>5, <2>3, <2>4
  <2>5. CASE s' = Append(s, Pong)
    BY <1>4, <2>2, <2>3, <2>5 DEF Moves
  <2> QED
    BY <1>s, <1>x, <2>1, <2>2, <2>4, <2>5
<1>14. ASSUME WriterTake(c) PROVE Moves
  <2>1. QueueOf(w, Head(s), Tail(s)) = QueueOf(w, NoMsg, s)
    BY <1>0, <1>11, <1>14, QueueTake
  <2> QED
    BY <1>1, <1>11, <1>14, <2>1 DEF Moves
<1>15. ASSUME WriteFrame(c) PROVE Moves
  <2>1. CASE conn[c] = "open"
    <3>1. QueueOf(Append(w, h) \o s, NoMsg, <<>>) = QueueOf(w, h, s)
      BY <1>0, <1>12, <1>15, QueueWrite
    <3> QED
      BY <1>1, <1>12, <1>15, <2>1, <3>1 DEF Moves
  <2>2. CASE conn[c] # "open"
    <3>1. Queued(c)' = (w \o <<>>) \o <<>>
      BY <1>1, <1>12, <1>15, <2>2 DEF QueueOf
    <3>2. Queued(c)' = w
      BY <1>0, <3>1
    <3> QED
      BY <1>15, <2>2, <3>2 DEF Moves
  <2> QED
    BY <2>1, <2>2
<1>16. ASSUME NEW d \in Clients,
              Connect(d) \/ ReadFrame(d) \/ ReadError(d) \/ ReaderClose(d) \/ PeerGone(d)
       PROVE  Moves
  <2>1. UNCHANGED <<wire, writer, send>>
    BY <1>16 DEF Connect, ReadFrame, ReadError, ReaderClose, PeerGone, history
  <2> QED
    BY <1>6, <2>1
<1>17. ASSUME HubStep, ~\E d \in Clients : HubOffer(d) PROVE Moves
  <2>1. UNCHANGED <<wire, writer, send>>
    BY <1>17 DEF HubStep, HubTakeRegister, HubTakeUnregister, HubRegister, HubCount,
       HubUnregister, HubTakeBroadcast, HubLockBroadcast, HubUnlockBroadcast, HubExit,
       clientVars, history
  <2> QED
    BY <1>6, <2>1
<1>18. ASSUME \/ StopCancel \/ StopClose \/ UNCHANGED vars
              \/ \E u \in Subs : NatsEnqueue(u) \/ NatsUnlock(u)
                                  \/ \E m \in Msgs : NatsDeliver(u, m)
       PROVE  Moves
  <2>1. UNCHANGED <<wire, writer, send>>
    BY <1>18 DEF StopCancel, StopClose, NatsEnqueue, NatsUnlock, NatsDeliver, vars,
       clientVars, history
  <2> QED
    BY <1>6, <2>1
<1>19. ASSUME NEW d \in Clients, WriterStep(d) \/ StartPumps(d) PROVE Moves
  <2>1. CASE d = c
    BY <1>5, <1>13, <1>14, <1>15, <1>19, <2>1 DEF WriterStep
  <2>2. CASE d # c
    BY <1>5, <1>10, <1>19, <2>2 DEF WriterStep
  <2> QED
    BY <2>1, <2>2
<1>20. Moves
  BY <1>7, <1>8, <1>9, <1>16, <1>17, <1>18, <1>19
     DEF Next, NatsStep, ReaderStep, HubStep
<1> QED
  BY <1>0, <1>1, <1>2, <1>20 DEF Moves, w, h, s

\* Every step keeps the broadcasts queued for a client in the order of the log.
LEMMA QueueStep ==
  ASSUME TypeInv, LogInv, BcastInv, HeldInv, QueueInv, [Next]_vars, LogInv'
  PROVE  QueueInv'
<1> SUFFICES ASSUME NEW c \in Clients PROVE InOrder(Queued(c)', log', Done(c)')
  BY DEF QueueInv, InOrder
<1> DEFINE q == Queued(c)
           d == Done(c)
<1>1. /\ d \in Nat /\ Len(log) \in Nat /\ Len(log') \in Nat
      /\ Len(log) <= Len(log') /\ d <= Len(log)
      /\ \A n \in 1 .. Len(log) : log'[n] = log[n]
      /\ Done(c)' = d \/ (Done(c)' = d + 1 /\ d + 1 <= Len(log))
      /\ HubOffer(c) => d + 1 = Taken /\ Done(c)' = Taken
  BY DoneMoves
<1>2. /\ q \in Seq(AnyMsg) /\ wire[c] \in Seq(AnyMsg)
      /\ q = QueueOf(wire[c], writer[c].held, send[c])
      /\ \/ Queued(c)' = q
         \/ Queued(c)' = wire[c]
         \/ \E m \in AnyMsg \ Broadcasts : Queued(c)' = Append(q, m)
         \/ HubOffer(c) /\ Queued(c)' = Append(q, hub.msg)
  BY QueueMoves
<1>3. InOrder(q, log, d)
  BY DEF QueueInv
<1>4. log' \in Seq(Msgs) /\ DOMAIN log' = 1 .. Len(log')
  <2>1. TypeInv'
    BY TypeStep
  <2>2. log' \in Seq(Msgs)
    BY <2>1 DEF TypeInv, TypeOK, SharedTypeOK
  <2> QED
    BY <2>2
<1>5. \A n, k \in 1 .. Len(log') : log'[n] = log'[k] => n = k
  BY <1>4 DEF LogInv
<1> HIDE DEF q, d
<1>6. InOrder(q, log', d)
  <2>1. \A n, k \in 1 .. d : log'[n] = log'[k] => n = k
    BY <1>1, <1>5
  <2>2. \A n \in 1 .. d : log'[n] = log[n]
    BY <1>1
  <2> QED
    BY <1>1, <1>3, <2>1, <2>2, OrderGrows
<1>7. InOrder(q, log', Done(c)')
  <2>1. CASE Done(c)' = d
    BY <1>6, <2>1
  <2>2. CASE Done(c)' = d + 1 /\ d + 1 <= Len(log)
    <3>1. \A n, k \in 1 .. d + 1 : log'[n] = log'[k] => n = k
      BY <1>1, <1>5, <2>2
    <3>2. InOrder(q, log', d + 1)
      BY <1>1, <1>6, <3>1, OrderGrows, SMTT(30)
    <3> QED
      BY <2>2, <3>2
  <2> QED
    BY <1>1, <2>1, <2>2
<1>8. Done(c)' \in Nat
  BY <1>1
<1>9. CASE Queued(c)' = q
  BY <1>7, <1>9
<1>10. CASE Queued(c)' = wire[c]
  <2> DEFINE k == IF writer[c].held = NoMsg THEN <<>> ELSE <<writer[c].held>>
  <2>1. k \in Seq(AnyMsg) /\ send[c] \in Seq(AnyMsg)
    BY DEF TypeInv, TypeOK, WriterTypeOK, ClientTypeOK
  <2>2. q = wire[c] \o k \o send[c]
    BY <1>2 DEF QueueOf
  <2> HIDE DEF k
  <2>3. Len(wire[c]) <= Len(q) /\ \A i \in 1 .. Len(wire[c]) : wire[c][i] = q[i]
    <3> DEFINE w == wire[c]
               r == send[c]
    <3>1. w \in Seq(AnyMsg) /\ r \in Seq(AnyMsg) /\ q = (w \o k) \o r
      BY <1>2, <2>1, <2>2
    <3> HIDE DEF w, r
    <3>2. /\ w \o k \in Seq(AnyMsg) /\ Len(w) <= Len(w \o k)
          /\ \A i \in 1 .. Len(w) : (w \o k)[i] = w[i]
      BY <2>1, <3>1
    <3>3. Len(w) <= Len(q) /\ \A i \in 1 .. Len(w) : q[i] = w[i]
      BY <2>1, <3>1, <3>2
    <3> QED
      BY <3>3 DEF w
  <2> QED
    BY <1>2, <1>7, <1>8, <1>10, <2>3, OrderPrefix
<1>11. ASSUME NEW m \in AnyMsg \ Broadcasts, Queued(c)' = Append(q, m)
       PROVE  InOrder(Queued(c)', log', Done(c)')
  BY <1>2, <1>7, <1>8, <1>11, OrderAppendOther
<1>12. CASE HubOffer(c) /\ Queued(c)' = Append(q, hub.msg)
  <2>1. Taken = d + 1 /\ Done(c)' = d + 1 /\ d + 1 \in 1 .. Len(log)
    BY <1>1, <1>12
  <2>2. hub.msg = log[d + 1] /\ hub.msg \in AnyMsg
    BY <1>12, <2>1 DEF HubOffer, BcastInv, TypeInv, HoldsOK, AnyMsg
  <2>3. log'[d + 1] = hub.msg
    BY <1>1, <2>1, <2>2
  <2>4. \A n, k \in 1 .. d + 1 : log'[n] = log'[k] => n = k
    BY <1>1, <1>5, <2>1
  <2> DEFINE l == log'
  <2>5. l[d + 1] \in AnyMsg /\ InOrder(q, l, d) /\ \A n, k \in 1 .. d + 1 : l[n] = l[k] => n = k
    BY <1>6, <2>2, <2>3, <2>4
  <2> HIDE DEF l
  <2>6. InOrder(Append(q, l[d + 1]), l, d + 1)
    BY <1>1, <1>2, <2>5, OrderAppendNext
  <2>7. InOrder(Append(q, hub.msg), log', d + 1)
    BY <2>3, <2>6 DEF l
  <2> QED
    BY <1>12, <2>1, <2>7
<1> QED
  BY <1>2, <1>9, <1>10, <1>11, <1>12

\* run queues the event for a registered client, or records that it dropped it.
LEMMA OfferQueues ==
  ASSUME TypeInv, OpenInv, NEW c \in Clients, c \in clients, HubOffer(c)
  PROVE  Queued(c)' = Append(Queued(c), hub.msg) \/ hub.msg \in dropped'[c]
<1> USE DEF TypeInv, TypeOK
<1> DEFINE w == wire[c]
           h == writer[c].held
           s == send[c]
<1>1. /\ w \in Seq(AnyMsg) /\ h \in AnyMsg \cup {NoMsg} /\ s \in Seq(AnyMsg)
      /\ hub.msg \in AnyMsg /\ DOMAIN send = Clients /\ DOMAIN dropped = Clients
  BY DEF HistoryTypeOK, WriterTypeOK, ClientTypeOK, HubOffer, HoldsOK, AnyMsg
<1>2. Queued(c) = QueueOf(w, h, s) /\ Queued(c)' = QueueOf(w', h', s')
  BY DEF Queued, QueueOf
<1>3. ~closed[c] /\ UNCHANGED <<wire, writer>>
  BY DEF OpenInv, MembersOpen, HubOffer
<1>4. CASE Len(s) < SendCap
  <2>1. w' = w /\ h' = h /\ s' = Append(s, hub.msg)
    BY <1>1, <1>3, <1>4 DEF HubOffer, Offer
  <2> HIDE DEF w, h, s
  <2>2. QueueOf(w, h, Append(s, hub.msg)) = Append(QueueOf(w, h, s), hub.msg)
    BY <1>1, QueueAppend
  <2> QED
    BY <1>2, <2>1, <2>2
<1>5. CASE ~(Len(s) < SendCap)
  BY <1>1, <1>5 DEF HubOffer
<1> QED
  BY <1>4, <1>5

\* What a step does to a client that is and stays registered and connected.
LEMMA MemberMoves ==
  ASSUME TypeInv, OpenInv, [Next]_vars, NEW c \in Clients, c \in clients, conn'[c] = "open"
  PROVE  conn[c] = "open" /\ since'[c] = since[c] /\ dropped[c] \subseteq dropped'[c]
<1> USE DEF TypeInv, TypeOK
<1>0. /\ DOMAIN conn = Clients /\ DOMAIN since = Clients /\ DOMAIN dropped = Clients
      /\ conn[c] # "none"
  BY DEF ClientTypeOK, HistoryTypeOK, OpenInv, Unregistered
<1>1. conn[c] = "open"
  <2>1. ASSUME NEW d \in Clients,
               \/ Connect(d) \/ PeerGone(d) \/ ReaderClose(d) \/ WriteError(d)
               \/ WriterClosed(d) \/ PingError(d)
        PROVE  conn[c] = "open"
    BY <1>0, <2>1 DEF Connect, PeerGone, ReaderClose, WriteError, WriterClosed, PingError
  <2>2. CASE StopClose
    BY <1>0, <2>2 DEF StopClose
  <2>3. CASE UNCHANGED conn
    BY <2>3
  <2> QED
    BY <2>1, <2>2, <2>3
       DEF Next, HubStep, NatsStep, ReaderStep, WriterStep, HubTakeRegister,
           HubTakeUnregister, HubOffer, HubRegister, HubCount, HubUnregister,
           HubTakeBroadcast, HubLockBroadcast, HubUnlockBroadcast, HubExit, StopCancel,
           NatsDeliver, NatsOffer, NatsEnqueue, NatsUnlock, StartPumps, ReadFrame,
           HandleMessage, ReadError, WriterTake, WriteFrame, vars, clientVars
<1>2. since'[c] = since[c] /\ dropped[c] \subseteq dropped'[c]
  <2>1. CASE HubRegister
    <3>1. hub.client # c /\ dropped' = dropped
      BY <2>1 DEF HubRegister, OpenInv, Unregistered
    <3>2. since' = [since EXCEPT ![hub.client] = Len(log) - Len(bcast)]
      BY <2>1 DEF HubRegister
    <3> QED
      BY <1>0, <3>1, <3>2
  <2>2. ASSUME NEW d \in Clients, HubOffer(d)
        PROVE  since'[c] = since[c] /\ dropped[c] \subseteq dropped'[c]
    BY <1>0, <2>2 DEF HubOffer
  <2>3. CASE UNCHANGED <<since, dropped>>
    BY <2>3
  <2> QED
    BY <2>1, <2>2, <2>3
       DEF Next, HubStep, NatsStep, ReaderStep, WriterStep, HubTakeRegister,
           HubTakeUnregister, HubCount, HubUnregister, HubTakeBroadcast,
           HubLockBroadcast, HubUnlockBroadcast, HubExit, StopCancel, StopClose,
           NatsDeliver, NatsOffer, NatsEnqueue, NatsUnlock, Connect, StartPumps,
           ReadFrame, HandleMessage, ReadError, ReaderClose, WriterTake, WriteFrame,
           WriteError, WriterClosed, PingError, PeerGone, vars, history
<1> QED
  BY <1>1, <1>2

\* A client enters the map with nothing fanned out to it yet.
LEMMA NewMember ==
  ASSUME TypeInv, [Next]_vars, NEW c \in Clients, c \notin clients, c \in clients'
  PROVE  since'[c] = Done(c)' /\ Done(c)' \in Nat
<1> USE DEF TypeInv, TypeOK
<1>1. HubRegister /\ hub.client = c
  <2>1. CASE HubRegister
    BY <2>1 DEF HubRegister
  <2>2. CASE clients' \subseteq clients
    BY <2>2
  <2> QED
    BY <2>1, <2>2
       DEF Next, HubStep, NatsStep, ReaderStep, WriterStep, HubTakeRegister,
           HubTakeUnregister, HubOffer, HubCount, HubUnregister, HubTakeBroadcast,
           HubLockBroadcast, HubUnlockBroadcast, HubExit, StopCancel, StopClose,
           NatsDeliver, NatsOffer, NatsEnqueue, NatsUnlock, Connect, StartPumps,
           ReadFrame, HandleMessage, ReadError, ReaderClose, WriterTake, WriteFrame,
           WriteError, WriterClosed, PingError, PeerGone, vars, hubVars
<1>2. DOMAIN since = Clients /\ bcast \in Seq(Msgs) /\ log \in Seq(Msgs)
      /\ Len(bcast) <= Len(log)
  BY DEF HistoryTypeOK, SharedTypeOK, HoldsOK
<1>3. since'[c] = Len(log) - Len(bcast) /\ UNCHANGED <<log, bcast>> /\ hub'.pc = "count"
  BY <1>1, <1>2 DEF HubRegister, HubTypeOK
<1>4. Done(c)' = Len(log') - Len(bcast')
  BY <1>3 DEF Done, Taken
<1> QED
  BY <1>2, <1>3, <1>4

\* Every step keeps it so that a broadcast is queued or was seen to be dropped.
LEMMA LossStep ==
  ASSUME TypeInv, OpenInv, LogInv, BcastInv, HeldInv, NoSilentLoss, [Next]_vars
  PROVE  NoSilentLoss'
<1> DEFINE Got(c, n) == \/ log[n] \in dropped[c]
                        \/ \E i \in DOMAIN Queued(c) : Queued(c)[i] = log[n]
<1> SUFFICES ASSUME NEW c \in Clients, c \in clients', conn'[c] = "open",
                    NEW n \in since'[c] + 1 .. Done(c)'
             PROVE  \/ log'[n] \in dropped'[c]
                    \/ \E i \in DOMAIN Queued(c)' : Queued(c)'[i] = log'[n]
  <2>1. clients' \subseteq Clients
    BY TypeStep DEF TypeInv, TypeOK, SharedTypeOK
  <2> QED
    BY <2>1 DEF NoSilentLoss
<1>1. CASE c \notin clients
  <2>1. since'[c] = Done(c)' /\ Done(c)' \in Nat
    BY <1>1, NewMember
  <2> QED
    BY <2>1
<1>2. CASE c \in clients
  <2>1. conn[c] = "open" /\ since'[c] = since[c] /\ dropped[c] \subseteq dropped'[c]
    BY <1>2, MemberMoves
  <2>2. /\ Done(c) \in Nat /\ Len(log) \in Nat /\ Done(c) <= Len(log)
        /\ \A k \in 1 .. Len(log) : log'[k] = log[k]
        /\ \/ Done(c)' = Done(c)
           \/ Done(c)' = Done(c) + 1 /\ Done(c) + 1 <= Len(log) /\ HubOffer(c)
        /\ HubOffer(c) => Done(c) + 1 = Taken
    BY <1>2, DoneMoves
  <2>3. since[c] \in Nat
    BY DEF TypeInv, TypeOK, HistoryTypeOK
  <2>4. /\ Queued(c) \in Seq(AnyMsg)
        /\ \/ Queued(c)' = Queued(c)
           \/ \E m \in AnyMsg : Queued(c)' = Append(Queued(c), m)
    <3>1. HubOffer(c) => hub.msg \in AnyMsg
      BY DEF HubOffer, TypeInv, HoldsOK, AnyMsg
    <3> QED
      BY <2>1, <3>1, QueueMoves
  <2>5. ASSUME NEW i \in DOMAIN Queued(c)
        PROVE  i \in DOMAIN Queued(c)' /\ Queued(c)'[i] = Queued(c)[i]
    <3> DEFINE q == Queued(c)
    <3> HIDE DEF q
    <3>1. \A m \in AnyMsg : i \in DOMAIN Append(q, m) /\ Append(q, m)[i] = q[i]
      BY <2>4, <2>5 DEF q
    <3> QED
      BY <2>4, <2>5, <3>1 DEF q
  <2>6. CASE n \in since[c] + 1 .. Done(c)
    <3>1. log'[n] = log[n]
      BY <2>2, <2>3, <2>6
    <3>2. Got(c, n)
      BY <1>2, <2>1, <2>6 DEF NoSilentLoss
    <3> QED
      BY <2>1, <2>5, <3>1, <3>2
  <2>7. CASE n \notin since[c] + 1 .. Done(c)
    <3>1. n = Done(c) + 1 /\ HubOffer(c) /\ n = Taken /\ n \in 1 .. Len(log)
      BY <2>1, <2>2, <2>3, <2>7
    <3>2. hub.msg = log'[n] /\ hub.msg \in AnyMsg
      BY <2>2, <3>1 DEF HubOffer, BcastInv, TypeInv, HoldsOK, AnyMsg
    <3>3. CASE Queued(c)' = Append(Queued(c), hub.msg)
      <4> DEFINE q == Queued(c)
                 m == hub.msg
      <4> HIDE DEF q, m
      <4>1. Len(q) + 1 \in DOMAIN Append(q, m) /\ Append(q, m)[Len(q) + 1] = m
        BY <2>4, <3>2 DEF q
      <4> QED
        BY <3>2, <3>3, <4>1 DEF q, m
    <3>4. CASE hub.msg \in dropped'[c]
      BY <3>2, <3>4
    <3> QED
      BY <1>2, <3>1, <3>3, <3>4, OfferQueues
  <2> QED
    BY <2>6, <2>7
<1> QED
  BY <1>1, <1>2

\* The empty hub has nothing under way.
LEMMA DeliveryInit == Init => DeliveryInv
<1> SUFFICES ASSUME Init PROVE DeliveryInv
  OBVIOUS
<1>1. /\ log = <<>> /\ bcast = <<>> /\ hub.pc = "select" /\ clients = {}
      /\ \A s \in Subs : nats[s].pc = "idle"
      /\ \A c \in Clients : /\ writer[c].pc = "none" /\ writer[c].held = NoMsg
                            /\ Queued(c) = <<>>
  BY DEF Init, Queued
<1>2. LogInv /\ NoSilentLoss
  BY <1>1 DEF LogInv, NoSilentLoss
<1>3. BcastInv /\ HeldInv
  BY <1>1 DEF BcastInv, HeldInv
<1>4. QueueInv
  BY <1>1 DEF QueueInv, InOrder
<1> QED
  BY <1>2, <1>3, <1>4 DEF DeliveryInv

\* Every step keeps what is said of the way of an event to the clients.
LEMMA DeliveryStep == TypeInv /\ OpenInv /\ DeliveryInv /\ [Next]_vars => DeliveryInv'
BY LogMoves, BcastMoves, HeldMoves, QueueStep, LossStep DEF DeliveryInv

\* The broadcasts a client gets come in the order in which they entered
\* h.broadcast, none twice, whatever the hub, the callbacks, the pumps and Stop
\* do meanwhile.
THEOREM BroadcastsStayInOrder == Spec => []BroadcastsInOrder
<1>1. ASSUME TypeInv, DeliveryInv PROVE BroadcastsInOrder
  <2> SUFFICES ASSUME NEW c \in Clients,
                      NEW i \in DOMAIN Queued(c), NEW j \in DOMAIN Queued(c), i < j,
                      Queued(c)[i] \in Broadcasts, Queued(c)[j] \in Broadcasts
               PROVE  LogIndex(Queued(c)[i]) < LogIndex(Queued(c)[j])
    BY DEF BroadcastsInOrder
  <2>1. InOrder(Queued(c), log, Done(c))
    BY <1>1 DEF DeliveryInv, QueueInv
  <2>2. \A n, k \in DOMAIN log : log[n] = log[k] => n = k
    BY <1>1 DEF DeliveryInv, LogInv
  <2>3. 1 .. Done(c) \subseteq DOMAIN log
    <3>1. Done(c) \in Int /\ Done(c) <= Len(log) /\ DOMAIN log = 1 .. Len(log)
          /\ Len(log) \in Nat
      BY <1>1 DEF TypeInv, TypeOK, SharedTypeOK, HoldsOK, Done, Taken
    <3> QED
      BY <3>1
  <2>4. ASSUME NEW m, NEW n \in 1 .. Done(c), log[n] = m PROVE LogIndex(m) = n
    BY <2>2, <2>3, <2>4 DEF LogIndex
  <2>5. PICK n \in 1 .. Done(c) : log[n] = Queued(c)[i]
    BY <2>1 DEF InOrder
  <2>6. PICK k \in 1 .. Done(c) : log[k] = Queued(c)[j]
    BY <2>1 DEF InOrder
  <2>7. n < k
    BY <2>1, <2>5, <2>6 DEF InOrder
  <2> QED
    BY <2>4, <2>5, <2>6, <2>7
<1> QED
  BY TypeInit, TypeStep, OpenInit, OpenStep, DeliveryInit, DeliveryStep, <1>1, PTL
     DEF Spec

\* A registered client whose connection works has every broadcast run has fanned
\* out since its registration, written or still queued, but for those run dropped
\* because its buffer was full.
THEOREM LossOnlyByFullBuffer == Spec => []NoSilentLoss
<1>1. DeliveryInv => NoSilentLoss
  BY DEF DeliveryInv
<1> QED
  BY TypeInit, TypeStep, OpenInit, OpenStep, DeliveryInit, DeliveryStep, <1>1, PTL
     DEF Spec
===============================================================================
