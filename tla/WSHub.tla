-------------------------------- MODULE WSHub --------------------------------
(***************************************************************************)
(* The WebSocket hub of internal/realtime/websocket.go.                    *)
(*                                                                         *)
(* Processes: the hub goroutine (run), the goroutine that calls Stop, one  *)
(* callback goroutine per NATS subscription (handleDocumentIndexed,        *)
(* handleCacheInvalidate), and for every client its HTTP handler           *)
(* (HandleWebSocket), its readPump and its writePump.  register and        *)
(* unregister are unbuffered channels: a send and its receive are one      *)
(* step.  A critical section of h.mu is one step, except the two read      *)
(* sections that send to one client at a time.                             *)
(***************************************************************************)
EXTENDS Integers, Sequences, FiniteSets

CONSTANTS
    Clients,       \* the connections that are ever made
    Msgs,          \* the NATS events that are ever delivered
    Topics,        \* topic names
    TopicsOf,      \* [Msgs -> SUBSET Topics]: AffectedTopics of an event
    KindOf,        \* [Msgs -> Subs]: the stream subject of an event
    Pong,          \* the reply to a client's ping, not an event
    NoMsg, NoClient,
    SendCap,       \* SendBufferSize
    BroadcastCap,  \* capacity of h.broadcast (256 in the code)
    MaxPerSecond,  \* MaxMessagesPerSecond
    MaxReads       \* bound: frames the peer of one client sends

\* The two JetStream subscriptions Start makes.
Subs == {"indexed", "cache"}

ASSUME HubAssumption ==
    /\ IsFiniteSet(Clients)
    /\ TopicsOf \in [Msgs -> SUBSET Topics]
    /\ KindOf \in [Msgs -> Subs]
    /\ Pong \notin Msgs /\ NoMsg \notin Msgs /\ NoMsg # Pong
    /\ NoClient \notin Clients
    /\ SendCap \in Nat \ {0} /\ BroadcastCap \in Nat \ {0}
    /\ MaxPerSecond \in Nat /\ MaxReads \in Nat

VARIABLES
    clients,   \* h.clients
    bcast,     \* h.broadcast, a buffered channel
    hub,       \* the run goroutine: [pc, client, msg, todo]
    stop,      \* the goroutine in Stop
    nats,      \* [Subs -> [pc, msg, todo]], the subscription callbacks
    pending,   \* events NATS has not delivered yet
    gauge,     \* metrics.ConnectionsCurrent
    conn,      \* the connection of a client
    join,      \* HandleWebSocket of a client
    reader,    \* readPump: [pc, frame, count, reads]
    writer,    \* writePump: [pc, held]
    send,      \* c.send, a buffered channel
    closed,    \* c.send has been closed
    topics,    \* c.topics
    panicked,  \* the process died in a send on a closed channel
    wire,      \* history: the messages the peer received, frame after frame
    log,       \* history: the events that entered h.broadcast, in order
    since,     \* history: Len of the log's taken part when a client registered
    dropped    \* history: the broadcasts dropped because c.send was full

hubVars    == <<clients, bcast, hub, stop, nats, pending, gauge>>
clientVars == <<conn, join, reader, writer, send, closed, topics>>
history    == <<wire, log, since, dropped>>
vars       == <<hubVars, clientVars, panicked, history>>

\* What a peer may send: a subscription change (one topic), a ping, or a frame
\* handleMessage ignores.
Frames == [type : {"subscribe", "unsubscribe"}, topic : Topics]
            \cup {[type |-> "ping"], [type |-> "other"]}
NoFrame == [type |-> "none"]

AnyMsg == Msgs \cup {Pong}

Init ==
    /\ clients = {} /\ bcast = <<>> /\ pending = Msgs /\ gauge = 0
    /\ hub = [pc |-> "select", client |-> NoClient, msg |-> NoMsg, todo |-> {}]
    /\ stop = "running"
    /\ nats = [s \in Subs |-> [pc |-> "idle", msg |-> NoMsg, todo |-> {}]]
    /\ conn = [c \in Clients |-> "none"]
    /\ join = [c \in Clients |-> "none"]
    /\ reader = [c \in Clients |->
                   [pc |-> "none", frame |-> NoFrame, count |-> 0, reads |-> 0]]
    /\ writer = [c \in Clients |-> [pc |-> "none", held |-> NoMsg]]
    /\ send = [c \in Clients |-> <<>>]
    /\ closed = [c \in Clients |-> FALSE]
    /\ topics = [c \in Clients |-> {}]
    /\ panicked = FALSE
    /\ wire = [c \in Clients |-> <<>>]
    /\ log = <<>>
    /\ since = [c \in Clients |-> 0]
    /\ dropped = [c \in Clients |-> {}]

-----------------------------------------------------------------------------
(* h.mu *)

\* The threads inside a read section that fans out.
Fanning == {s \in Subs : nats[s].pc = "fanout"}
ReadLocked == hub.pc = "fanout" \/ Fanning # {}

\* `select { case c.send <- m: default: }`: a full buffer drops the message; a
\* send on a closed channel panics, in a select too.
Offer(c, m) ==
    /\ send' = IF ~closed[c] /\ Len(send[c]) < SendCap
                 THEN [send EXCEPT ![c] = Append(@, m)] ELSE send
    /\ panicked' = closed[c]

\* close(client.send): closing twice panics.
CloseSend(c) ==
    /\ closed' = [closed EXCEPT ![c] = TRUE]
    /\ panicked' = closed[c]

-----------------------------------------------------------------------------
(* run *)

\* `case client := <-h.register`: the handler of c goes on to start the pumps.
HubTakeRegister(c) ==
    /\ hub.pc = "select" /\ join[c] = "registering"
    /\ hub' = [hub EXCEPT !.pc = "register", !.client = c]
    /\ join' = [join EXCEPT ![c] = "handed"]
    /\ UNCHANGED <<clients, bcast, stop, nats, pending, gauge, conn, reader,
                   writer, send, closed, topics, panicked, history>>

HubRegister ==
    LET c == hub.client IN
    /\ hub.pc = "register" /\ ~ReadLocked
    /\ clients' = clients \cup {c}
    /\ hub' = [hub EXCEPT !.pc = "count", !.client = NoClient]
    /\ since' = [since EXCEPT ![c] = Len(log) - Len(bcast)]
    /\ UNCHANGED <<bcast, stop, nats, pending, gauge, clientVars, panicked, wire,
                   log, dropped>>

\* The metrics are updated after h.mu is released.
HubCount ==
    /\ hub.pc = "count"
    /\ gauge' = gauge + 1
    /\ hub' = [hub EXCEPT !.pc = "select"]
    /\ UNCHANGED <<clients, bcast, stop, nats, pending, clientVars, panicked,
                   history>>

\* `case client := <-h.unregister`: the readPump goes on to close its connection.
HubTakeUnregister(c) ==
    /\ hub.pc = "select" /\ reader[c].pc = "unregistering"
    /\ hub' = [hub EXCEPT !.pc = "unregister", !.client = c]
    /\ reader' = [reader EXCEPT ![c].pc = "closing"]
    /\ UNCHANGED <<clients, bcast, stop, nats, pending, gauge, conn, join, writer,
                   send, closed, topics, panicked, history>>

\* Faulty variants: the channel is closed and the client left in the map; the
\* channel is closed whether or not Stop did it first; the gauge is forgotten.
HubUnregisterKeeps ==
    LET c == hub.client IN
    /\ hub.pc = "unregister" /\ ~ReadLocked
    /\ CloseSend(c)
    /\ hub' = [hub EXCEPT !.pc = "select", !.client = NoClient]
    /\ UNCHANGED <<clients, bcast, stop, nats, pending, gauge, conn, join, reader,
                   writer, send, topics, history>>

HubUnregisterNoGauge ==
    LET c == hub.client IN
    /\ hub.pc = "unregister" /\ ~ReadLocked
    /\ clients' = clients \ {c}
    /\ IF c \in clients THEN CloseSend(c) ELSE UNCHANGED <<closed, panicked>>
    /\ hub' = [hub EXCEPT !.pc = "select", !.client = NoClient]
    /\ UNCHANGED <<bcast, stop, nats, pending, gauge, conn, join, reader, writer,
                   send, topics, history>>

HubUnregister ==
    LET c == hub.client IN
    /\ hub.pc = "unregister" /\ ~ReadLocked
    /\ \/ /\ c \in clients
          /\ clients' = clients \ {c}
          /\ CloseSend(c)
          /\ gauge' = gauge - 1
       \/ c \notin clients /\ UNCHANGED <<clients, closed, panicked, gauge>>
    /\ hub' = [hub EXCEPT !.pc = "select", !.client = NoClient]
    /\ UNCHANGED <<bcast, stop, nats, pending, conn, join, reader, writer, send,
                   topics, history>>

\* Faulty variant: without clients run leaves the channel alone.
HubTakeBroadcastForClients ==
    /\ hub.pc = "select" /\ bcast # <<>> /\ clients # {}
    /\ hub' = [hub EXCEPT !.pc = "broadcast", !.msg = Head(bcast)]
    /\ bcast' = Tail(bcast)
    /\ UNCHANGED <<clients, stop, nats, pending, gauge, clientVars, panicked,
                   history>>

\* `case message := <-h.broadcast`.
HubTakeBroadcast ==
    /\ hub.pc = "select" /\ bcast # <<>>
    /\ hub' = [hub EXCEPT !.pc = "broadcast", !.msg = Head(bcast)]
    /\ bcast' = Tail(bcast)
    /\ UNCHANGED <<clients, stop, nats, pending, gauge, clientVars, panicked,
                   history>>

\* h.mu.RLock(): the map iterated is the one of this moment.
HubLockBroadcast ==
    /\ hub.pc = "broadcast"
    /\ hub' = [hub EXCEPT !.pc = "fanout", !.todo = clients]
    /\ UNCHANGED <<clients, bcast, stop, nats, pending, gauge, clientVars,
                   panicked, history>>

HubOffer(c) ==
    /\ hub.pc = "fanout" /\ c \in hub.todo
    /\ Offer(c, hub.msg)
    /\ dropped' = IF Len(send[c]) < SendCap
                    THEN dropped ELSE [dropped EXCEPT ![c] = @ \cup {hub.msg}]
    /\ hub' = [hub EXCEPT !.todo = @ \ {c}]
    /\ UNCHANGED <<clients, bcast, stop, nats, pending, gauge, conn, join, reader,
                   writer, closed, topics, wire, log, since>>

HubUnlockBroadcast ==
    /\ hub.pc = "fanout" /\ hub.todo = {}
    /\ hub' = [hub EXCEPT !.pc = "select", !.msg = NoMsg]
    /\ UNCHANGED <<clients, bcast, stop, nats, pending, gauge, clientVars,
                   panicked, history>>

\* `case <-ctx.Done()`, one of the ready cases: select picks any.
HubExit ==
    /\ hub.pc = "select" /\ stop # "running"
    /\ hub' = [hub EXCEPT !.pc = "exited"]
    /\ UNCHANGED <<clients, bcast, stop, nats, pending, gauge, clientVars,
                   panicked, history>>

HubStep ==
    \/ \E c \in Clients : HubTakeRegister(c) \/ HubTakeUnregister(c) \/ HubOffer(c)
    \/ HubRegister \/ HubCount \/ HubUnregister \/ HubTakeBroadcast
    \/ HubLockBroadcast \/ HubUnlockBroadcast \/ HubExit

-----------------------------------------------------------------------------
(* Stop *)

\* h.cancel(), then the subscriptions are drained: what was fetched is still
\* handled, so the callbacks go on.
StopCancel ==
    /\ stop = "running"
    /\ stop' = "cancelled"
    /\ UNCHANGED <<clients, bcast, hub, nats, pending, gauge, clientVars,
                   panicked, history>>

\* Faulty variant: Stop closes the channels without taking h.mu.
StopCloseUnlocked ==
    /\ stop = "cancelled"
    /\ stop' = "stopped"
    /\ closed' = [c \in Clients |-> closed[c] \/ c \in clients]
    /\ panicked' = \E c \in clients : closed[c]
    /\ conn' = [c \in Clients |-> IF c \in clients THEN "closed" ELSE conn[c]]
    /\ clients' = {}
    /\ UNCHANGED <<bcast, hub, nats, pending, gauge, join, reader, writer, send,
                   topics, history>>

\* Under h.mu every client's channel and connection is closed and the map is
\* replaced.  ConnectionsCurrent is left as it is.
StopClose ==
    /\ stop = "cancelled" /\ ~ReadLocked
    /\ stop' = "stopped"
    /\ closed' = [c \in Clients |-> closed[c] \/ c \in clients]
    /\ panicked' = \E c \in clients : closed[c]
    /\ conn' = [c \in Clients |-> IF c \in clients THEN "closed" ELSE conn[c]]
    /\ clients' = {}
    /\ UNCHANGED <<bcast, hub, nats, pending, gauge, join, reader, writer, send,
                   topics, history>>

-----------------------------------------------------------------------------
(* handleDocumentIndexed, handleCacheInvalidate and broadcastToTopics *)

\* NATS runs the callback of one subscription for one message at a time.
NatsDeliver(s, m) ==
    /\ nats[s].pc = "idle" /\ m \in pending /\ KindOf[m] = s
    /\ pending' = pending \ {m}
    /\ \/ /\ s = "cache" \/ TopicsOf[m] = {}
          /\ nats' = [nats EXCEPT ![s] = [pc |-> "sending", msg |-> m, todo |-> {}]]
       \/ /\ s = "indexed" /\ TopicsOf[m] # {}
          /\ nats' = [nats EXCEPT ![s] = [pc |-> "fanout", msg |-> m, todo |-> clients]]
    /\ UNCHANGED <<clients, bcast, hub, stop, gauge, clientVars, panicked, history>>

\* `h.broadcast <- data` blocks while the channel is full, whoever still reads it.
NatsEnqueue(s) ==
    /\ nats[s].pc = "sending" /\ Len(bcast) < BroadcastCap
    /\ bcast' = Append(bcast, nats[s].msg)
    /\ log' = Append(log, nats[s].msg)
    /\ nats' = [nats EXCEPT ![s] = [pc |-> "idle", msg |-> NoMsg, todo |-> {}]]
    /\ UNCHANGED <<clients, hub, stop, pending, gauge, clientVars, panicked, wire,
                   since, dropped>>

\* A client with no topic filter receives everything.
IsSubscribedToAny(c, ts) == topics[c] = {} \/ topics[c] \cap ts # {}

NatsOffer(s, c) ==
    LET m == nats[s].msg IN
    /\ nats[s].pc = "fanout" /\ c \in nats[s].todo
    /\ IF IsSubscribedToAny(c, TopicsOf[m])
         THEN Offer(c, m) ELSE UNCHANGED <<send, panicked>>
    /\ nats' = [nats EXCEPT ![s].todo = @ \ {c}]
    /\ UNCHANGED <<clients, bcast, hub, stop, pending, gauge, conn, join, reader,
                   writer, closed, topics, history>>

NatsUnlock(s) ==
    /\ nats[s].pc = "fanout" /\ nats[s].todo = {}
    /\ nats' = [nats EXCEPT ![s] = [pc |-> "idle", msg |-> NoMsg, todo |-> {}]]
    /\ UNCHANGED <<clients, bcast, hub, stop, pending, gauge, clientVars, panicked,
                   history>>

NatsStep(s) ==
    \/ \E m \in Msgs : NatsDeliver(s, m)
    \/ \E c \in Clients : NatsOffer(s, c)
    \/ NatsEnqueue(s) \/ NatsUnlock(s)

-----------------------------------------------------------------------------
(* HandleWebSocket *)

\* Upgrade, the client with its initial topics, then `h.register <- client`.
Connect(c) ==
    /\ conn[c] = "none"
    /\ conn' = [conn EXCEPT ![c] = "open"]
    /\ join' = [join EXCEPT ![c] = "registering"]
    /\ \E ts \in SUBSET Topics : topics' = [topics EXCEPT ![c] = ts]
    /\ UNCHANGED <<hubVars, reader, writer, send, closed, panicked, history>>

\* go client.writePump(); go client.readPump()
StartPumps(c) ==
    /\ join[c] = "handed"
    /\ join' = [join EXCEPT ![c] = "done"]
    /\ reader' = [reader EXCEPT ![c].pc = "reading"]
    /\ writer' = [writer EXCEPT ![c].pc = "select"]
    /\ UNCHANGED <<hubVars, conn, send, closed, topics, panicked, history>>

-----------------------------------------------------------------------------
(* readPump *)

\* ReadMessage returns a frame.  The limiter counts the frames of a window that
\* starts with the first frame a second after the last window's start; over the
\* limit the frame is skipped.  The count saturates one above the limit.
ReadFrame(c) ==
    /\ reader[c].pc = "reading" /\ conn[c] # "closed" /\ reader[c].reads < MaxReads
    /\ \E f \in Frames, newWindow \in BOOLEAN :
         LET n == IF newWindow THEN 1
                  ELSE IF reader[c].count > MaxPerSecond
                         THEN reader[c].count ELSE reader[c].count + 1
             limited == ~newWindow /\ n > MaxPerSecond
         IN reader' = [reader EXCEPT ![c] =
              [pc    |-> IF limited THEN "reading" ELSE "handling",
               frame |-> IF limited THEN NoFrame ELSE f,
               count |-> n,
               reads |-> @.reads + 1]]
    /\ UNCHANGED <<hubVars, conn, join, writer, send, closed, topics, panicked,
                   history>>

\* handleMessage.  The pong is sent without h.mu.
HandleMessage(c) ==
    LET f == reader[c].frame IN
    /\ reader[c].pc = "handling"
    /\ CASE f.type = "subscribe" ->
              /\ topics' = [topics EXCEPT ![c] = @ \cup {f.topic}]
              /\ UNCHANGED <<send, panicked>>
         [] f.type = "unsubscribe" ->
              /\ topics' = [topics EXCEPT ![c] = @ \ {f.topic}]
              /\ UNCHANGED <<send, panicked>>
         [] f.type = "ping" -> Offer(c, Pong) /\ UNCHANGED topics
         [] OTHER -> UNCHANGED <<topics, send, panicked>>
    /\ reader' = [reader EXCEPT ![c].pc = "reading", ![c].frame = NoFrame]
    /\ UNCHANGED <<hubVars, conn, join, writer, closed, history>>

\* Faulty variant: readPump returns without unregistering.
ReadErrorSilent(c) ==
    /\ reader[c].pc = "reading" /\ conn[c] # "open"
    /\ reader' = [reader EXCEPT ![c].pc = "done"]
    /\ UNCHANGED <<hubVars, conn, join, writer, send, closed, topics, panicked,
                   history>>

\* ReadMessage fails (peer gone, connection closed here, read deadline, a frame
\* over the limit, which PeerGone stands for as well); the
\* deferred `unregister <- c` then blocks until run receives it.
ReadError(c) ==
    /\ reader[c].pc = "reading" /\ conn[c] # "open"
    /\ reader' = [reader EXCEPT ![c].pc = "unregistering"]
    /\ UNCHANGED <<hubVars, conn, join, writer, send, closed, topics, panicked,
                   history>>

\* The deferred conn.Close().
ReaderClose(c) ==
    /\ reader[c].pc = "closing"
    /\ reader' = [reader EXCEPT ![c].pc = "done"]
    /\ conn' = [conn EXCEPT ![c] = "closed"]
    /\ UNCHANGED <<hubVars, join, writer, send, closed, topics, panicked, history>>

ReaderStep(c) == HandleMessage(c) \/ ReadError(c) \/ ReaderClose(c)

-----------------------------------------------------------------------------
(* writePump *)

\* Faulty variant: the received message is not kept for the write.
WriterTakeLoses(c) ==
    /\ writer[c].pc = "select" /\ send[c] # <<>>
    /\ writer' = [writer EXCEPT ![c].pc = "write"]
    /\ send' = [send EXCEPT ![c] = Tail(@)]
    /\ UNCHANGED <<hubVars, conn, join, reader, closed, topics, panicked, history>>

\* `case message, ok := <-c.send` with a message.
WriterTake(c) ==
    /\ writer[c].pc = "select" /\ send[c] # <<>>
    /\ writer' = [writer EXCEPT ![c] = [pc |-> "write", held |-> Head(send[c])]]
    /\ send' = [send EXCEPT ![c] = Tail(@)]
    /\ UNCHANGED <<hubVars, conn, join, reader, closed, topics, panicked, history>>

\* Faulty variants: the queued messages leave before the one held, and the queue
\* is emptied without being written.
WriteFrameSwapped(c) ==
    /\ writer[c].pc = "write" /\ conn[c] # "closed"
    /\ wire' = IF conn[c] = "open"
                 THEN [wire EXCEPT ![c] = @ \o Append(send[c], writer[c].held)]
                 ELSE wire
    /\ send' = [send EXCEPT ![c] = <<>>]
    /\ writer' = [writer EXCEPT ![c] = [pc |-> "select", held |-> NoMsg]]
    /\ UNCHANGED <<hubVars, conn, join, reader, closed, topics, panicked, log,
                   since, dropped>>

WriteFrameHeldOnly(c) ==
    /\ writer[c].pc = "write" /\ conn[c] # "closed"
    /\ wire' = IF conn[c] = "open"
                 THEN [wire EXCEPT ![c] = Append(@, writer[c].held)] ELSE wire
    /\ send' = [send EXCEPT ![c] = <<>>]
    /\ writer' = [writer EXCEPT ![c] = [pc |-> "select", held |-> NoMsg]]
    /\ UNCHANGED <<hubVars, conn, join, reader, closed, topics, panicked, log,
                   since, dropped>>

\* The message and everything queued since leave in one frame; the kernel also
\* takes a frame whose peer is gone.
WriteFrame(c) ==
    /\ writer[c].pc = "write" /\ conn[c] # "closed"
    /\ wire' = IF conn[c] = "open"
                 THEN [wire EXCEPT ![c] = Append(@, writer[c].held) \o send[c]]
                 ELSE wire
    /\ send' = [send EXCEPT ![c] = <<>>]
    /\ writer' = [writer EXCEPT ![c] = [pc |-> "select", held |-> NoMsg]]
    /\ UNCHANGED <<hubVars, conn, join, reader, closed, topics, panicked, log,
                   since, dropped>>

\* NextWriter or Close fails (or the write deadline passes): conn.Close().
WriteError(c) ==
    /\ writer[c].pc = "write"
    /\ conn' = [conn EXCEPT ![c] = "closed"]
    /\ writer' = [writer EXCEPT ![c].pc = "done"]
    /\ UNCHANGED <<hubVars, join, reader, send, closed, topics, panicked, history>>

\* `!ok`: the channel is closed and drained; a close frame, then conn.Close().
WriterClosed(c) ==
    /\ writer[c].pc = "select" /\ send[c] = <<>> /\ closed[c]
    /\ conn' = [conn EXCEPT ![c] = "closed"]
    /\ writer' = [writer EXCEPT ![c].pc = "done"]
    /\ UNCHANGED <<hubVars, join, reader, send, closed, topics, panicked, history>>

\* The ping of the ticker fails on a connection that is gone.
PingError(c) ==
    /\ writer[c].pc = "select" /\ conn[c] # "open"
    /\ conn' = [conn EXCEPT ![c] = "closed"]
    /\ writer' = [writer EXCEPT ![c].pc = "done"]
    /\ UNCHANGED <<hubVars, join, reader, send, closed, topics, panicked, history>>

WriterStep(c) == \/ WriterTake(c) \/ WriteFrame(c) \/ WriteError(c)
                 \/ WriterClosed(c) \/ PingError(c)

-----------------------------------------------------------------------------
(* The environment *)

\* The peer closes or the network fails.
PeerGone(c) ==
    /\ conn[c] = "open"
    /\ conn' = [conn EXCEPT ![c] = "lost"]
    /\ UNCHANGED <<hubVars, join, reader, writer, send, closed, topics, panicked,
                   history>>

Next ==
    /\ ~panicked
    /\ \/ HubStep
       \/ StopCancel
       \/ StopClose
       \/ \E s \in Subs : NatsStep(s)
       \/ \E c \in Clients :
            \/ Connect(c) \/ StartPumps(c)
            \/ ReadFrame(c) \/ ReaderStep(c)
            \/ WriterStep(c)
            \/ PeerGone(c)

Spec == Init /\ [][Next]_vars

\* Go runs every goroutine that can run.  Nothing obliges a peer to send, to
\* connect or to leave, or an operator to stop the process; run's select is fair
\* to each of its channels because Go picks among the ready ones at random.
Alive(A) == ~panicked /\ A

Fairness ==
    /\ WF_vars(Alive(HubStep))
    /\ SF_vars(Alive(HubTakeBroadcast)) /\ SF_vars(Alive(HubExit))
    /\ \A c \in Clients :
         /\ SF_vars(Alive(HubTakeRegister(c))) /\ SF_vars(Alive(HubTakeUnregister(c)))
         /\ WF_vars(Alive(StartPumps(c)))
         /\ WF_vars(Alive(ReaderStep(c))) /\ WF_vars(Alive(WriterStep(c)))
    /\ WF_vars(Alive(StopClose))
    /\ \A s \in Subs : WF_vars(Alive(NatsStep(s)))

FairSpec == Spec /\ Fairness

-----------------------------------------------------------------------------
(* Properties *)

HubPcs == {"select", "register", "count", "unregister", "broadcast", "fanout",
           "exited"}

SharedTypeOK ==
    /\ clients \subseteq Clients /\ pending \subseteq Msgs
    /\ bcast \in Seq(Msgs) /\ log \in Seq(Msgs)
    /\ stop \in {"running", "cancelled", "stopped"}
    /\ gauge \in Int /\ panicked \in BOOLEAN

HubTypeOK == hub \in [pc : HubPcs, client : Clients \cup {NoClient},
                      msg : Msgs \cup {NoMsg}, todo : SUBSET Clients]

NatsTypeOK == nats \in [Subs -> [pc : {"idle", "sending", "fanout"},
                                 msg : Msgs \cup {NoMsg}, todo : SUBSET Clients]]

ReaderTypeOK == reader \in [Clients ->
    [pc : {"none", "reading", "handling", "unregistering", "closing", "done"},
     frame : Frames \cup {NoFrame}, count : Nat, reads : Nat]]

WriterTypeOK == writer \in [Clients -> [pc : {"none", "select", "write", "done"},
                                        held : AnyMsg \cup {NoMsg}]]

ClientTypeOK ==
    /\ conn \in [Clients -> {"none", "open", "lost", "closed"}]
    /\ join \in [Clients -> {"none", "registering", "handed", "done"}]
    /\ send \in [Clients -> Seq(AnyMsg)]
    /\ closed \in [Clients -> BOOLEAN]
    /\ topics \in [Clients -> SUBSET Topics]

HistoryTypeOK ==
    /\ wire \in [Clients -> Seq(AnyMsg)]
    /\ since \in [Clients -> Nat]
    /\ dropped \in [Clients -> SUBSET Msgs]

\* The values the variables take.
TypeOK == SharedTypeOK /\ HubTypeOK /\ NatsTypeOK /\ ReaderTypeOK /\ WriterTypeOK
            /\ ClientTypeOK /\ HistoryTypeOK

\* A client still in h.clients has an open send channel, whichever of the
\* unregistration and Stop comes first: the two places that close one take the
\* client out of the map in the same critical section.
MembersOpen == \A c \in clients : ~closed[c]

\* A client a fan-out has still to visit has an open send channel: holding RLock
\* keeps Stop and the unregistration out until the loop ends.
FanoutTargetsOpen ==
    \A c \in Clients :
        \/ hub.pc = "fanout" /\ c \in hub.todo
        \/ \E s \in Fanning : c \in nats[s].todo
        => ~closed[c]

\* No double close and no send on a closed channel in run, Stop or the NATS
\* callbacks: a readPump answering a ping is the only thread that can die.
OnlyPongPanics ==
    [][panicked' => \E c \in Clients : reader[c].pc = "handling"
                       /\ reader[c].frame.type = "ping" /\ closed[c]]_vars

\* Stop "gracefully stops the WebSocket hub" (comment on Stop): no goroutine of
\* the hub dies in a send on a closed channel.
NeverPanics == ~panicked

\* Until Stop empties the map, ConnectionsCurrent counts the registered clients,
\* but for the one that run has just put in and is about to count, however
\* registrations, unregistrations and fan-outs interleave.
Uncounted == IF hub.pc = "count" THEN 1 ELSE 0
GaugeExact == stop # "stopped" => gauge + Uncounted = Cardinality(clients)

\* The events that reach clients through h.broadcast.
Broadcasts == {m \in Msgs : KindOf[m] = "cache" \/ TopicsOf[m] = {}}

\* Everything ever queued for c, oldest first, as far as it still exists.
Queued(c) ==
    wire[c] \o (IF writer[c].held = NoMsg THEN <<>> ELSE <<writer[c].held>>) \o send[c]

LogIndex(m) == CHOOSE i \in DOMAIN log : log[i] = m

\* The broadcasts a client gets are in the order in which they entered
\* h.broadcast, none twice, across the hub's queue, the client's queue, the
\* message writePump holds and the frames it has written.
BroadcastsInOrder ==
    \A c \in Clients : LET q == Queued(c) IN
        \A i, j \in DOMAIN q :
            i < j /\ {q[i], q[j]} \subseteq Broadcasts => LogIndex(q[i]) < LogIndex(q[j])

\* The broadcasts the hub has fanned out, or is fanning out and has offered c,
\* are the first ones of the log.
Taken == Len(log) - Len(bcast)
Done(c) == IF hub.pc = "broadcast" \/ (hub.pc = "fanout" /\ c \in hub.todo)
             THEN Taken - 1 ELSE Taken

\* A registered client whose connection works misses a broadcast only when its
\* buffer was full at the time.
NoSilentLoss ==
    \A c \in clients :
        conn[c] = "open" =>
            \A n \in since[c] + 1 .. Done(c) :
                \/ log[n] \in dropped[c]
                \/ \E i \in DOMAIN Queued(c) : Queued(c)[i] = log[n]

\* "Close all client connections" (Stop): none is registered once Stop is done.
NoClientAfterStop == stop = "stopped" => clients = {}

\* A client whose connection is gone leaves the map while the hub runs: its
\* readPump notices and the hub takes the unregistration, whatever else it does.
DeadClientLeaves ==
    \A c \in Clients :
        (c \in clients /\ conn[c] # "open")
            ~> (c \notin clients \/ stop # "running" \/ panicked)

\* An event a NATS callback has in hand is fanned out or queued and the callback
\* returns, so that NATS can deliver the next one, while the hub runs.
CallbackReturns ==
    \A s \in Subs :
        nats[s].pc # "idle" ~> (nats[s].pc = "idle" \/ stop # "running" \/ panicked)
===============================================================================
