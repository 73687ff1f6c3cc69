-------------------------- MODULE ConversationMemory --------------------------
(***************************************************************************)
(* The three tiers of one conversation's history, internal/agent/memory.go *)
(* (the map activeConversations, a Redis key, the messages table), as the  *)
(* requests of internal/agent/orchestrator.go use them: Process reads the  *)
(* history, calls the LLM and then saves the user's message and the reply. *)
(* Requests run concurrently; the mutex protects single accesses to the    *)
(* map, so every tier access is a step of its own.  Beside them one        *)
(* administrative operation (Clear, ArchiveConversation, or the HTTP       *)
(* handler's DeleteConversation, which knows the database only), Redis     *)
(* expiry and a restart of the process.                                    *)
(***************************************************************************)
EXTENDS Naturals, Sequences, FiniteSets, SequencesExt

CONSTANTS
    Requests,     \* the requests ever made for this conversation
    Limit,        \* MaxHistoryMessages
    MaxInFlight,  \* bound: requests that run at the same time
    Faults,       \* what may go wrong, a subset of FaultKinds
    Begins,       \* how the conversation may begin, a subset of BeginKinds
    AdminOps      \* the administrative operations considered

\* GET and SET of Redis fail ("redis") or DEL does ("del"); the process is restarted
\* at any time ("restart") or after it has answered its requests ("redeploy").
FaultKinds == {"redis", "del", "expire", "db", "llm", "restart", "redeploy"}

\* A conversation is created by POST /conversations ("post"), by a chat request
\* without an id, for which chatServiceAdapter makes one ("adapter"), or by a
\* caller that gives Process the nil id ("nil").
BeginKinds == {"post", "adapter", "nil"}

ASSUME MemoryAssumption ==
    /\ IsFiniteSet(Requests)
    /\ Limit \in Nat \ {0} /\ MaxInFlight \in Nat \ {0}
    /\ Faults \subseteq FaultKinds /\ Begins \subseteq BeginKinds
    /\ AdminOps \subseteq {"clear", "archive", "delete"}

VARIABLES
    mem,      \* activeConversations[id]; an absent entry reads as <<>>
    redis,    \* "conv:history:<id>"; <<>> is a missing key
    db,       \* the rows of messages
    row,      \* the conversation has a row: the messages' foreign key
    clock,    \* time.Now(), distinct at each use
    begin,    \* how this conversation begins
    req,      \* the requests
    admin,    \* the administrative operation
    erased,   \* history: the rows it removed
    refused   \* history: the messages whose INSERT the database failed

vars == <<mem, redis, db, row, clock, begin, req, admin, erased, refused>>

Roles == {"user", "assistant"}
Message == [by : Requests, role : Roles, at : Nat]

\* Faulty variant: the rows as the query returns them, latest first.
ByTimeDescending(rows) ==
    [i \in 1 .. Cardinality(rows) |->
       CHOOSE m \in rows : Cardinality({n \in rows : n.at > m.at}) = i - 1]

\* The order of `ORDER BY created_at`; LIMIT with DESC and the reversal keep the
\* latest ones, oldest first.
ByTime(rows) ==
    [i \in 1 .. Cardinality(rows) |->
       CHOOSE m \in rows : Cardinality({n \in rows : n.at < m.at}) = i - 1]
Latest(s) == IF Len(s) <= Limit THEN s ELSE SubSeq(s, Len(s) - Limit + 1, Len(s))

\* What a request holds: its start time, the rows it read, the history it gave
\* to the LLM, the message it is saving, and whether the administrative
\* operation was over before it started.
IdleRequest == [pc |-> "idle", start |-> 0, rows |-> <<>>, hist |-> <<>>,
                role |-> "user", at |-> 0, late |-> FALSE]

Init ==
    /\ mem = <<>> /\ redis = <<>> /\ db = {}
    /\ begin \in Begins /\ row = (begin = "post")
    /\ clock = 1
    /\ req = [r \in Requests |-> IdleRequest]
    /\ admin = [op |-> "none", pc |-> "idle"]
    /\ erased = {} /\ refused = {}

InFlight == {r \in Requests : req[r].pc \notin {"idle", "done", "dead"}}

\* May the operation fail in this model?
MayFail(kind) == kind \in Faults

Go(r, pc) == req' = [req EXCEPT ![r].pc = pc]

-----------------------------------------------------------------------------
(* Process, up to the history *)

\* The first request of a conversation that was not posted; its answer tells
\* the client the id.
First(r) == begin # "post" /\ \A q \in Requests \ {r} : req[q].pc = "idle"

\* Process makes the record of a conversation whose id is nil.  The adapter never
\* passes nil: it has made an id itself.
Start(r) ==
    /\ req[r].pc = "idle" /\ Cardinality(InFlight) < MaxInFlight
    /\ begin = "post" \/ First(r) \/ \E q \in Requests : req[q].pc = "done"
    /\ req' = [req EXCEPT
         ![r].pc = IF First(r) /\ begin = "nil" THEN "ensure" ELSE "memory",
         ![r].start = clock, ![r].late = (admin.pc = "done")]
    /\ clock' = clock + 1
    /\ UNCHANGED <<mem, redis, db, row, begin, admin, erased, refused>>

\* EnsureConversation; its error is only logged.
EnsureConversation(r) ==
    /\ req[r].pc = "ensure"
    /\ row' = TRUE \/ (MayFail("db") /\ row' = row)
    /\ Go(r, "memory")
    /\ UNCHANGED <<mem, redis, db, clock, begin, admin, erased, refused>>

\* GetHistory, first tier: a non-empty entry is the answer.
ReadMemory(r) ==
    /\ req[r].pc = "memory"
    /\ \/ mem # <<>> /\ req' = [req EXCEPT ![r].pc = "llm", ![r].hist = Latest(mem)]
       \/ mem = <<>> /\ Go(r, "redis")
    /\ UNCHANGED <<mem, redis, db, row, clock, begin, admin, erased, refused>>

\* Second tier: a hit is returned and leaves the map empty; an error is a miss.
ReadRedis(r) ==
    /\ req[r].pc = "redis"
    /\ \/ redis # <<>> /\ req' = [req EXCEPT ![r].pc = "llm", ![r].hist = Latest(redis)]
       \/ (redis = <<>> \/ MayFail("redis")) /\ Go(r, "query")
    /\ UNCHANGED <<mem, redis, db, row, clock, begin, admin, erased, refused>>

\* Third tier.  On an error Process goes on without a history.
QueryMessages(r) ==
    LET rows == Latest(ByTime(db)) IN
    /\ req[r].pc = "query"
    /\ \/ req' = [req EXCEPT ![r].rows = rows,
                             ![r].pc = IF rows = <<>> THEN "fillMemory" ELSE "fillRedis"]
       \/ MayFail("db") /\ Go(r, "llm")
    /\ UNCHANGED <<mem, redis, db, row, clock, begin, admin, erased, refused>>

\* Faulty variant: the key is set from the map instead of the rows read.
FillRedisFromMemory(r) ==
    /\ req[r].pc = "fillRedis"
    /\ redis' = mem
    /\ Go(r, "fillMemory")
    /\ UNCHANGED <<mem, db, row, clock, begin, admin, erased, refused>>

FillRedis(r) ==
    /\ req[r].pc = "fillRedis"
    /\ redis' = req[r].rows \/ (MayFail("redis") /\ redis' = redis)
    /\ Go(r, "fillMemory")
    /\ UNCHANGED <<mem, db, row, clock, begin, admin, erased, refused>>

FillMemory(r) ==
    /\ req[r].pc = "fillMemory"
    /\ mem' = req[r].rows
    /\ req' = [req EXCEPT ![r].pc = "llm", ![r].hist = req[r].rows]
    /\ UNCHANGED <<redis, db, row, clock, begin, admin, erased, refused>>

-----------------------------------------------------------------------------
(* Process, the rest *)

\* Faulty variant: the user's message enters the map before the LLM is called.
CallLLMAfterAppend(r) ==
    /\ req[r].pc = "llm"
    /\ mem' = Append(mem, [by |-> r, role |-> "user", at |-> req[r].start])
    /\ \/ req' = [req EXCEPT ![r].pc = "insert", ![r].at = req[r].start]
       \/ MayFail("llm") /\ Go(r, "done")
    /\ UNCHANGED <<redis, db, row, clock, begin, admin, erased, refused>>

\* The agentic loop: an error ends the request and nothing is saved.
CallLLM(r) ==
    /\ req[r].pc = "llm"
    /\ \/ req' = [req EXCEPT ![r].pc = "append", ![r].at = req[r].start]
       \/ MayFail("llm") /\ Go(r, "done")
    /\ UNCHANGED <<mem, redis, db, row, clock, begin, admin, erased, refused>>

Saving(r) == [by |-> r, role |-> req[r].role, at |-> req[r].at]

\* SaveMessage, the map: before the database, and kept if that fails.
AppendMemory(r) ==
    /\ req[r].pc = "append"
    /\ mem' = Append(mem, Saving(r))
    /\ Go(r, "insert")
    /\ UNCHANGED <<redis, db, row, clock, begin, admin, erased, refused>>

\* SaveMessage returned: after the user's message the reply, created now.
NextMessage(r) ==
    IF req[r].role = "user"
      THEN /\ req' = [req EXCEPT ![r].pc = "append", ![r].role = "assistant",
                                 ![r].at = clock]
           /\ clock' = clock + 1
      ELSE Go(r, "done") /\ UNCHANGED clock

\* Faulty variant: the insertion is skipped when the request has a row already.
InsertOnce(r) ==
    /\ req[r].pc = "insert"
    /\ \/ /\ row /\ Go(r, "invalidate") /\ UNCHANGED clock
          /\ db' = IF \E m \in db : m.by = r THEN db ELSE db \cup {Saving(r)}
       \/ ~row /\ UNCHANGED db /\ NextMessage(r)
    /\ UNCHANGED <<mem, redis, row, begin, admin, erased, refused>>

\* INSERT, which needs the conversation's row.  An error returns at once: the
\* Redis key stays.
InsertMessage(r) ==
    /\ req[r].pc = "insert"
    /\ \/ /\ row /\ db' = db \cup {Saving(r)} /\ Go(r, "invalidate")
          /\ UNCHANGED <<clock, refused>>
       \/ ~row /\ NextMessage(r) /\ UNCHANGED <<db, refused>>
       \/ /\ MayFail("db") /\ refused' = refused \cup {Saving(r)}
          /\ NextMessage(r) /\ UNCHANGED db
    /\ UNCHANGED <<mem, redis, row, begin, admin, erased>>

\* Faulty variant: the key is left to its TTL.
KeepCached(r) ==
    /\ req[r].pc = "invalidate"
    /\ redis' = redis
    /\ NextMessage(r)
    /\ UNCHANGED <<mem, db, row, begin, admin, erased, refused>>

DeleteCached(r) ==
    /\ req[r].pc = "invalidate"
    /\ redis' = <<>> \/ (MayFail("del") /\ redis' = redis)
    /\ NextMessage(r)
    /\ UNCHANGED <<mem, db, row, begin, admin, erased, refused>>

RequestStep(r) ==
    \/ Start(r) \/ EnsureConversation(r) \/ ReadMemory(r) \/ ReadRedis(r)
    \/ QueryMessages(r) \/ FillRedis(r) \/ FillMemory(r) \/ CallLLM(r)
    \/ AppendMemory(r) \/ InsertMessage(r) \/ DeleteCached(r)

-----------------------------------------------------------------------------
(* Administrative operations: one, at any time after the conversation began *)

AdminAt(op, pc) == admin = [op |-> op, pc |-> pc]
AdminGo(pc) == admin' = [admin EXCEPT !.pc = pc]

AdminBegin(op) ==
    /\ admin.pc = "idle" /\ row
    /\ admin' = [op |-> op, pc |-> IF op = "delete" THEN "rows" ELSE "memory"]
    /\ UNCHANGED <<mem, redis, db, row, clock, begin, req, erased, refused>>

\* Clear and ArchiveConversation drop the map entry; archiving then only sets
\* is_archived.
ForgetMemory ==
    /\ admin.pc = "memory"
    /\ mem' = <<>>
    /\ AdminGo(IF admin.op = "clear" THEN "redis" ELSE "done")
    /\ UNCHANGED <<redis, db, row, clock, begin, req, erased, refused>>

ClearRedis ==
    /\ AdminAt("clear", "redis")
    /\ redis' = <<>> \/ (MayFail("del") /\ redis' = redis)
    /\ AdminGo("rows")
    /\ UNCHANGED <<mem, db, row, clock, begin, req, erased, refused>>

\* DELETE FROM messages, the last step of Clear and the first of
\* DeleteConversation; on an error the operation ends there.
DeleteMessages ==
    /\ admin.pc = "rows"
    /\ \/ /\ db' = {} /\ erased' = erased \cup db
          /\ AdminGo(IF admin.op = "clear" THEN "done" ELSE "conversation")
       \/ MayFail("db") /\ AdminGo("failed") /\ UNCHANGED <<db, erased>>
    /\ UNCHANGED <<mem, redis, row, clock, begin, req, refused>>

\* DELETE FROM conversations; the foreign key cascades to newer messages.
DeleteRow ==
    /\ AdminAt("delete", "conversation")
    /\ \/ row' = FALSE /\ db' = {} /\ erased' = erased \cup db /\ AdminGo("done")
       \/ MayFail("db") /\ AdminGo("failed") /\ UNCHANGED <<row, db, erased>>
    /\ UNCHANGED <<mem, redis, clock, begin, req, refused>>

AdminStep ==
    \/ \E op \in AdminOps : AdminBegin(op)
    \/ ForgetMemory \/ ClearRedis \/ DeleteMessages \/ DeleteRow

-----------------------------------------------------------------------------
(* The environment *)

\* The Redis key's TTL ends.
Expire ==
    /\ MayFail("expire") /\ redis # <<>>
    /\ redis' = <<>>
    /\ UNCHANGED <<mem, db, row, clock, begin, req, admin, erased, refused>>

\* The process is restarted: the map is gone and so are the requests in flight.
Restart ==
    /\ MayFail("restart") \/ (MayFail("redeploy") /\ InFlight = {})
    /\ mem' = <<>>
    /\ req' = [r \in Requests |->
                 IF r \in InFlight THEN [req[r] EXCEPT !.pc = "dead"] ELSE req[r]]
    /\ admin' = IF admin.pc \in {"idle", "done"} THEN admin
                ELSE [admin EXCEPT !.pc = "failed"]
    /\ UNCHANGED <<redis, db, row, clock, begin, erased, refused>>

Next ==
    \/ \E r \in Requests : RequestStep(r)
    \/ AdminStep
    \/ Expire \/ Restart

Spec == Init /\ [][Next]_vars

-----------------------------------------------------------------------------
(* Properties *)

RequestPcs ==
    {"idle", "ensure", "memory", "redis", "query", "fillRedis", "fillMemory", "llm",
     "append", "insert", "invalidate", "done", "dead"}
RequestRecords == [pc : RequestPcs, start : Nat, rows : Seq(Message),
                   hist : Seq(Message), role : Roles, at : Nat, late : BOOLEAN]

\* The values the variables take.
TypeOK ==
    /\ mem \in Seq(Message) /\ redis \in Seq(Message)
    /\ db \subseteq Message /\ erased \subseteq Message /\ refused \subseteq Message
    /\ row \in BOOLEAN /\ begin \in BeginKinds /\ clock \in Nat
    /\ req \in [Requests -> RequestRecords]
    /\ admin \in [op : {"none", "clear", "archive", "delete"},
                  pc : {"idle", "memory", "redis", "rows", "conversation", "done",
                        "failed"}]

\* Redis never shows a message that is not a row of the table, unless an
\* administrative operation removed the row: only rows are ever written to it.
RedisIsCommitted == ToSet(redis) \subseteq db \cup erased

\* A message in the map is a row, or was one, or its insertion is under way, or
\* the database refused it: SaveMessage leaves no other message in the map that
\* the table never gets, as long as the conversation has its row.  None is there
\* twice, although GetHistory replaces the entry with rows that other requests
\* are saving: SaveMessage appends before it inserts, so a row that is read was
\* appended before.
MemoryIsCommittedOrPending ==
    /\ IsInjective(mem)
    /\ row => \A m \in ToSet(mem) :
             \/ m \in db \cup erased \cup refused
             \/ req[m.by].pc = "insert" /\ m = Saving(m.by)

\* In every history given to the LLM the user's message of a request comes
\* before its reply, from whichever tier it was read and however the requests
\* interleave.
TurnsInOrder ==
    \A r \in Requests : LET h == req[r].hist IN
        \A i, j \in DOMAIN h :
            h[i].by = h[j].by /\ h[i].role = "user" /\ h[j].role = "assistant" => i < j

\* "Ensure conversation exists" (Process): the messages of an answered request
\* are in the table, unless the database failed (to take a message, or the record
\* itself) or an administrative operation ran.
AnsweredIsSaved ==
    \A r \in Requests :
        /\ req[r].pc = "done" /\ req[r].role = "assistant" /\ admin.pc = "idle"
        /\ begin = "nil" => row
        =>
            \A role \in Roles : \E m \in db \cup refused : m.by = r /\ m.role = role

\* The roles of the messages a request has in the table.
AddedRoles(r) ==
    LET Has(role) == \E m \in db : m.by = r /\ m.role = role
    IN (IF Has("user") THEN <<"user">> ELSE <<>>)
         \o (IF Has("assistant") THEN <<"assistant">> ELSE <<>>)

\* Requests that run one at a time see an append-only log, of which every tier shows
\* the end: the table and Redis the latest Limit messages, whatever was saved while
\* the key was there, and the map what it has since it was filled or begun anew.  That
\* is so when the database and the deletion of the key do not fail and the process is
\* restarted between requests only.
Log == INSTANCE ConversationLog WITH
         log    <- ByTime(db),
         served <- [r \in Requests |-> req[r].hist],
         added  <- [r \in Requests |-> AddedRoles(r)],
         kept   <- Cardinality(ToSet(mem) \cap db)

ImplementsLog == Log!Spec

\* "Clear removes all messages from a conversation": a request that starts after
\* Clear is not given one of them.
ClearedIsForgotten ==
    \A r \in Requests :
        admin.op = "clear" /\ req[r].late => ToSet(req[r].hist) \cap erased = {}

\* "DeleteConversation deletes a conversation and its messages": a request that
\* starts afterwards is not given one of them.
DeletedIsForgotten ==
    \A r \in Requests :
        admin.op = "delete" /\ req[r].late => ToSet(req[r].hist) \cap erased = {}
===============================================================================
