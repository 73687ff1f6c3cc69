--------------------------------- MODULE Agent ---------------------------------
(***************************************************************************)
(* The chat requests of the agent: the handler of internal/api/handlers,   *)
(* the agentic loop of internal/agent and the tool registry they share.    *)
(* The model and the tools answer late, wrongly or never; the timeout of   *)
(* the API routes ends the context of a request, the server's write        *)
(* timeout the connection.  Requests meet in the registry only: those that *)
(* are not in Requests are the executions they leave there.  History and   *)
(* saving are ConversationMemory's.                                        *)
(***************************************************************************)
EXTENDS LLM

CONSTANTS
    Requests,      \* the requests, a set
    Providers,     \* {"anthropic", "openai", "fallback", "none"}
    Tools,         \* the tools registered at startup
    Replies,       \* what a model may say: [text, calls, stop]
    Histories,     \* the roles of the messages a history may hold
    MaxToolCalls,  \* OrchestratorConfig.MaxToolCalls
    RingSize,      \* executions the registry keeps
    MaxOthers      \* bound: executions of other requests

ASSUME AgentAssumption ==
    /\ MaxToolCalls \in Nat
    /\ RingSize \in Nat \ {0}
    /\ MaxOthers \in Nat
    /\ "other" \notin Requests
    /\ Providers \subseteq {"anthropic", "openai", "fallback", "none"}
    /\ Replies \subseteq [text : BOOLEAN, calls : Seq(STRING), stop : STRING]
    /\ Histories \subseteq Seq(STRING)

VARIABLES
    provider,    \* the kind of provider, fixed; "none": no chat service
    calling,     \* ProviderConfig.EnableToolCalling, fixed
    registered,  \* Registry.tools
    ring,        \* Registry.executions
    ran,         \* every execution tracked since the last clearing
    others,      \* how many of them were another request's, ever
    clock,       \* how late each request is
    req          \* the state of each request

vars == <<provider, calling, registered, ring, ran, others, clock, req>>
registry == <<registered, ring, ran, others>>
fixed == <<provider, calling>>

NoResponse == [blocks |-> <<>>, stop |-> "end_turn"]
NewRequest == [at |-> "received", msgs |-> <<>>, offered |-> {}, iteration |-> 0,
               response |-> NoResponse, todo |-> <<>>, results |-> <<>>,
               calls |-> <<>>, status |-> 0, lost |-> FALSE]

Stages == {"received", "retrieve", "build", "loop", "model", "tools",
           "running", "track", "answer", "fail", "done"}

Goto(r, at) == req' = [req EXCEPT ![r].at = at]
Expired(r) == clock[r] = "expired"

------------------------------------------------------------------------------
(* HandleChat and the adapter.                                              *)

\* RespondJSON: written to nobody once the write timeout has passed.
Respond(r, status) ==
    req' = [req EXCEPT ![r].at = "done", ![r].status = status,
                       ![r].lost = clock[r] # "fresh"]

\* The body may not decode or not validate; without a service the answer is
\* a placeholder.
HandleChat(r) ==
    /\ req[r].at = "received"
    /\ \/ \E status \in {400, 422} : Respond(r, status)
       \/ provider = "none" /\ Respond(r, 200)
       \/ provider # "none" /\ Goto(r, "retrieve")
    /\ UNCHANGED <<fixed, registry, clock>>

------------------------------------------------------------------------------
(* Orchestrator.Process.                                                    *)

\* buildMessages: the user's and the assistant's messages, then the new one.
BuildMessages(roles) ==
    LET said == Entries(roles, {i \in DOMAIN roles : roles[i] \in {"user", "assistant"}})
    IN  [i \in DOMAIN said |-> NewTextMessage(said[i])] \o <<NewTextMessage("user")>>

\* The history and the initial retrieval, whose failure is an empty context.
Retrieve(r) ==
    /\ req[r].at = "retrieve"
    /\ \E roles \in Histories :
          req' = [req EXCEPT ![r].at = "build", ![r].msgs = BuildMessages(roles)]
    /\ UNCHANGED <<fixed, registry, clock>>

SupportsTools == provider \in {"anthropic", "fallback"} \/ calling

\* GetToolDefinitions, under the registry's lock.
GetToolDefinitions(r) ==
    /\ req[r].at = "build"
    /\ req' = [req EXCEPT ![r].at = "loop",
                 ![r].offered = IF SupportsTools THEN registered ELSE {}]
    /\ UNCHANGED <<fixed, registry, clock>>

\* The head of executeAgenticLoop.
CallModel(r) ==
    /\ req[r].at = "loop"
    /\ IF req[r].iteration < MaxToolCalls
       THEN req' = [req EXCEPT ![r].at = "model", ![r].iteration = @ + 1]
       ELSE Goto(r, "fail")
    /\ UNCHANGED <<fixed, registry, clock>>

\* Tools reach a native provider only if tool calling is enabled, and a model
\* without tools makes no calls; one with tools may name a tool nobody has.
MaySay(r, reply) ==
    provider # "fallback" /\ reply.calls # <<>> =>
        /\ calling
        /\ req[r].offered # {}
        /\ \A i \in DOMAIN reply.calls : reply.calls[i] # Unparsable

ModelReplies(r) ==
    /\ req[r].at = "model"
    /\ ~Expired(r)
    /\ \E reply \in Replies :
          /\ MaySay(r, reply)
          /\ LET response == Response(provider, reply, req[r].iteration)
             IN  IF HasToolCalls(response)
                 THEN req' = [req EXCEPT ![r].at = "tools",
                                ![r].response = response,
                                ![r].todo = GetToolCalls(response.blocks),
                                ![r].results = <<>>]
                 ELSE req' = [req EXCEPT ![r].at = "answer",
                                ![r].response = response]
    /\ UNCHANGED <<fixed, registry, clock>>

\* Mutant: the request's context does not reach the provider.
ModelFailsByItself(r) ==
    /\ req[r].at = "model"
    /\ ~Expired(r)
    /\ Goto(r, "fail")
    /\ UNCHANGED <<fixed, registry, clock>>

\* An error of the service, a response without choices, the timeout.
ModelFails(r) ==
    /\ req[r].at = "model"
    /\ Goto(r, "fail")
    /\ UNCHANGED <<fixed, registry, clock>>

------------------------------------------------------------------------------
(* The tools of one response, one after the other.                          *)

Call(r) == Head(req[r].todo)

\* The result of the call at hand, and the next call.
Result(r, err) ==
    req' = [req EXCEPT ![r].at = "tools",
              ![r].todo = Tail(@),
              ![r].results = Append(@, ResultBlock(Call(r).id, err))]

\* Mutant: a call of an unknown tool is not reported.
UnknownToolUnreported(r) ==
    /\ req[r].at = "tools"
    /\ req[r].todo # <<>>
    /\ Call(r).name \notin registered
    /\ Result(r, TRUE)
    /\ UNCHANGED <<fixed, registry, clock>>

\* Execute: an unknown tool is an error for the model to read, and is not
\* tracked.
UnknownTool(r) ==
    /\ req[r].at = "tools"
    /\ req[r].todo # <<>>
    /\ Call(r).name \notin registered
    /\ req' = [req EXCEPT ![r].calls = Append(@, Call(r)),
                          ![r].todo = Tail(@),
                          ![r].results = Append(@, ResultBlock(Call(r).id, TRUE))]
    /\ UNCHANGED <<fixed, registry, clock>>

\* The tool was found; it runs without the lock.
StartTool(r) ==
    /\ req[r].at = "tools"
    /\ req[r].todo # <<>>
    /\ Call(r).name \in registered
    /\ req' = [req EXCEPT ![r].at = "running",
                          ![r].calls = Append(@, Call(r))]
    /\ UNCHANGED <<fixed, registry, clock>>

Tracked(r, success) ==
    [request |-> r, iteration |-> req[r].iteration,
     call |-> Len(req[r].results) + 1, success |-> success]

\* Mutant: the ring drops its oldest entry only when it is over its bound.
KeepTooMany(entries, entry) ==
    Append(IF Len(entries) > RingSize THEN Tail(entries) ELSE entries, entry)

Keep(entries, entry) ==
    Append(IF Len(entries) >= RingSize THEN Tail(entries) ELSE entries, entry)

\* The tool returns and trackExecution records it under execMu; the result is
\* this request's own.
ToolReturns(r) ==
    /\ req[r].at = "running"
    /\ \E success \in BOOLEAN :
          /\ ring' = Keep(ring, Tracked(r, success))
          /\ ran' = Append(ran, Tracked(r, success))
          /\ Result(r, ~success)
    /\ UNCHANGED <<fixed, registered, others, clock>>

\* A tool call of another request ends.
OtherReturns ==
    /\ others < MaxOthers
    /\ others' = others + 1
    /\ \E success \in BOOLEAN :
          LET entry == [request |-> "other", iteration |-> 0,
                        call |-> others', success |-> success]
          IN  ring' = Keep(ring, entry) /\ ran' = Append(ran, entry)
    /\ UNCHANGED <<fixed, registered, clock, req>>

\* The response and the results join the messages.
NextIteration(r) ==
    /\ req[r].at = "tools"
    /\ req[r].todo = <<>>
    /\ req' = [req EXCEPT ![r].at = "loop",
                 ![r].msgs = @ \o <<BuildAssistantMessage(req[r].response),
                                    BuildToolResultMessages(req[r].results)>>]
    /\ UNCHANGED <<fixed, registry, clock>>

Answer(r) ==
    /\ req[r].at = "answer"
    /\ Respond(r, 200)
    /\ UNCHANGED <<fixed, registry, clock>>

Fail(r) ==
    /\ req[r].at = "fail"
    /\ Respond(r, 500)
    /\ UNCHANGED <<fixed, registry, clock>>

------------------------------------------------------------------------------
(* The registry's other operations, and time.                               *)

Unregister(t) ==
    /\ t \in registered
    /\ registered' = registered \ {t}
    /\ UNCHANGED <<fixed, ring, ran, others, clock, req>>

\* Register refuses a name that is taken.
Register(t) ==
    /\ t \notin registered
    /\ registered' = registered \cup {t}
    /\ UNCHANGED <<fixed, ring, ran, others, clock, req>>

ClearExecutions ==
    /\ ring # <<>>
    /\ ring' = <<>>
    /\ ran' = <<>>
    /\ UNCHANGED <<fixed, registered, others, clock, req>>

\* The server's WriteTimeout is shorter than the router's RequestTimeout.
Late(r) ==
    /\ req[r].at # "done"
    /\ ~Expired(r)
    /\ clock' = [clock EXCEPT ![r] = IF @ = "fresh" THEN "late" ELSE "expired"]
    /\ UNCHANGED <<fixed, registry, req>>

Progress(r) ==
    \/ HandleChat(r) \/ Retrieve(r) \/ GetToolDefinitions(r) \/ CallModel(r)
    \/ UnknownTool(r) \/ StartTool(r) \/ NextIteration(r)
    \/ Answer(r) \/ Fail(r)

Outcome(r) == ModelReplies(r) \/ ModelFails(r) \/ ToolReturns(r)

\* The tools need a retriever, and that a database and an embedder.
InitChatService ==
    /\ provider \in Providers
    /\ calling \in BOOLEAN
    /\ registered \in {{}, Tools}

Init ==
    /\ InitChatService
    /\ ring = <<>>
    /\ ran = <<>>
    /\ others = 0
    /\ clock = [r \in Requests |-> "fresh"]
    /\ req = [r \in Requests |-> NewRequest]

Next ==
    \/ \E r \in Requests : Progress(r) \/ Outcome(r) \/ Late(r)
    \/ \E t \in Tools : Unregister(t) \/ Register(t)
    \/ OtherReturns \/ ClearExecutions

\* Go runs the goroutines of the requests and time passes.  A model need not
\* answer: a call is sure to end only when its context does.  Every tool
\* reads under the same context and gives up with it.
Fairness ==
    \A r \in Requests :
        /\ WF_vars(Progress(r))
        /\ WF_vars(Late(r))
        /\ WF_vars(Expired(r) /\ ModelFails(r))
        /\ WF_vars(Expired(r) /\ ToolReturns(r))

Spec == Init /\ [][Next]_vars /\ Fairness

------------------------------------------------------------------------------
TypeOK ==
    /\ registered \subseteq Tools
    /\ others \in 0 .. MaxOthers
    /\ clock \in [Requests -> {"fresh", "late", "expired"}]
    /\ \A r \in Requests :
          /\ req[r].at \in Stages
          /\ req[r].offered \subseteq Tools
          /\ req[r].iteration \in 0 .. MaxToolCalls
          /\ req[r].status \in {0, 200, 400, 422, 500}
          /\ \A i \in DOMAIN req[r].msgs : req[r].msgs[i].role \in {"user", "assistant"}

(***************************************************************************)
(* Whatever the model said before, whichever tools failed, were unknown or *)
(* went away, and in each provider's own format: every request sent to a   *)
(* model pairs each tool call with one result, right behind the message    *)
(* that made the call.                                                     *)
(***************************************************************************)
MessagesWellFormed ==
    \A r \in Requests :
        req[r].at = "model" => WellFormed(Messages(provider, req[r].msgs))

(***************************************************************************)
(* The tool calls an answer reports are the calls of all the responses     *)
(* before it, in order: none is dropped, repeated or added, also when the  *)
(* fallback gave calls of different responses the same id.                 *)
(***************************************************************************)
CallsReported ==
    \A r \in Requests :
        req[r].at \in {"loop", "model", "answer"} =>
            req[r].calls = GetToolCalls(FlattenSeq(
                [i \in DOMAIN req[r].msgs |-> req[r].msgs[i].blocks]))

(***************************************************************************)
(* The registry keeps the latest executions, at most RingSize of them, in  *)
(* the order in which the tools of all the requests ended, and whatever    *)
(* the model and the registry do no call is in it twice.                   *)
(***************************************************************************)
RingIsRecent ==
    /\ ring = SubSeq(ran, Len(ran) - (IF Len(ran) < RingSize THEN Len(ran)
                                      ELSE RingSize) + 1, Len(ran))
    /\ IsInjective([i \in DOMAIN ran |->
          <<ran[i].request, ran[i].iteration, ran[i].call>>])

(***************************************************************************)
(* Every chat request ends, though a model may never answer and never stop *)
(* asking for tools.                                                       *)
(***************************************************************************)
RequestEnds == \A r \in Requests : <>(req[r].at = "done")
===============================================================================
