---------------------------------- MODULE LLM ----------------------------------
(***************************************************************************)
(* The messages of internal/llm and what its providers make of them: the   *)
(* Anthropic and the OpenAI-compatible formats, and the fallback that      *)
(* reads tool calls out of a model's text.                                 *)
(*                                                                         *)
(* Texts are left out: of a block there is its kind, the id of its tool    *)
(* call, the tool's name and the error flag.                               *)
(***************************************************************************)
EXTENDS SequenceEntries, SequencesExt

NoId == <<>>
TextBlock == [kind |-> "text", id |-> NoId, name |-> "none", err |-> FALSE]
UseBlock(id, name) == [TextBlock EXCEPT !.kind = "use", !.id = id, !.name = name]
ResultBlock(id, err) == [TextBlock EXCEPT !.kind = "result", !.id = id, !.err = err]

NewTextMessage(role) == [role |-> role, blocks |-> <<TextBlock>>]

OfKind(blocks, kind) ==
    Entries(blocks, {i \in DOMAIN blocks : blocks[i].kind = kind})
GetToolCalls(blocks) == OfKind(blocks, "use")
Ids(blocks) == [i \in DOMAIN blocks |-> blocks[i].id]

\* A response: its blocks and the reason why the model stopped.
HasToolCalls(response) ==
    response.stop = "tool_use" \/ GetToolCalls(response.blocks) # <<>>

BuildAssistantMessage(response) ==
    [role |-> "assistant", blocks |-> response.blocks]
BuildToolResultMessages(results) == [role |-> "user", blocks |-> results]

------------------------------------------------------------------------------
(* What a model says: [text, calls, stop].  The calls are names; the        *)
(* service behind a provider gives each an id it has not used before.       *)

NewId(n, i) == <<n, i>>
Said(reply) == IF reply.text THEN <<TextBlock>> ELSE <<>>

ConvertStopReason(stop) ==
    IF stop \in {"tool_use", "max_tokens"} THEN stop ELSE "end_turn"

\* convertStopReason of the Anthropic provider knows one reason more.
AnthropicStopReason(stop) ==
    IF stop = "stop_sequence" THEN "stop" ELSE ConvertStopReason(stop)

Uses(reply, n) == [i \in DOMAIN reply.calls |-> UseBlock(NewId(n, i), reply.calls[i])]

AnthropicResponse(reply, n) ==
    [blocks |-> Said(reply) \o Uses(reply, n),
     stop |-> AnthropicStopReason(reply.stop)]
OpenAIResponse(reply, n) ==
    [blocks |-> Said(reply) \o Uses(reply, n),
     stop |-> ConvertStopReason(reply.stop)]

\* ParseToolCallsFromText: the i-th block that looks like a call has the id
\* fallback_i in every response; one that does not parse or has no name is
\* skipped and stays in the text.
Unparsable == "unparsable"
ParseToolCalls(calls) ==
    Entries([i \in DOMAIN calls |-> UseBlock(NewId(0, i), calls[i])],
            {i \in DOMAIN calls : calls[i] # Unparsable})

\* ProcessFallbackResponse: a response without calls stays as it was.
FallbackResponse(reply) ==
    LET uses == ParseToolCalls(reply.calls)
        left == reply.text \/ Len(uses) < Len(reply.calls)
    IN  IF uses = <<>>
        THEN [blocks |-> <<TextBlock>>, stop |-> ConvertStopReason(reply.stop)]
        ELSE [blocks |-> (IF left THEN <<TextBlock>> ELSE <<>>) \o uses,
              stop |-> "tool_use"]

------------------------------------------------------------------------------
(* What a provider sends: messages of a role, the ids of the calls in them  *)
(* and the ids of the calls they answer.                                    *)

Wire(role, uses, results) == [role |-> role, uses |-> uses, results |-> results]
IdsOf(m, kind) == Ids(OfKind(m.blocks, kind))

AnthropicMessages(msgs) ==
    LET sent == Entries(msgs, {i \in DOMAIN msgs : msgs[i].role # "system"})
    IN  [i \in DOMAIN sent |->
           Wire(sent[i].role, IdsOf(sent[i], "use"), IdsOf(sent[i], "result"))]

\* Mutant: only the first block of a message is looked at.
OpenAIMessageFirstBlock(m) ==
    IF m.role = "assistant" THEN <<Wire("assistant", IdsOf(m, "use"), <<>>)>>
    ELSE IF m.blocks # <<>> /\ m.blocks[1].kind = "result"
    THEN <<Wire("tool", <<>>, <<IdsOf(m, "result")[1]>>)>>
    ELSE <<Wire(m.role, <<>>, <<>>)>>

\* A user message that begins with a result becomes one "tool" message per
\* result.
OpenAIMessage(m) ==
    IF m.role = "assistant" THEN <<Wire("assistant", IdsOf(m, "use"), <<>>)>>
    ELSE IF m.blocks # <<>> /\ m.blocks[1].kind = "result"
    THEN LET ids == IdsOf(m, "result")
         IN  [i \in DOMAIN ids |-> Wire("tool", <<>>, <<ids[i]>>)]
    ELSE <<Wire(m.role, <<>>, <<>>)>>

OpenAIMessages(msgs) ==
    FlattenSeq(<<<<Wire("system", <<>>, <<>>)>>>>
               \o [i \in DOMAIN msgs |-> OpenAIMessage(msgs[i])])

\* The fallback takes the tools out of the request, and leaves the messages
\* to the provider it wraps.
Messages(provider, msgs) ==
    IF provider = "anthropic" THEN AnthropicMessages(msgs)
    ELSE OpenAIMessages(msgs)

Response(provider, reply, n) ==
    CASE provider = "anthropic" -> AnthropicResponse(reply, n)
      [] provider = "openai" -> OpenAIResponse(reply, n)
      [] provider = "fallback" -> FallbackResponse(reply)

\* The results that directly follow the i-th message.
ResultsAfter(wire, i) ==
    LET other == {j \in i + 1 .. Len(wire) : wire[j].results = <<>>}
        last == IF other = {} THEN Len(wire)
                ELSE (CHOOSE j \in other : \A k \in other : j <= k) - 1
    IN  FlattenSeq([j \in 1 .. last - i |-> wire[i + j].results])

\* What both services ask of the messages they are sent: a message with tool
\* calls is followed at once by one result for each of them, nothing else is
\* a result, and the last word is not the assistant's.
WellFormed(wire) ==
    /\ wire # <<>> /\ wire[Len(wire)].role # "assistant"
    /\ \A i \in DOMAIN wire :
          /\ IsInjective(wire[i].uses)
          /\ wire[i].uses # <<>> => ResultsAfter(wire, i) = wire[i].uses
          /\ wire[i].results # <<>> =>
               /\ i > 1
               /\ wire[i - 1].uses # <<>> \/ wire[i - 1].results # <<>>
===============================================================================
