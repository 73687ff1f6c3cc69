-------------------------------- MODULE MCAgent --------------------------------
(***************************************************************************)
(* Instances of Agent: one request and the executions of others, one tool  *)
(* and a name nobody has, replies with no, one and two calls, and one that *)
(* stops for tools but names none.                                         *)
(***************************************************************************)
EXTENDS Agent

Reply(text, calls, stop) == [text |-> text, calls |-> calls, stop |-> stop]
MCReplies == {
    Reply(TRUE, <<>>, "end_turn"),
    Reply(TRUE, <<"search">>, "tool_use"),
    Reply(FALSE, <<"search", "nosuch">>, "tool_use"),
    Reply(TRUE, <<Unparsable, "search">>, "max_tokens"),
    Reply(FALSE, <<>>, "tool_use")}
MCHistories == {<<>>, <<"assistant", "system", "user">>}
===============================================================================
