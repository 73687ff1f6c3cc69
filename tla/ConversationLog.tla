---------------------------- MODULE ConversationLog ----------------------------
(***************************************************************************)
(* What a conversation's history promises its callers: an append-only log  *)
(* of messages, of which a process may keep a copy of the latest ones.  A  *)
(* request is served the end of the log, as far as the copy goes or, where *)
(* there is none, the latest Limit messages; afterwards it adds its two    *)
(* messages, the user's before the reply.                                  *)
(***************************************************************************)
EXTENDS Naturals, Sequences

CONSTANTS Requests, Limit

VARIABLES
    log,
    served,    \* [Requests -> the history given]
    added,     \* [Requests -> the roles of the messages added]
    kept       \* how many of the latest messages the copy has; 0 is no copy

Init ==
    /\ log = <<>>
    /\ served = [r \in Requests |-> <<>>]
    /\ added = [r \in Requests |-> <<>>]
    /\ kept = 0

Suffix(s, n) == IF Len(s) <= n THEN s ELSE SubSeq(s, Len(s) - n + 1, Len(s))

\* Where there is no copy, the history given may become one.
Serve(r) ==
    /\ added[r] = <<>>
    /\ served' = [served EXCEPT
         ![r] = Suffix(log, IF kept \in 1 .. Limit THEN kept ELSE Limit)]
    /\ kept' = kept \/ (kept = 0 /\ kept' = Len(served'[r]))
    /\ UNCHANGED <<log, added>>

\* A message begins a copy where there is none, unless the copy was given up while
\* it was being added.
Add(r, role) ==
    /\ role = IF added[r] = <<>> THEN "user" ELSE "assistant"
    /\ Len(added[r]) < 2
    /\ added' = [added EXCEPT ![r] = Append(@, role)]
    /\ Len(log') = Len(log) + 1 /\ SubSeq(log', 1, Len(log)) = log
    /\ LET m == log'[Len(log')] IN m.by = r /\ m.role = role
    /\ kept' = kept + 1 \/ (kept = 0 /\ kept' = 0)
    /\ UNCHANGED served

\* A restart, or the archiving of the conversation.
Forget == kept' = 0 /\ UNCHANGED <<log, served, added>>

Next ==
    \/ \E r \in Requests : Serve(r) \/ \E role \in {"user", "assistant"} : Add(r, role)
    \/ Forget

Spec == Init /\ [][Next]_<<log, served, added, kept>>
===============================================================================
