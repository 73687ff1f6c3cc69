------------------------------- MODULE RateLimit -------------------------------
(***************************************************************************)
(* The rate limiter of internal/api/middleware for one client and one kind *)
(* of request, over the memory store or over Redis, whose counter is made  *)
(* by INCR and given its expiry by a second call.  cmd/agent makes its     *)
(* limiter with the memory store only; the Redis store is what the package *)
(* promises.  Time passes in ticks.  The metrics are left out: nothing     *)
(* reads them.                                                             *)
(***************************************************************************)
EXTENDS Naturals, Sequences

CONSTANTS
    Requests,      \* the requests that may be under way at once
    Limit,         \* Limit.Requests
    Window,        \* Limit.Window in ticks
    Stores,        \* subset of {"memory", "redis"}
    RedisFaults    \* subset of {"incr", "expire"}

ASSUME RateLimitAssumption ==
    /\ Limit \in Nat \ {0}
    /\ Window \in Nat \ {0}
    /\ Stores \subseteq {"memory", "redis"}
    /\ RedisFaults \subseteq {"incr", "expire"}

VARIABLES
    store,       \* the kind of the store, fixed
    graceful,    \* RateLimitConfig.GracefulDegradation, fixed; no matter to memory
    healthy,     \* RedisRateLimitStore.healthy: the Ping at construction
    redisOpen,   \* the Redis client has not been closed
    counter,     \* the counter of the client: [count, ttl]
    request,     \* where each request is
    last,        \* what the limiter told the last request
    admitted,    \* history: the ages in ticks, below Window, of the requests that
                 \* were let through by their count, the latest first
    losses,      \* history: the ages of the restarts that lost a counter
    expiryLost   \* history: a counter was made to which nobody gives its expiry

rateVars == <<store, graceful, healthy, redisOpen, counter, request, last,
              admitted, losses, expiryLost>>
rateFixed == <<store, graceful, healthy>>

Forever == Window + 2
NoCounter == [count |-> 0, ttl |-> Forever]

Arrive(r) ==
    /\ request[r] = "idle"
    /\ request' = [request EXCEPT ![r] = "arrived"]
    /\ UNCHANGED <<rateFixed, redisOpen, counter, last, admitted, losses, expiryLost>>

\* Mutant: a count beyond the limit is let through.
CountedOneMore(r, count, at) ==
    IF count <= Limit + 1
    THEN /\ request' = [request EXCEPT ![r] = at]
         /\ last' = "passed"
         /\ admitted' = <<0>> \o admitted
    ELSE /\ request' = [request EXCEPT ![r] = "idle"]
         /\ last' = "rejected"
         /\ UNCHANGED admitted

\* The middleware's decision, which takes effect once the store has returned.
Counted(r, count, at) ==
    IF count <= Limit
    THEN /\ request' = [request EXCEPT ![r] = at]
         /\ last' = "passed"
         /\ admitted' = <<0>> \o admitted
    ELSE /\ request' = [request EXCEPT ![r] = "idle"]
         /\ last' = "rejected"
         /\ UNCHANGED admitted

\* MemoryRateLimitStore.Increment under its mutex.  now.After(expiresAt) still
\* counts the tick at expiresAt to the entry.
MemoryIncrement(r) ==
    /\ store = "memory"
    /\ request[r] = "arrived"
    /\ counter' = IF counter.count = 0 \/ counter.ttl = 0
                  THEN [count |-> 1, ttl |-> Window + 1]
                  ELSE [counter EXCEPT !.count = IF @ > Limit THEN @ ELSE @ + 1]
    /\ Counted(r, counter'.count, "serving")
    /\ UNCHANGED <<rateFixed, redisOpen, losses, expiryLost>>

\* The goroutine of the memory store.
Cleanup ==
    /\ store = "memory"
    /\ counter.count > 0 /\ counter.ttl = 0
    /\ counter' = NoCounter
    /\ UNCHANGED <<rateFixed, redisOpen, request, last, admitted, losses, expiryLost>>

\* Mutant: every increment gives the counter a new expiry.
RedisIncrementRenews(r) ==
    /\ store = "redis" /\ healthy /\ redisOpen
    /\ request[r] = "arrived"
    /\ counter' = [counter EXCEPT !.count = IF @ > Limit THEN @ ELSE @ + 1,
                                  !.ttl = IF counter.count = 0 THEN @ ELSE Window]
    /\ Counted(r, counter'.count, IF counter.count = 0 THEN "expire" ELSE "serving")
    /\ UNCHANGED <<rateFixed, redisOpen, losses, expiryLost>>

\* INCR.  The request that made the counter gives it its expiry; counts beyond
\* the limit are all the same.
RedisIncrement(r) ==
    /\ store = "redis" /\ healthy /\ redisOpen
    /\ request[r] = "arrived"
    /\ counter' = [counter EXCEPT !.count = IF @ > Limit THEN @ ELSE @ + 1]
    /\ Counted(r, counter'.count, IF counter.count = 0 THEN "expire" ELSE "serving")
    /\ UNCHANGED <<rateFixed, redisOpen, losses, expiryLost>>

\* EXPIRE; an error is logged and the request goes on.
RedisExpire(r) ==
    /\ request[r] = "expire"
    /\ request' = [request EXCEPT ![r] = "serving"]
    /\ \/ /\ redisOpen
          /\ counter' = IF counter.count = 0 THEN counter
                        ELSE [counter EXCEPT !.ttl = Window]
          /\ UNCHANGED expiryLost
       \/ /\ "expire" \in RedisFaults \/ ~redisOpen
          /\ expiryLost' = TRUE
          /\ UNCHANGED counter
    /\ UNCHANGED <<rateFixed, redisOpen, last, admitted, losses>>

\* INCR takes effect and its reply is lost.  Whoever asks next is not the first,
\* so a counter that was made like this gets no expiry.
ReplyLost ==
    /\ healthy /\ redisOpen /\ "incr" \in RedisFaults
    /\ counter' = [counter EXCEPT !.count = IF @ > Limit THEN @ ELSE @ + 1]
    /\ expiryLost' = (expiryLost \/ counter.count = 0)

\* No store, or an error of it, which does not say whether INCR took effect: the
\* request goes through or gets a 503.
Uncounted(r) ==
    /\ request[r] = "arrived"
    /\ store = "redis"
    /\ \/ /\ ~healthy \/ ~redisOpen \/ "incr" \in RedisFaults
          /\ UNCHANGED <<counter, expiryLost>>
       \/ ReplyLost
    /\ request' = [request EXCEPT ![r] = IF graceful THEN "serving" ELSE "idle"]
    /\ last' = IF graceful THEN "passed" ELSE "unavailable"
    /\ UNCHANGED <<rateFixed, redisOpen, admitted, losses>>

\* The Redis client sends INCR again when its reply is lost.
Resend(r) ==
    /\ request[r] = "arrived"
    /\ store = "redis"
    /\ ReplyLost
    /\ UNCHANGED <<rateFixed, redisOpen, request, last, admitted, losses>>

\* The handler behind the limiter returns.
Served(r) ==
    /\ request[r] = "serving"
    /\ request' = [request EXCEPT ![r] = "idle"]
    /\ UNCHANGED <<rateFixed, redisOpen, counter, last, admitted, losses, expiryLost>>

\* A tick later, of the events of these ages the first ones are in the window still.
Older(ages, older) ==
    \E n \in 0 .. Len(ages) :
        /\ \A i \in DOMAIN ages : i <= n <=> ages[i] < Window - 1
        /\ older = [i \in 1 .. n |-> ages[i] + 1]

\* Redis deletes a key that expires; the memory store keeps its entry.
Tick ==
    /\ Older(admitted, admitted')
    /\ Older(losses, losses')
    /\ counter' =
         IF counter.count = 0 \/ counter.ttl \in {0, Forever} THEN counter
         ELSE IF store = "redis" /\ counter.ttl = 1 THEN NoCounter
         ELSE [counter EXCEPT !.ttl = @ - 1]
    /\ UNCHANGED <<rateFixed, redisOpen, request, last, expiryLost>>

\* The process begins anew: its requests are gone, and with the memory store
\* its counter.
LimiterRestarts ==
    /\ request' = [r \in Requests |-> "idle"]
    /\ expiryLost' = (expiryLost \/ \E r \in Requests : request[r] = "expire")
    /\ last' = "none"
    /\ counter' = IF store = "memory" THEN NoCounter ELSE counter
    /\ losses' = IF counter' = counter THEN losses ELSE <<0>> \o losses
    /\ redisOpen' = TRUE
    /\ healthy' \in IF store = "memory" THEN {TRUE} ELSE BOOLEAN
    /\ UNCHANGED <<store, graceful, admitted>>

RequestStep(r) ==
    \/ MemoryIncrement(r) \/ RedisIncrement(r) \/ RedisExpire(r) \/ Uncounted(r)

RateInit ==
    /\ store \in Stores
    /\ graceful \in IF store = "memory" THEN {TRUE} ELSE BOOLEAN
    /\ healthy \in IF store = "memory" THEN {TRUE} ELSE BOOLEAN
    /\ redisOpen = TRUE
    /\ counter = NoCounter
    /\ request = [r \in Requests |-> "idle"]
    /\ last = "none"
    /\ admitted = <<>>
    /\ losses = <<>>
    /\ expiryLost = FALSE

(***************************************************************************)
(* The windows are fixed, not sliding.  A span as long as the window meets *)
(* two of them, and lets through less than twice the limit of requests by  *)
(* their count: the first of a window is out of the span when the next     *)
(* window begins, also when its EXPIRE came late.  The memory store's      *)
(* counter dies with the process, so each restart in the span can add the  *)
(* limit once more, and no other event can.                                *)
(***************************************************************************)
AtMostTwoWindows == Len(admitted) < (2 + Len(losses)) * Limit
===============================================================================
