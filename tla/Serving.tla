-------------------------------- MODULE Serving --------------------------------
(***************************************************************************)
(* The agent's HTTP server between its rate limiter and its shutdown: the  *)
(* cleanups close Redis and drain the server at the same time, so requests *)
(* that were accepted still meet the limiter.  The process may crash, and  *)
(* is started again.                                                       *)
(***************************************************************************)
EXTENDS RateLimit, Shutdown

CONSTANT MaxRestarts    \* bound: how often the process is started again

ASSUME ServingAssumption == "http-server" \in Cleanups

VARIABLE restarts
vars == <<rateVars, shutdownVars, restarts>>

InFlight == {r \in Requests : request[r] # "idle"}

\* The listener is open until the server's own cleanup closes it.
Accept(r) ==
    /\ Alive
    /\ cleanup["http-server"] \in {"registered", "running"}
    /\ Arrive(r)
    /\ UNCHANGED <<shutdownVars, restarts>>

Handle(r) ==
    /\ Alive
    /\ RequestStep(r)
    /\ UNCHANGED <<shutdownVars, restarts>>

HandleAgain(r) ==
    /\ Alive
    /\ Resend(r)
    /\ UNCHANGED <<shutdownVars, restarts>>

Respond(r) ==
    /\ Alive
    /\ Served(r)
    /\ UNCHANGED <<shutdownVars, restarts>>

Time == (Tick \/ (Alive /\ Cleanup)) /\ UNCHANGED <<shutdownVars, restarts>>

\* http.Server.Shutdown closes the listener, then waits for the requests, and
\* fails with its context.
CloseListener ==
    /\ Alive
    /\ cleanup["http-server"] = "running"
    /\ cleanup' = [cleanup EXCEPT !["http-server"] = "draining"]
    /\ UNCHANGED <<phase, outcome, expired, errors, logged, rateVars, restarts>>

StopServer ==
    /\ cleanup["http-server"] = "draining"
    /\ \/ InFlight = {} /\ CleanupOk("http-server")
       \/ expired /\ CleanupFails("http-server")
    /\ UNCHANGED <<rateVars, restarts>>

\* Redis and what else is closed, the database, NATS and the hub, may fail and
\* need not come to an end.  The limiter shares the Redis client that is closed;
\* cmd/agent, which gives it the memory store, has no such limiter.
OtherCleanup(c) ==
    /\ CleanupOk(c) \/ CleanupFails(c)
    /\ redisOpen' = (redisOpen /\ c # "redis")
    /\ UNCHANGED <<rateFixed, counter, request, last, admitted, losses, expiryLost,
                   restarts>>

Handler == HandlerStep /\ UNCHANGED <<rateVars, restarts>>
Timeout == Expire /\ UNCHANGED <<rateVars, restarts>>
Stop == Signal /\ UNCHANGED <<rateVars, restarts>>

\* After an exit, or a crash at any moment.
Restart ==
    /\ restarts < MaxRestarts
    /\ restarts' = restarts + 1
    /\ LimiterRestarts
    /\ ShutdownBegins

Init == RateInit /\ ShutdownInit /\ restarts = 0

Next ==
    \/ \E r \in Requests : Accept(r) \/ Handle(r) \/ HandleAgain(r) \/ Respond(r)
    \/ Time \/ Stop \/ CloseListener \/ StopServer \/ Handler \/ Timeout
    \/ \E c \in Cleanups \ {"http-server"} : OtherCleanup(c)
    \/ Restart

\* Go runs what is ready, handlers return, clients keep asking and time passes.
\* The Redis client does not resend for ever.  No cleanup need ever end, and no
\* signal need ever come.
Fairness ==
    /\ \A r \in Requests :
          WF_vars(Accept(r)) /\ WF_vars(Handle(r)) /\ WF_vars(Respond(r))
    /\ WF_vars(Time)
    /\ WF_vars(Handler)
    /\ WF_vars(Timeout)

Spec == Init /\ [][Next]_vars /\ Fairness

------------------------------------------------------------------------------
(***************************************************************************)
(* A client that was turned away for its rate and keeps asking is let      *)
(* through again, or hears that the store is down.  The exception is a     *)
(* counter that nobody gives its expiry, which blocks the client for ever: *)
(* the reply of the INCR that made it was lost, whether that was reported  *)
(* or sent again, its EXPIRE failed, or the process died between the two.  *)
(***************************************************************************)
TurnedAwayIsLetIn ==
    last = "rejected" ~> (last # "rejected" \/ expiryLost \/ phase # "serving")

\* Every cleanup has ended, the only requests left behind are those the server gave
\* up on, which it reports, and every error is logged when Shutdown returns.
Orderly ==
    /\ \A c \in Cleanups : Ended(c)
    /\ InFlight = {} \/ cleanup["http-server"] = "failed"
    /\ phase \in {"returned", "exited"} =>
         logged = {c \in Cleanups : cleanup[c] = "failed"}

(***************************************************************************)
(* The shutdown ends though a cleanup may hang.  It was orderly when it    *)
(* says that it was graceful; only a cleanup that fails after the timeout  *)
(* can end the process with a panic.                                       *)
(***************************************************************************)
ShutdownIsOrderly ==
    /\ [](outcome = "completed" => Orderly)
    /\ [](phase = "panicked" => outcome = "timeout")
    /\ phase = "wait" ~> (~Alive \/ phase = "serving")
===============================================================================
