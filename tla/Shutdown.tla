-------------------------------- MODULE Shutdown --------------------------------
(***************************************************************************)
(* The graceful shutdown of pkg/shutdown.  Its cleanups run at the same    *)
(* time, in goroutines that send their errors to one channel; the handler  *)
(* waits for all of them or for its timeout, and then closes the channel.  *)
(***************************************************************************)
EXTENDS Naturals, Sequences, SequencesExt

CONSTANT Cleanups    \* the names of the registered cleanup functions

VARIABLES
    phase,      \* the handler
    outcome,    \* what it waited for
    expired,    \* the shutdown's context has timed out
    cleanup,    \* each cleanup function
    errors,     \* the channel's buffer, as long as the list of cleanups
    logged      \* the cleanups whose error the handler has logged

shutdownVars == <<phase, outcome, expired, cleanup, errors, logged>>

Running(c) == cleanup[c] \in {"running", "draining"}
Ended(c) == cleanup[c] \in {"ok", "failed"}
ErrorsClosed == phase \in {"drain", "returned"}
Alive == phase \notin {"exited", "panicked"}

\* A signal ends Wait; Shutdown starts every cleanup.
Signal ==
    /\ phase = "serving"
    /\ phase' = "wait"
    /\ cleanup' = [c \in Cleanups |-> "running"]
    /\ UNCHANGED <<outcome, expired, errors, logged>>

CleanupOk(c) ==
    /\ Alive /\ Running(c)
    /\ cleanup' = [cleanup EXCEPT ![c] = "ok"]
    /\ UNCHANGED <<phase, outcome, expired, errors, logged>>

\* A send on the closed channel ends the process.
CleanupFails(c) ==
    /\ Alive /\ Running(c)
    /\ cleanup' = [cleanup EXCEPT ![c] = "failed"]
    /\ IF ErrorsClosed THEN phase' = "panicked" /\ UNCHANGED errors
       ELSE errors' = Append(errors, c) /\ UNCHANGED phase
    /\ UNCHANGED <<outcome, expired, logged>>

Expire ==
    /\ phase = "wait" /\ ~expired
    /\ expired' = TRUE
    /\ UNCHANGED <<phase, outcome, cleanup, errors, logged>>

\* Mutant: the first cleanup that ends is taken for all.
CompletedByOne ==
    /\ phase = "wait"
    /\ \E c \in Cleanups : Ended(c)
    /\ phase' = "close" /\ outcome' = "completed"
    /\ UNCHANGED <<expired, cleanup, errors, logged>>

\* The select takes either branch when both are ready.
Completed ==
    /\ phase = "wait"
    /\ \A c \in Cleanups : Ended(c)
    /\ phase' = "close" /\ outcome' = "completed"
    /\ UNCHANGED <<expired, cleanup, errors, logged>>

TimedOut ==
    /\ phase = "wait" /\ expired
    /\ phase' = "close" /\ outcome' = "timeout"
    /\ UNCHANGED <<expired, cleanup, errors, logged>>

CloseErrors ==
    /\ phase = "close"
    /\ phase' = "drain"
    /\ UNCHANGED <<outcome, expired, cleanup, errors, logged>>

Drain ==
    /\ phase = "drain"
    /\ IF errors # <<>>
       THEN /\ errors' = Tail(errors)
            /\ logged' = logged \cup {Head(errors)}
            /\ UNCHANGED phase
       ELSE phase' = "returned" /\ UNCHANGED <<errors, logged>>
    /\ UNCHANGED <<outcome, expired, cleanup>>

\* main returns.
Exit ==
    /\ phase = "returned"
    /\ phase' = "exited"
    /\ UNCHANGED <<outcome, expired, cleanup, errors, logged>>

HandlerStep == Completed \/ TimedOut \/ CloseErrors \/ Drain \/ Exit

ShutdownBegins ==
    /\ phase' = "serving"
    /\ outcome' = "none"
    /\ expired' = FALSE
    /\ cleanup' = [c \in Cleanups |-> "registered"]
    /\ errors' = <<>>
    /\ logged' = {}

ShutdownInit ==
    /\ phase = "serving"
    /\ outcome = "none"
    /\ expired = FALSE
    /\ cleanup = [c \in Cleanups |-> "registered"]
    /\ errors = <<>>
    /\ logged = {}
===============================================================================
