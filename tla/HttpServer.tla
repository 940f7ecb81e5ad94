----------------------------- MODULE HttpServer -----------------------------
(***************************************************************************)
(* pkg/httpserver: run(), a server under graceful.Run.  Two goroutines of   *)
(* an errgroup: one serves, one waits for the group's context and calls     *)
(* http.Server.Shutdown with a context made when the server was started.    *)
(* Time is counted in units from that start.                                *)
(***************************************************************************)
EXTENDS Integers

CONSTANTS
    ShutdownTimeout,  \* of the server, in units of time
    MaxRequests,      \* requests that can be open at once
    MaxTime           \* bound: time stops here

ASSUME HttpServerAssumption ==
    /\ ShutdownTimeout \in Nat \ {0} /\ MaxTime \in Nat /\ MaxRequests \in Nat

VARIABLES
    now,       \* time since run() was called
    doneAt,    \* when the caller's context was done (-1: it is not)
    listen,    \* ListenAndServe: "serving", "closed" (ErrServerClosed), "failed"
    shutdown,  \* Shutdown: "waiting", "draining", "drained", "expired"
    groupErr,  \* the first error of the errgroup: "nil", or listen's or shutdown's
    open,      \* requests in flight
    stopAt,    \* when graceful.Run called stop() (-1: it has not)
    result     \* what run() returned

vars == <<now, doneAt, listen, shutdown, groupErr, open, stopAt, result>>

TypeOK ==
    /\ now \in 0..MaxTime /\ doneAt \in -1..MaxTime /\ stopAt \in -1..MaxTime
    /\ listen \in {"serving", "closed", "failed"}
    /\ shutdown \in {"waiting", "draining", "drained", "expired"}
    /\ groupErr \in {"nil", "closed", "failed", "expired"}
    /\ open \in 0..MaxRequests
    /\ result \in {"none", "nil", "error", "deadline"}

Init ==
    /\ now = 0 /\ doneAt = -1 /\ stopAt = -1
    /\ listen = "serving" /\ shutdown = "waiting" /\ groupErr = "nil"
    /\ open = 0 /\ result = "none"

CtxDone   == doneAt >= 0
GroupDone == CtxDone \/ stopAt >= 0 \/ groupErr # "nil"   \* errgroup's context
Accepting == listen = "serving" /\ shutdown = "waiting"
\* g.Wait has returned.
DoEnded   == listen # "serving" /\ shutdown \in {"drained", "expired"}

\* errgroup keeps the first error.
GroupError(e) == groupErr' = IF groupErr = "nil" THEN e ELSE groupErr

-----------------------------------------------------------------------------

\* The timer of graceful.Run fires when it is due: time waits for it.
Tick ==
    /\ now < MaxTime
    /\ result # "none" \/ stopAt < 0 \/ now < stopAt + ShutdownTimeout
    /\ now' = now + 1
    /\ UNCHANGED <<doneAt, listen, shutdown, groupErr, open, stopAt, result>>

\* The caller's context is cancelled, or a signal arrives.
Cancel ==
    /\ ~CtxDone
    /\ doneAt' = now
    /\ UNCHANGED <<now, listen, shutdown, groupErr, open, stopAt, result>>

Request ==
    /\ Accepting /\ open < MaxRequests
    /\ open' = open + 1
    /\ UNCHANGED <<now, doneAt, listen, shutdown, groupErr, stopAt, result>>

Respond ==
    /\ open > 0
    /\ open' = open - 1
    /\ UNCHANGED <<now, doneAt, listen, shutdown, groupErr, stopAt, result>>

\* ListenAndServe fails (the address is in use, a listener error) ...
ListenFails ==
    /\ Accepting
    /\ listen' = "failed" /\ GroupError("failed")
    /\ UNCHANGED <<now, doneAt, shutdown, open, stopAt, result>>

\* ... or returns ErrServerClosed as soon as Shutdown is called.
ListenClosed ==
    /\ listen = "serving" /\ shutdown # "waiting"
    /\ listen' = "closed" /\ GroupError("closed")
    /\ UNCHANGED <<now, doneAt, shutdown, open, stopAt, result>>

\* Mutant: only the caller's context starts the shutdown.
ShutdownStartsOnCtx ==
    /\ shutdown = "waiting" /\ CtxDone
    /\ shutdown' = "draining"
    /\ UNCHANGED <<now, doneAt, listen, groupErr, open, stopAt, result>>

\* <-ctx.Done(); Shutdown(shutdownCtx)
ShutdownStarts ==
    /\ shutdown = "waiting" /\ GroupDone
    /\ shutdown' = "draining"
    /\ UNCHANGED <<now, doneAt, listen, groupErr, open, stopAt, result>>

ShutdownDrained ==
    /\ shutdown = "draining" /\ open = 0
    /\ shutdown' = "drained"
    /\ UNCHANGED <<now, doneAt, listen, groupErr, open, stopAt, result>>

\* shutdownCtx was made when the server started: WithTimeout(Background, ...).
ShutdownExpires ==
    /\ shutdown = "draining" /\ open > 0
    /\ now >= ShutdownTimeout
    /\ shutdown' = "expired" /\ GroupError("expired")
    /\ UNCHANGED <<now, doneAt, listen, open, stopAt, result>>

\* graceful.Run: the first select, and stop().
Stop ==
    /\ stopAt < 0 /\ (CtxDone \/ DoEnded)
    /\ stopAt' = now
    /\ UNCHANGED <<now, doneAt, listen, shutdown, groupErr, open, result>>

\* Mutants: every error of the group is taken for a clean stop; the result is
\* there before the server stopped.
ReturnNil ==
    /\ stopAt >= 0 /\ result = "none" /\ DoEnded
    /\ result' = "nil"
    /\ UNCHANGED <<now, doneAt, listen, shutdown, groupErr, open, stopAt>>
ReturnNoWait ==
    /\ stopAt >= 0 /\ result = "none"
    /\ result' = IF groupErr \in {"nil", "closed"} THEN "nil" ELSE "error"
    /\ UNCHANGED <<now, doneAt, listen, shutdown, groupErr, open, stopAt>>

\* The second select: do has ended, and ErrServerClosed is no error ...
Return ==
    /\ stopAt >= 0 /\ result = "none" /\ DoEnded
    /\ result' = IF groupErr \in {"nil", "closed"} THEN "nil" ELSE "error"
    /\ UNCHANGED <<now, doneAt, listen, shutdown, groupErr, open, stopAt>>

\* ... or it is given up.
GiveUp ==
    /\ stopAt >= 0 /\ result = "none"
    /\ now = stopAt + ShutdownTimeout
    /\ result' = "deadline"
    /\ UNCHANGED <<now, doneAt, listen, shutdown, groupErr, open, stopAt>>

\* run() has returned and no request is left.
Terminated == result # "none" /\ open = 0 /\ UNCHANGED vars

Next ==
    \/ Terminated
    \/ Tick \/ Cancel \/ Request \/ Respond
    \/ ListenFails \/ ListenClosed
    \/ ShutdownStarts \/ ShutdownDrained \/ ShutdownExpires
    \/ Stop \/ Return \/ GiveUp

Spec == Init /\ [][Next]_vars

\* The goroutines run and time passes; requests may take for ever.
FairSpec ==
    /\ Spec
    /\ WF_vars(Tick) /\ WF_vars(ListenClosed) /\ WF_vars(ShutdownStarts)
    /\ WF_vars(ShutdownDrained) /\ WF_vars(ShutdownExpires)
    /\ WF_vars(Stop) /\ WF_vars(Return \/ GiveUp)

-----------------------------------------------------------------------------
(* Properties.                                                              *)

\* A listener that failed is reported, whatever the shutdown it started does.
ListenErrorReported == groupErr = "failed" /\ result # "none" => result # "nil"

\* Unless run() gave up, no request is accepted after it has returned.
ClosedOnReturn == result \in {"nil", "error"} => ~Accepting

\* What the result of run() says of its two goroutines.
ResultSound == ListenErrorReported /\ ClosedOnReturn

\* A failed listener or a done context ends run(), however long a request
\* takes.  A run that is asked to stop later than MaxTime - ShutdownTimeout is
\* cut off by the bound on time.
Stops ==
    (now <= MaxTime - ShutdownTimeout /\ (CtxDone \/ listen = "failed"))
        ~> result # "none"

-----------------------------------------------------------------------------
(* What the code says and does not do.                                      *)

\* httpserver.go:190 "Wait for context cancellation and gracefully shut down
\* the server": open requests get the server's shutdown timeout
\* from the cancellation, when it is this that stops the server.
DrainTime ==
    shutdown = "expired" /\ groupErr # "failed" => now >= doneAt + ShutdownTimeout

\* httpserver.go:200 "server shutdown complete", and a nil error: no request
\* is open.
CompleteIsDrained == result = "nil" => open = 0
=============================================================================
