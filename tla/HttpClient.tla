----------------------------- MODULE HttpClient -----------------------------
(***************************************************************************)
(* pkg/http and pkg/http/tripperware: a request on its way from a caller    *)
(* through the chain that all clients share by default (retries, logging,   *)
(* circuit breaker, rate limit, metrics) to the transport, and its answer   *)
(* on the way back.                                                         *)
(***************************************************************************)
EXTENDS Naturals, FiniteSets

CONSTANTS
    Clients,     \* goroutines that make requests
    Hosts,
    HostOf(_),   \* the host of each one's URL
    Attempts,    \* the Steps of the Retrier's Backoff
    Trip,        \* consecutive failures that open a breaker, 10 in the code
    MaxFaults    \* bound: failures and cancellations in all

ASSUME HttpClientAssumption ==
    /\ Attempts \in Nat \ {0} /\ Trip \in Nat \ {0} /\ MaxFaults \in Nat
    /\ \A c \in Clients : HostOf(c) \in Hosts

VARIABLES
    pc,         \* where each caller's request is
    query,      \* the query it goes out with
    tries,      \* attempts made
    resp,       \* the *response.Data of the last one
    cancelled,  \* whether its context has ended
    spare,      \* the slice of the client's DefaultRequestOptions has room at its end
    slot,       \*   and this there, once appended to
    pool,       \* Breaker.BreakerPool
    taken,      \* the breaker each request runs under
    failures,   \* consecutive failures each breaker has counted
    faults      \* failures and cancellations so far

clientVars == <<pc, query, tries, resp, cancelled, spare, slot, pool, taken, failures, faults>>

(* pkg/errors: HTTP statuses as errors and back, and which errors are worth
   another attempt.                                                       *)
KnownStatuses ==
    {400, 401, 402, 403, 404, 405, 406, 407, 408, 409, 410, 423, 425, 429} \cup 500..504

\* An error: none, one that stands for a status (0 for ErrHTTPStatus itself),
\* one of the Kubernetes API with the status it carries, or one of the
\* transport, of which the transient kinds are those a later attempt may not
\* meet.
Transient    == {"timeout", "dns", "temporary", "disconnect", "syscall"}
ContextEnded == {"canceled", "deadline"}
ErrorKinds   == {"nil", "status", "api", "permanent"} \cup Transient \cup ContextEnded
Err(kind)    == [kind |-> kind, status |-> 0]
NoErr        == Err("nil")

StatusCodeAsErr(s) ==
    IF s > 0 /\ s < 400 THEN NoErr
    ELSE [kind |-> "status", status |-> IF s \in KnownStatuses THEN s ELSE 0]

Ours(e) == IF e.kind = "api" THEN StatusCodeAsErr(e.status) ELSE e

ErrAsStatusCode(e) ==
    IF e = NoErr THEN 200
    ELSE IF Ours(e).kind = "status" /\ Ours(e).status \in KnownStatuses THEN Ours(e).status
    ELSE 500

\* A status that goes through the error and back is the one it was, also by way
\* of the Kubernetes API; every other error is answered with 500.
ASSUME StatusesAssumption ==
    /\ \A s \in KnownStatuses : \A kind \in {"status", "api"} :
        ErrAsStatusCode([kind |-> kind, status |-> s]) = s /\ ErrAsStatusCode(StatusCodeAsErr(s)) = s
    /\ \A kind \in ErrorKinds \ {"nil"} : ErrAsStatusCode(Err(kind)) = 500

IsTransportRetryable(e) == e.kind \in Transient

IsRetryableError(e) ==
    \/ Ours(e).kind = "status" /\ Ours(e).status \in {408, 425, 429, 500, 502, 503, 504}
    \/ IsTransportRetryable(Ours(e))

-----------------------------------------------------------------------------

NoResponse == [status |-> 0, err |-> Err("permanent")]

ClientInit ==
    /\ pc = [c \in Clients |-> "idle"] /\ query = [c \in Clients |-> "none"]
    /\ tries = [c \in Clients |-> 0] /\ resp = [c \in Clients |-> NoResponse]
    /\ cancelled = [c \in Clients |-> FALSE]
    /\ spare \in BOOLEAN /\ slot = "none"
    /\ pool = "" /\ taken = [c \in Clients |-> ""]
    /\ failures = [h \in Hosts |-> 0] /\ faults = 0

Goto(c, s) == pc' = [pc EXCEPT ![c] = s]

\* Data.Error
ErrorOf(r) == IF r.err # NoErr THEN r.err ELSE StatusCodeAsErr(r.status)

\* append(c.DefaultRequestOptions, options...) writes behind the defaults; with
\* room there, into what they all share.
AppendOptions(c, q) ==
    /\ slot' = IF spare THEN q ELSE slot
    /\ query' = [query EXCEPT ![c] = q]

\* Mutant: the options of all requests are collected in the client.
ApplyOptionsShared(c) ==
    /\ pc[c] = "options"
    /\ query' = [query EXCEPT ![c] = slot]
    /\ Goto(c, "attempt")
    /\ UNCHANGED <<tries, resp, cancelled, spare, slot, pool, taken, failures, faults>>

ApplyOptions(c) ==
    /\ pc[c] = "options"
    /\ query' = [query EXCEPT ![c] = IF spare THEN slot ELSE @]
    /\ Goto(c, "attempt")
    /\ UNCHANGED <<tries, resp, cancelled, spare, slot, pool, taken, failures, faults>>

\* The Retrier's loop: with the context done before the first attempt there is
\* no response, and its caller dereferences nil.  Otherwise the request is
\* cloned, and the Breaker notes its host under a lock,
Attempt(c) ==
    /\ pc[c] = "attempt"
    /\ IF cancelled[c]
       THEN /\ Goto(c, IF tries[c] = 0 THEN "panicked" ELSE "done")
            /\ resp' = [resp EXCEPT ![c].err = ErrorOf(resp[c])]
            /\ UNCHANGED <<tries, pool>>
       ELSE /\ Goto(c, "breaker")
            /\ tries' = [tries EXCEPT ![c] = @ + 1]
            /\ pool' = HostOf(c)
            /\ UNCHANGED resp
    /\ UNCHANGED <<query, cancelled, spare, slot, taken, failures, faults>>

\* and takes the breaker of the noted host under another: of an open one it
\* gets no response, and panics.
TakeBreaker(c) ==
    /\ pc[c] = "breaker"
    /\ taken' = [taken EXCEPT ![c] = pool]
    /\ Goto(c, IF failures[pool] >= Trip THEN "panicked" ELSE "limit")
    /\ UNCHANGED <<query, tries, resp, cancelled, spare, slot, pool, failures, faults>>

\* The RateLimiter waits for a token or the end of the context.
Limited(c) ==
    /\ pc[c] = "limit" /\ cancelled[c]
    /\ resp' = [resp EXCEPT ![c] = [NoResponse EXCEPT !.err = Err("canceled")]]
    /\ Goto(c, "answered")
    /\ UNCHANGED <<query, tries, cancelled, spare, slot, pool, taken, failures, faults>>

Send(c) ==
    /\ pc[c] = "limit" /\ ~cancelled[c]
    /\ Goto(c, "sent")
    /\ UNCHANGED <<query, tries, resp, cancelled, spare, slot, pool, taken, failures, faults>>

Fault == faults < MaxFaults /\ faults' = faults + 1

Answered(c, r) ==
    /\ resp' = [resp EXCEPT ![c] = r]
    /\ Goto(c, "answered")
    /\ UNCHANGED <<query, tries, cancelled, spare, slot, pool, taken, failures>>

\* The transport fails, or notices the end of the context; what the request
\* does at the server is another matter.
TransportFails(c) ==
    /\ pc[c] = "sent"
    /\ IF cancelled[c]
       THEN Answered(c, [NoResponse EXCEPT !.err = Err("canceled")]) /\ UNCHANGED faults
       ELSE /\ \E kind \in {"disconnect", "permanent"} :
                    Answered(c, [NoResponse EXCEPT !.err = Err(kind)])
            /\ Fault

\* Mutant: the breaker learns of the error.
CountedErrors(f, r) == IF ErrorOf(r) = NoErr THEN 0 ELSE f + 1

\* The function under the breaker returns no error, whatever the response.
Counted(f, r) == 0

Exhausted(c) == tries[c] = Attempts

\* Back through the chain to the Retrier, which tries again, later, or returns
\* the response with its error.
Judge(c) ==
    LET e == ErrorOf(resp[c]) IN
    /\ pc[c] = "answered"
    /\ failures' = [failures EXCEPT ![taken[c]] = Counted(@, resp[c])]
    /\ IF IsRetryableError(e) /\ ~Exhausted(c)
       THEN Goto(c, "attempt") /\ UNCHANGED resp
       ELSE Goto(c, "done") /\ resp' = [resp EXCEPT ![c].err = e]
    /\ taken' = [taken EXCEPT ![c] = ""]
    /\ UNCHANGED <<query, tries, cancelled, spare, slot, pool, faults>>

\* Its caller gives up.
Cancel(c) ==
    /\ pc[c] \notin {"idle", "done", "panicked"} /\ ~cancelled[c]
    /\ Fault
    /\ cancelled' = [cancelled EXCEPT ![c] = TRUE]
    /\ UNCHANGED <<pc, query, tries, resp, spare, slot, pool, taken, failures>>
=============================================================================
