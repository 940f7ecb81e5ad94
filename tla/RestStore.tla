------------------------------ MODULE RestStore ------------------------------
(***************************************************************************)
(* pkg/store/backends/http: the store client turns calls into requests, the *)
(* servers in front of one store turn them back.  What a Read or a List      *)
(* returns, and the labels that servers with UseLabels set, are left out.   *)
(***************************************************************************)
EXTENDS Memory, HttpClient

CONSTANTS
    NameOf(_),   \* a value's GetName
    Invalid,     \* the values whose Validate fails
    UseLabels,   \* the servers' Config
    MaxCalls,    \* bound: calls in all
    Inputs(_)    \* bound: the calls each client may make

\* What a client may ask: with a dry run, with labels of its own that clash
\* with the server's, with an option that the server does not know, or with one
\* that cannot be serialized.
Asked ==
    [op : Writes \cup {"Read", "List"}, key : Keys \cup {Absent}, val : Values \cup {Absent},
     opt : {"none", "dryRun", "clash", "unknown", "local"}]

ASSUME RestStoreAssumption ==
    /\ MaxCalls \in Nat /\ Invalid \subseteq Values /\ UseLabels \in BOOLEAN
    /\ \A c \in Clients : Inputs(c) \subseteq Asked

VARIABLES
    map,    \* the contents of the store
    calls,  \* calls made
    id,     \* the number of each client's call,
    req,    \*   and what it asks
    wire,   \* requests that no server has handled yet
    ran,    \* (history) which calls under way it has carried out, and with which option
    unheard \* (history) those it has carried out at least once without a whole answer

storeVars == <<map, calls, id, req, wire, ran, unheard>>
vars      == <<clientVars, storeVars>>

Init ==
    /\ ClientInit
    /\ map \in {m \in Maps : \A k \in Keys : m[k] # Absent => NameOf(m[k]) = k /\ m[k] \notin Invalid}
    /\ calls = 0 /\ id = [c \in Clients |-> 0]
    /\ req = [c \in Clients |-> NoRequest]
    /\ wire = {} /\ ran = {} /\ unheard = {}

-----------------------------------------------------------------------------
(* The client.                                                              *)

\* What is written must carry its key as its name; an option that cannot be
\* serialized is refused here.
Accepted(r) ==
    /\ r.op \in {"Create", "Update", "Apply"} => NameOf(r.val) = r.key
    /\ r.opt # "local"

Call(c, r) ==
    /\ pc[c] = "idle" /\ calls < MaxCalls
    /\ calls' = calls + 1
    /\ id' = [id EXCEPT ![c] = calls + 1]
    /\ req' = [req EXCEPT ![c] = r]
    /\ IF Accepted(r) THEN Goto(c, "options") /\ AppendOptions(c, r.opt)
       ELSE Goto(c, "done") /\ UNCHANGED <<query, slot>>
    /\ UNCHANGED <<tries, resp, cancelled, spare, pool, taken, failures, faults>>
    /\ UNCHANGED <<map, wire, ran, unheard>>

SendAttempt(c) ==
    /\ Send(c)
    /\ wire' = wire \cup {[client |-> c, id |-> id[c], try |-> tries[c],
                           req |-> [req[c] EXCEPT !.opt = query[c]]]}
    /\ UNCHANGED <<map, calls, id, req, ran, unheard>>

\* The status by which a handler reports success, and the store's refusal.
OkStatus(op) == CASE op = "Create" -> 201 [] op = "Delete" -> 204 [] OTHER -> 200
NoStatus(op) == IF op = "Create" THEN 409 ELSE 404

\* Mutant: an error unless it is the status of a List.
ResultPlain(r, op) == IF r.err = NoErr /\ r.status # 200 THEN Err("permanent") ELSE ErrorOf(r)

\* Of a write, the status of success counts more than an answer cut short.
Result(r, op) ==
    IF op \in Writes /\ r.status = OkStatus(op) THEN NoErr ELSE ErrorOf(r)

Outcome(c) == Result(resp[c], req[c].op)

Return(c) ==
    /\ pc[c] = "done"
    /\ Goto(c, "idle")
    /\ tries' = [tries EXCEPT ![c] = 0] /\ cancelled' = [cancelled EXCEPT ![c] = FALSE]
    /\ resp' = [resp EXCEPT ![c] = NoResponse] /\ query' = [query EXCEPT ![c] = "none"]
    /\ req' = [req EXCEPT ![c] = NoRequest] /\ id' = [id EXCEPT ![c] = 0]
    /\ ran' = {x \in ran : x[1] # id[c]} /\ unheard' = unheard \ {id[c]}
    /\ UNCHANGED <<spare, slot, pool, taken, failures, faults, map, calls, wire>>

-----------------------------------------------------------------------------
(* The servers.                                                             *)

\* An answer comes back whole, without all of its body, or not at all; it is
\* for the attempt that asked, if that still waits.
Awaited(q)  == pc[q.client] = "sent" /\ id[q.client] = q.id /\ tries[q.client] = q.try
Deliveries(q) == IF Awaited(q) THEN {"whole", "cut", "lost"} ELSE {"lost"}

Faulty(broken, how) == IF broken \/ how = "cut" THEN Fault ELSE UNCHANGED faults

Respond(q, status, how) ==
    /\ wire' = wire \ {q}
    /\ IF how = "lost" THEN UNCHANGED <<pc, query, tries, resp, cancelled, spare, slot, pool, taken, failures>>
       ELSE Answered(q.client, [status |-> status,
                                err |-> IF how = "cut" THEN Err("disconnect") ELSE NoErr])
    /\ UNCHANGED <<calls, id, req>>

\* A custom label, or a selector, that clashes with the server's: 400 is
\* answered, and the handler goes on without any label.
Clash(q) == UseLabels /\ q.req.opt = "clash"

\* GetOptions meets an option that is not registered at the server.
Unparsed(q) == q.req.opt = "unknown"
BadBody(q)  == q.req.op \in {"Create", "Update", "Apply"} /\ q.req.val \in Invalid

Reject(q) ==
    /\ Unparsed(q) \/ BadBody(q)
    /\ \E how \in Deliveries(q) :
            Respond(q, 400, how) /\ Faulty(FALSE, how)
    /\ UNCHANGED <<map, ran, unheard>>

\* The store does what the handler of op asks, or fails.
Handle(q, op) ==
    /\ q.req.op = op /\ ~Unparsed(q) /\ ~BadBody(q)
    /\ \E broken \in BOOLEAN, how \in Deliveries(q) :
        LET failed == broken \/ Refused(map, q.req)
            status == CASE Clash(q) -> 400
                        [] broken   -> 500
                        [] failed   -> NoStatus(op)
                        [] OTHER    -> OkStatus(op)
        IN  /\ map' = IF failed THEN map ELSE Written(map, q.req)
            /\ ran' = IF failed \/ id[q.client] # q.id THEN ran ELSE ran \cup {<<q.id, q.req.opt>>}
            /\ unheard' = IF failed \/ how = "whole" \/ id[q.client] # q.id THEN unheard
                          ELSE unheard \cup {q.id}
            /\ Faulty(broken, how)
            /\ Respond(q, status, how)

Create(q) == Handle(q, "Create")
Read(q)   == Handle(q, "Read")
Update(q) == Handle(q, "Update")
Apply(q)  == Handle(q, "Apply")
Delete(q) == Handle(q, "Delete")
List(q)   == Handle(q, "List")

\* A request that nobody waits for may never arrive.
Lose(q) ==
    /\ ~Awaited(q)
    /\ wire' = wire \ {q}
    /\ UNCHANGED <<clientVars, map, calls, id, req, ran, unheard>>

-----------------------------------------------------------------------------
Next ==
    \/ \E c \in Clients : \E r \in Inputs(c) : Call(c, r)
    \/ \E c \in Clients : Return(c)
    \/ \E c \in Clients : ApplyOptions(c) /\ UNCHANGED storeVars
    \/ \E c \in Clients : Attempt(c) /\ UNCHANGED storeVars
    \/ \E c \in Clients : TakeBreaker(c) /\ UNCHANGED storeVars
    \/ \E c \in Clients : Limited(c) /\ UNCHANGED storeVars
    \/ \E c \in Clients : SendAttempt(c)
    \/ \E c \in Clients : TransportFails(c) /\ UNCHANGED storeVars
    \/ \E c \in Clients : Judge(c) /\ UNCHANGED storeVars
    \/ \E c \in Clients : Cancel(c) /\ UNCHANGED storeVars
    \/ \E q \in wire : Reject(q)
    \/ \E q \in wire : Create(q)
    \/ \E q \in wire : Read(q)
    \/ \E q \in wire : Update(q)
    \/ \E q \in wire : Apply(q)
    \/ \E q \in wire : Delete(q)
    \/ \E q \in wire : List(q)
    \/ \E q \in wire : Lose(q)

Spec == Init /\ [][Next]_vars

-----------------------------------------------------------------------------
(* Properties.                                                              *)

\* A call that returns without an error has been carried out by the store, and
\* with the options it was made with: no other attempt's answer is taken for
\* its own, and no other client's options, unless the client's default options
\* leave room behind them.
NilMeansDone ==
    \A c \in Clients :
        pc[c] = "done" /\ Outcome(c) = NoErr
        => \E o \in {q[2] : q \in {x \in ran : x[1] = id[c]}} : o = req[c].opt \/ spare

\* A call that returns an error although the store has carried it out has lost
\* the answer to one of its attempts, or was answered 400 for its labels: no
\* answer that arrives is misread, and no conflict or absence is reported that
\* the call has not met, or made itself in an attempt before.
FailureIsHonest ==
    \A c \in Clients :
        pc[c] = "done" /\ Outcome(c) # NoErr /\ (\E o \in {x[2] : x \in ran} : <<id[c], o>> \in ran)
        => id[c] \in unheard \/ (UseLabels /\ query[c] = "clash")

\* What a call that returns says of what it did.
AnswerHonest == NilMeansDone /\ FailureIsHonest

\* A client panics only for a context that had ended before the first attempt:
\* however many requests fail, and whichever host's breaker they ran under, no
\* breaker opens.
PanicsOnlyUnsent ==
    \A c \in Clients : pc[c] = "panicked" => cancelled[c] /\ tries[c] = 0

=============================================================================
