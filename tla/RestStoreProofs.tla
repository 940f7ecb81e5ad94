--------------------------- MODULE RestStoreProofs ---------------------------
(***************************************************************************)
(* For any clients, hosts, calls and bounds: what a call of the REST store  *)
(* client that returns says of what the servers did (AnswerHonest), and     *)
(* when a client panics (PanicsOnlyUnsent).                                 *)
(***************************************************************************)
EXTENDS RestStore, TLAPS

-----------------------------------------------------------------------------
(* The part of the types that the arguments need.                           *)

QueryOptions == {"none", "dryRun", "clash", "unknown", "local"}
OnTheWay     == {"options", "attempt", "breaker", "limit", "sent", "answered"}
Statuses     == {0, 200, 201, 204, 400, 404, 409, 500}
Errors       == [kind : ErrorKinds, status : Nat]

ClientTyped ==
    /\ pc \in [Clients -> OnTheWay \cup {"idle", "done", "panicked"}]
    /\ query \in [Clients -> QueryOptions] /\ slot \in QueryOptions
    /\ tries \in [Clients -> Nat]
    /\ resp \in [Clients -> [status : Statuses, err : Errors]]
    /\ cancelled \in [Clients -> BOOLEAN]

StoreTyped ==
    /\ calls \in Nat
    /\ id \in [Clients -> Nat]
    /\ req \in [Clients -> Asked \cup {NoRequest}]
    /\ wire \subseteq [client : Clients, id : Nat, try : Nat, req : Asked]
    /\ ran \subseteq Nat \X QueryOptions

RestTyped == ClientTyped /\ StoreTyped

-----------------------------------------------------------------------------
(* Breakers.                                                                *)

\* No breaker has counted a failure, and a request about to take one finds the
\* breaker of some host.
BreakersClosed ==
    /\ failures = [h \in Hosts |-> 0]
    /\ \A c \in Clients : pc[c] = "breaker" => pool \in Hosts

-----------------------------------------------------------------------------
(* Calls and their requests.                                                *)

\* Calls under way have numbers of their own; what is on the wire or was
\* carried out bears the number of a call that was made, and while that is under
\* way it asks what its caller asked.
CallsInv ==
    /\ \A c \in Clients : id[c] <= calls /\ (pc[c] = "idle" <=> id[c] = 0)
    /\ \A c, d \in Clients : id[c] = id[d] /\ id[c] # 0 => c = d
    /\ \A x \in ran :
          /\ 0 < x[1] /\ x[1] <= calls
          /\ \A c \in Clients : id[c] = x[1] => pc[c] # "options"
    /\ \A c \in Clients : pc[c] # "idle" => req[c] \in Asked
    /\ \A q \in wire :
          /\ 0 < q.id /\ q.id <= calls
          /\ id[q.client] = q.id =>
                /\ pc[q.client] # "options"
                /\ q.req = [req[q.client] EXCEPT !.opt = query[q.client]]

\* The options a request goes out with are its caller's, unless those of
\* another have overwritten them.
OptionsInv == \A c \in Clients : pc[c] \in OnTheWay => query[c] = req[c].opt \/ spare

\* What a server answers to a call of op, and 0 for no answer.
PossibleStatuses(op) == {0, 400, 404, 409, 500, OkStatus(op)}

\* A status that reports success is the answer of a server that has carried
\* out the call.
ResponsesInv ==
    \A c \in Clients :
        /\ pc[c] \in {"idle", "options"} => resp[c].status = 0
        /\ resp[c].status \in PossibleStatuses(req[c].op)
        /\ resp[c].status = OkStatus(req[c].op) =>
              <<id[c], query[c]>> \in ran /\ (query[c] = req[c].opt \/ spare)

\* A call that was carried out, and whose answers have all come back whole, has
\* the answer that says so.
CarriedOut(c) == \E x \in ran : x[1] = id[c]
HeardInv ==
    \A c \in Clients :
        CarriedOut(c) /\ id[c] \notin unheard /\ ~(UseLabels /\ query[c] = "clash") =>
            /\ pc[c] \in {"answered", "done"}
            /\ resp[c].status = OkStatus(req[c].op) /\ resp[c].err = NoErr

AnswersInv == CallsInv /\ OptionsInv /\ ResponsesInv /\ HeardInv

-----------------------------------------------------------------------------
(* The operators.                                                           *)

\* What Data.Error makes of a response (http.go, Data.Error) is an error.
LEMMA ErrorOfIsError ==
    ASSUME NEW r \in [status : Statuses, err : Errors]
    PROVE  ErrorOf(r) \in Errors
<1>1. r.err \in Errors /\ r.status \in Nat BY DEF Statuses
<1>2. NoErr \in Errors BY DEF NoErr, Err, Errors, ErrorKinds
<1>3. StatusCodeAsErr(r.status) \in Errors
  <2>1. CASE r.status > 0 /\ r.status < 400 BY <1>2, <2>1 DEF StatusCodeAsErr
  <2>2. CASE ~(r.status > 0 /\ r.status < 400)
    <3>1. (IF r.status \in KnownStatuses THEN r.status ELSE 0) \in Nat BY <1>1
    <3>2. "status" \in ErrorKinds BY DEF ErrorKinds
    <3> QED BY <2>2, <3>1, <3>2 DEF StatusCodeAsErr, Errors
  <2> QED BY <2>1, <2>2
<1> QED BY <1>1, <1>3 DEF ErrorOf

\* A response without an error has a status below 400, and the other way round
\* unless the transport failed.
LEMMA NoErrorMeans ==
    ASSUME NEW r \in [status : Statuses, err : Errors]
    PROVE  ErrorOf(r) = NoErr <=> r.err = NoErr /\ r.status \in {200, 201, 204}
<1>1. StatusCodeAsErr(r.status) = NoErr <=> r.status \in {200, 201, 204}
  BY DEF StatusCodeAsErr, NoErr, Err, Statuses
<1> QED BY <1>1 DEF ErrorOf

\* Success is not tried again.
LEMMA SuccessIsFinal == ~IsRetryableError(NoErr)
BY DEF IsRetryableError, IsTransportRetryable, Ours, NoErr, Err, Transient

LEMMA OkStatuses ==
    ASSUME NEW op
    PROVE  OkStatus(op) \in {200, 201, 204} /\ NoStatus(op) \in {404, 409}
<1>1. CASE op = "Create" BY <1>1 DEF OkStatus, NoStatus
<1>2. CASE op = "Delete" BY <1>2 DEF OkStatus, NoStatus
<1>3. CASE op \notin {"Create", "Delete"} BY <1>3 DEF OkStatus, NoStatus
<1> QED BY <1>1, <1>2, <1>3

\* A call that returns succeeds if and only if the status says so, be it that a
\* write's answer was cut short, or that nothing was wrong with it.
LEMMA OutcomeMeans ==
    ASSUME RestTyped, ResponsesInv, NEW c \in Clients
    PROVE  /\ Outcome(c) = NoErr => resp[c].status = OkStatus(req[c].op)
           /\ resp[c].status = OkStatus(req[c].op) /\ resp[c].err = NoErr => Outcome(c) = NoErr
<1>1. resp[c] \in [status : Statuses, err : Errors] BY DEF RestTyped, ClientTyped
<1>2. ErrorOf(resp[c]) = NoErr <=> resp[c].err = NoErr /\ resp[c].status \in {200, 201, 204}
  BY <1>1, NoErrorMeans
<1>3. OkStatus(req[c].op) \in {200, 201, 204} BY OkStatuses
<1>4. resp[c].status \in PossibleStatuses(req[c].op) BY DEF ResponsesInv
<1> QED BY <1>2, <1>3, <1>4 DEF Outcome, Result, PossibleStatuses

-----------------------------------------------------------------------------
(* A step of a client under way, which leaves the servers alone.            *)

LEMMA ClientStep ==
    ASSUME RestTyped, AnswersInv, NEW c \in Clients, UNCHANGED <<storeVars, spare>>,
           \A d \in Clients \ {c} : pc'[d] = pc[d] /\ query'[d] = query[d] /\ resp'[d] = resp[d],
           pc[c] # "idle", pc'[c] \notin {"idle", "options"},
           query'[c] = query[c] \/ pc[c] = "options",
           pc'[c] \in OnTheWay => query'[c] = req[c].opt \/ spare,
           resp'[c].status = resp[c].status \/ resp'[c].status = 0,
           pc[c] \in {"answered", "done"} /\ resp[c].status = OkStatus(req[c].op) /\ resp[c].err = NoErr
              => /\ pc'[c] \in {"answered", "done"}
                 /\ resp'[c].status = resp[c].status /\ resp'[c].err = NoErr
    PROVE  AnswersInv'
<1>0. /\ RestTyped /\ CallsInv /\ OptionsInv /\ ResponsesInv /\ HeardInv BY DEF AnswersInv
<1>1. UNCHANGED <<map, calls, id, req, wire, ran, unheard, spare>> BY DEF storeVars
<1>2. pc[c] = "options" => ~CarriedOut(c)
  BY <1>0 DEF CallsInv, CarriedOut
<1>3. CallsInv'
  <2>1. ASSUME NEW q \in wire, id[q.client] = q.id
        PROVE  pc'[q.client] # "options" /\ q.req = [req[q.client] EXCEPT !.opt = query'[q.client]]
    <3>1. q.client \in Clients BY <1>0 DEF RestTyped, StoreTyped
    <3>2. pc[q.client] # "options" /\ q.req = [req[q.client] EXCEPT !.opt = query[q.client]]
      BY <1>0, <2>1 DEF CallsInv
    <3> QED BY <3>1, <3>2
  <2>2. \A d \in Clients : id[d] <= calls /\ (pc'[d] = "idle" <=> id[d] = 0)
    BY <1>0 DEF CallsInv
  <2>3. \A x \in ran : \A d \in Clients : id[d] = x[1] => pc'[d] # "options"
    BY <1>0 DEF CallsInv
  <2>4. \A d \in Clients : pc'[d] # "idle" => req[d] \in Asked BY <1>0 DEF CallsInv
  <2> QED BY <1>0, <1>1, <2>1, <2>2, <2>3, <2>4 DEF CallsInv
<1>4. OptionsInv' BY <1>0, <1>1 DEF OptionsInv
<1>5. ResponsesInv'
  <2> SUFFICES ASSUME NEW d \in Clients
               PROVE  /\ pc'[d] \in {"idle", "options"} => resp'[d].status = 0
                      /\ resp'[d].status = OkStatus(req[d].op) =>
                            <<id[d], query'[d]>> \in ran /\ (query'[d] = req[d].opt \/ spare)
                      /\ resp'[d].status \in PossibleStatuses(req[d].op)
    BY <1>1 DEF ResponsesInv
  <2>1. CASE d # c BY <1>0, <2>1 DEF ResponsesInv
  <2>2. CASE d = c
    <3>1. pc[c] = "options" => resp[c].status = 0 BY <1>0 DEF ResponsesInv
    <3>2. CASE resp'[c].status = 0
      <4>1. OkStatus(req[c].op) # 0 BY OkStatuses
      <4>2. 0 \in PossibleStatuses(req[c].op) BY DEF PossibleStatuses
      <4>3. resp'[d].status # OkStatus(req[d].op) BY <2>2, <3>2, <4>1
      <4>4. resp'[d].status \in PossibleStatuses(req[d].op) BY <2>2, <3>2, <4>2
      <4>5. resp'[d].status = 0 BY <2>2, <3>2
      <4> QED BY <4>3, <4>4, <4>5
    <3>3. CASE resp'[c].status # 0
      <4>1. query'[d] = query[d] /\ resp'[d].status = resp[d].status /\ pc'[d] \notin {"idle", "options"}
        BY <2>2, <3>1, <3>3
      <4>2. /\ resp[d].status \in PossibleStatuses(req[d].op)
            /\ resp[d].status = OkStatus(req[d].op) =>
                  <<id[d], query[d]>> \in ran /\ (query[d] = req[d].opt \/ spare)
        BY <1>0 DEF ResponsesInv
      <4> QED BY <4>1, <4>2
    <3> QED BY <3>2, <3>3
  <2> QED BY <2>1, <2>2
<1>6. HeardInv'
  <2> SUFFICES ASSUME NEW d \in Clients, CarriedOut(d), id[d] \notin unheard,
                      ~(UseLabels /\ query'[d] = "clash")
               PROVE  /\ pc'[d] \in {"answered", "done"}
                      /\ resp'[d].status = OkStatus(req[d].op) /\ resp'[d].err = NoErr
    BY <1>1 DEF HeardInv, CarriedOut
  <2>1. query'[d] = query[d] BY <1>2
  <2>2. /\ pc[d] \in {"answered", "done"}
        /\ resp[d].status = OkStatus(req[d].op) /\ resp[d].err = NoErr
    BY <1>0, <2>1 DEF HeardInv
  <2> QED BY <2>2
<1> QED BY <1>3, <1>4, <1>5, <1>6 DEF AnswersInv

-----------------------------------------------------------------------------
(* A step of a server: it answers, and has carried the call out or not.     *)

\* What the answer to q says of what was done (server.go's handlers): the status
\* of success only when it was done, another after that only for labels that
\* clash; and what the history notes of it.
Served(q, how, status, did) ==
    /\ Respond(q, status, how)
    /\ status \in PossibleStatuses(q.req.op) \ {0}
    /\ status = OkStatus(q.req.op) => did
    /\ did /\ status # OkStatus(q.req.op) => UseLabels /\ q.req.opt = "clash"
    /\ ran' = IF ~did \/ id[q.client] # q.id THEN ran ELSE ran \cup {<<q.id, q.req.opt>>}
    /\ unheard' = IF ~did \/ how = "whole" \/ id[q.client] # q.id THEN unheard ELSE unheard \cup {q.id}

\* What a server's answer changes for the client that made the call.
LEMMA AnswerEffect ==
    ASSUME RestTyped, AnswersInv, NEW q \in wire, NEW how \in Deliveries(q), NEW status, NEW did,
           Served(q, how, status, did)
    PROVE  /\ UNCHANGED <<calls, id, req, query, tries, cancelled, spare, slot, pool, taken, failures>>
           /\ wire' = wire \ {q}
           /\ q.client \in Clients /\ q.req \in Asked /\ q.id \in Nat
           /\ \A d \in Clients \ {q.client} : pc'[d] = pc[d] /\ resp'[d] = resp[d]
           /\ how = "lost" => pc' = pc /\ resp' = resp
           /\ how # "lost" =>
                 /\ pc[q.client] = "sent" /\ id[q.client] = q.id
                 /\ pc' = [pc EXCEPT ![q.client] = "answered"]
                 /\ resp' = [resp EXCEPT ![q.client] =
                        [status |-> status, err |-> IF how = "cut" THEN Err("disconnect") ELSE NoErr]]
           /\ how \in {"whole", "cut", "lost"}
<1>1. q \in [client : Clients, id : Nat, try : Nat, req : Asked] BY DEF RestTyped, StoreTyped
<1>2. how = "lost" => pc' = pc /\ resp' = resp /\ UNCHANGED <<query, tries, cancelled, spare, slot, pool, taken, failures>>
  BY DEF Served, Respond
<1>3. how # "lost" => /\ pc[q.client] = "sent" /\ id[q.client] = q.id
                      /\ pc' = [pc EXCEPT ![q.client] = "answered"]
                      /\ resp' = [resp EXCEPT ![q.client] =
                            [status |-> status, err |-> IF how = "cut" THEN Err("disconnect") ELSE NoErr]]
                      /\ UNCHANGED <<query, tries, cancelled, spare, slot, pool, taken, failures>>
  BY DEF Served, Respond, Answered, Goto, Deliveries, Awaited
<1>4. how \in {"whole", "cut", "lost"} BY DEF Deliveries
<1>5. UNCHANGED <<calls, id, req>> /\ wire' = wire \ {q} BY DEF Served, Respond
<1>6. \A d \in Clients \ {q.client} : pc'[d] = pc[d] /\ resp'[d] = resp[d]
  BY <1>1, <1>2, <1>3 DEF RestTyped, ClientTyped
<1> QED BY <1>1, <1>2, <1>3, <1>4, <1>5, <1>6

LEMMA ServerStep ==
    ASSUME RestTyped, AnswersInv, NEW q \in wire, NEW how \in Deliveries(q), NEW status, NEW did,
           Served(q, how, status, did)
    PROVE  AnswersInv'
<1>0. CallsInv /\ OptionsInv /\ ResponsesInv /\ HeardInv BY DEF AnswersInv
<1> DEFINE o == q.client
<1>1. /\ UNCHANGED <<calls, id, req, query, spare>>
      /\ wire' = wire \ {q}
      /\ o \in Clients /\ q.req \in Asked /\ q.id \in Nat
      /\ \A d \in Clients \ {o} : pc'[d] = pc[d] /\ resp'[d] = resp[d]
  BY AnswerEffect
<1>2. how = "lost" => pc' = pc /\ resp' = resp BY AnswerEffect
<1>3. how # "lost" =>
        /\ pc[o] = "sent" /\ id[o] = q.id /\ pc'[o] = "answered"
        /\ resp'[o].status = status
        /\ how = "whole" => resp'[o].err = NoErr
  <2> SUFFICES ASSUME how # "lost"
               PROVE  /\ pc[o] = "sent" /\ id[o] = q.id /\ pc'[o] = "answered"
                      /\ resp'[o].status = status
                      /\ how = "whole" => resp'[o].err = NoErr
    OBVIOUS
  <2>1. /\ pc[o] = "sent" /\ id[o] = q.id
        /\ pc' = [pc EXCEPT ![o] = "answered"]
        /\ resp' = [resp EXCEPT ![o] =
               [status |-> status, err |-> IF how = "cut" THEN Err("disconnect") ELSE NoErr]]
    BY AnswerEffect
  <2>2. pc'[o] = "answered" BY <1>1, <2>1 DEF RestTyped, ClientTyped
  <2>3. resp'[o] = [status |-> status, err |-> IF how = "cut" THEN Err("disconnect") ELSE NoErr]
    BY <1>1, <2>1 DEF RestTyped, ClientTyped
  <2> QED BY <2>1, <2>2, <2>3
<1>4. \A d \in Clients : pc'[d] = pc[d] \/ (pc[d] = "sent" /\ pc'[d] = "answered") BY <1>1, <1>2, <1>3
<1>5. id[o] = q.id => /\ q.req.op = req[o].op /\ q.req.opt = query[o]
                      /\ pc[o] \notin {"idle", "options"}
                      /\ \A d \in Clients : id[d] = q.id => d = o
  <2>1. ASSUME id[o] = q.id PROVE q.req = [req[o] EXCEPT !.opt = query[o]] /\ q.id # 0 /\ pc[o] # "options"
    BY <1>0, <2>1 DEF CallsInv
  <2>2. ASSUME id[o] = q.id PROVE pc[o] # "idle" /\ req[o] \in Asked BY <1>0, <1>1, <2>1, <2>2 DEF CallsInv
  <2>3. ASSUME id[o] = q.id PROVE q.req.op = req[o].op /\ q.req.opt = query[o]
    BY <2>1, <2>2, <2>3 DEF Asked
  <2>4. ASSUME id[o] = q.id PROVE \A d \in Clients : id[d] = q.id => d = o
    BY <1>0, <1>1, <2>1, <2>4 DEF CallsInv
  <2> QED BY <2>1, <2>2, <2>3, <2>4
<1>6. ran \subseteq ran' /\ unheard \subseteq unheard' BY DEF Served
<1>7. \A x \in ran' : x \in ran \/ (x = <<q.id, q.req.opt>> /\ id[o] = q.id /\ did) BY DEF Served
<1>8. CallsInv'
  <2>1. \A d \in Clients : id'[d] <= calls' /\ (pc'[d] = "idle" <=> id'[d] = 0)
    BY <1>0, <1>1, <1>4 DEF CallsInv
  <2>2. ASSUME NEW x \in ran'
        PROVE  0 < x[1] /\ x[1] <= calls' /\ \A d \in Clients : id'[d] = x[1] => pc'[d] # "options"
    <3>1. CASE x \in ran BY <1>0, <1>1, <1>4, <3>1 DEF CallsInv
    <3>2. CASE x = <<q.id, q.req.opt>> /\ id[o] = q.id
      <4>1. 0 < q.id /\ q.id <= calls BY <1>0 DEF CallsInv
      <4> QED BY <1>1, <1>4, <1>5, <3>2, <4>1
    <3> QED BY <1>7, <3>1, <3>2
  <2>3. ASSUME NEW p \in wire'
        PROVE  /\ 0 < p.id /\ p.id <= calls'
               /\ id'[p.client] = p.id =>
                     pc'[p.client] # "options" /\ p.req = [req'[p.client] EXCEPT !.opt = query'[p.client]]
    <3>1. p \in wire /\ p.client \in Clients BY <1>1 DEF RestTyped, StoreTyped
    <3>2. /\ 0 < p.id /\ p.id <= calls
          /\ id[p.client] = p.id =>
                pc[p.client] # "options" /\ p.req = [req[p.client] EXCEPT !.opt = query[p.client]]
      BY <1>0, <3>1 DEF CallsInv
    <3> QED BY <1>1, <1>4, <3>1, <3>2
  <2>4. \A c, d \in Clients : id'[c] = id'[d] /\ id'[c] # 0 => c = d BY <1>0, <1>1 DEF CallsInv
  <2>5. \A d \in Clients : pc'[d] # "idle" => req'[d] \in Asked BY <1>0, <1>1, <1>4 DEF CallsInv
  <2> QED BY <2>1, <2>2, <2>3, <2>4, <2>5 DEF CallsInv
<1>9. OptionsInv' BY <1>0, <1>1, <1>4 DEF OptionsInv, OnTheWay
<1>10. ResponsesInv'
  <2> SUFFICES ASSUME NEW d \in Clients
               PROVE  /\ pc'[d] \in {"idle", "options"} => resp'[d].status = 0
                      /\ resp'[d].status \in PossibleStatuses(req[d].op)
                      /\ resp'[d].status = OkStatus(req[d].op) =>
                            <<id[d], query[d]>> \in ran' /\ (query[d] = req[d].opt \/ spare)
    BY <1>1 DEF ResponsesInv
  <2>1. /\ pc[d] \in {"idle", "options"} => resp[d].status = 0
        /\ resp[d].status \in PossibleStatuses(req[d].op)
        /\ resp[d].status = OkStatus(req[d].op) =>
              <<id[d], query[d]>> \in ran /\ (query[d] = req[d].opt \/ spare)
    BY <1>0 DEF ResponsesInv
  <2>2. CASE d # o \/ how = "lost"
    <3>1. pc'[d] = pc[d] /\ resp'[d] = resp[d] BY <1>1, <1>2, <2>2
    <3> QED BY <1>6, <2>1, <3>1
  <2>3. CASE d = o /\ how # "lost"
    <3>1. id[o] = q.id /\ pc'[o] = "answered" /\ resp'[o].status = status BY <1>3, <2>3
    <3>2. status \in PossibleStatuses(req[o].op) BY <1>5, <3>1 DEF Served
    <3>3. ASSUME status = OkStatus(req[o].op)
          PROVE  <<id[o], query[o]>> \in ran' /\ (query[o] = req[o].opt \/ spare)
      <4>1. did BY <1>5, <3>1, <3>3 DEF Served
      <4>2. ran' = ran \cup {<<q.id, q.req.opt>>} BY <3>1, <4>1 DEF Served
      <4>3. query[o] = req[o].opt \/ spare BY <1>0, <1>1, <1>3, <2>3 DEF OptionsInv, OnTheWay
      <4> QED BY <1>5, <3>1, <4>2, <4>3
    <3> QED BY <2>3, <3>1, <3>2, <3>3
  <2> QED BY <2>2, <2>3
<1>11. HeardInv'
  <2> SUFFICES ASSUME NEW d \in Clients, CarriedOut(d)', id[d] \notin unheard',
                      ~(UseLabels /\ query[d] = "clash")
               PROVE  /\ pc'[d] \in {"answered", "done"}
                      /\ resp'[d].status = OkStatus(req[d].op) /\ resp'[d].err = NoErr
    BY <1>1 DEF HeardInv
  <2>1. id[d] \notin unheard BY <1>6
  <2>2. PICK x \in ran' : x[1] = id[d] BY <1>1 DEF CarriedOut
  <2>3. CarriedOut(d) => /\ pc[d] \in {"answered", "done"}
                         /\ resp[d].status = OkStatus(req[d].op) /\ resp[d].err = NoErr
    BY <1>0, <2>1 DEF HeardInv
  <2>4. CASE CarriedOut(d)
    <3>1. ~(d = o /\ how # "lost") BY <1>3, <2>3, <2>4
    <3>2. pc'[d] = pc[d] /\ resp'[d] = resp[d] BY <1>1, <1>2, <3>1
    <3> QED BY <2>3, <2>4, <3>2
  <2>5. CASE ~CarriedOut(d)
    <3>1. x = <<q.id, q.req.opt>> /\ id[o] = q.id /\ did BY <1>7, <2>2, <2>5 DEF CarriedOut
    <3>2. d = o BY <1>5, <2>2, <3>1
    <3>3. how = "whole"
      <4>1. unheard' = IF how = "whole" THEN unheard ELSE unheard \cup {q.id} BY <3>1 DEF Served
      <4> QED BY <3>1, <3>2, <4>1
    <3>4. q.req.op = req[d].op /\ q.req.opt = query[d] BY <1>5, <3>1, <3>2
    <3>5. status = OkStatus(req[d].op) BY <3>1, <3>4 DEF Served
    <3> QED BY <1>3, <3>2, <3>3, <3>5
  <2> QED BY <2>4, <2>5
<1> QED BY <1>8, <1>9, <1>10, <1>11 DEF AnswersInv

-----------------------------------------------------------------------------
(* The steps that begin a call, send a request, and end a call.             *)

LEMMA CallStep ==
    ASSUME RestTyped, AnswersInv, NEW c \in Clients, NEW r \in Inputs(c), Call(c, r)
    PROVE  RestTyped' /\ AnswersInv'
<1>0. CallsInv /\ OptionsInv /\ ResponsesInv /\ HeardInv BY DEF AnswersInv
<1>1. /\ pc[c] = "idle" /\ calls' = calls + 1 /\ calls \in Nat
      /\ id' = [id EXCEPT ![c] = calls + 1] /\ req' = [req EXCEPT ![c] = r]
      /\ UNCHANGED <<tries, resp, cancelled, spare, pool, taken, failures, faults, wire, ran, unheard>>
  BY DEF Call, RestTyped, StoreTyped
<1>2. r \in Asked /\ r \in Asked \cup {NoRequest} BY RestStoreAssumption
<1>3. \/ /\ pc' = [pc EXCEPT ![c] = "options"] /\ query' = [query EXCEPT ![c] = r.opt]
         /\ slot' = IF spare THEN r.opt ELSE slot
      \/ pc' = [pc EXCEPT ![c] = "done"] /\ UNCHANGED <<query, slot>>
  BY DEF Call, Goto, AppendOptions
<1>4. r.opt \in QueryOptions BY <1>2 DEF Asked, QueryOptions
<1>5. RestTyped'
  <2>1. pc' \in [Clients -> OnTheWay \cup {"idle", "done", "panicked"}]
    BY <1>3 DEF RestTyped, ClientTyped, OnTheWay
  <2>2. query' \in [Clients -> QueryOptions] /\ slot' \in QueryOptions
    BY <1>3, <1>4 DEF RestTyped, ClientTyped
  <2>3. ClientTyped' BY <1>1, <2>1, <2>2 DEF RestTyped, ClientTyped
  <2>4. id' \in [Clients -> Nat] /\ calls' \in Nat BY <1>1 DEF RestTyped, StoreTyped
  <2>5. req' \in [Clients -> Asked \cup {NoRequest}] BY <1>1, <1>2 DEF RestTyped, StoreTyped
  <2>6. StoreTyped' BY <1>1, <2>4, <2>5 DEF RestTyped, StoreTyped
  <2> QED BY <2>3, <2>6 DEF RestTyped
<1>6. /\ id'[c] = calls + 1 /\ req'[c] = r /\ pc'[c] \in {"options", "done"}
      /\ pc'[c] = "options" => query'[c] = r.opt
  <2>1. id'[c] = calls + 1 /\ req'[c] = r BY <1>1 DEF RestTyped, StoreTyped
  <2>2. pc'[c] \in {"options", "done"} /\ (pc'[c] = "options" => query'[c] = r.opt)
    BY <1>3 DEF RestTyped, ClientTyped
  <2> QED BY <2>1, <2>2
<1>7. ASSUME NEW d \in Clients \ {c}
      PROVE  id'[d] = id[d] /\ req'[d] = req[d] /\ pc'[d] = pc[d] /\ query'[d] = query[d]
  <2>1. id'[d] = id[d] /\ req'[d] = req[d] BY <1>1 DEF RestTyped, StoreTyped
  <2>2. pc'[d] = pc[d] /\ query'[d] = query[d] BY <1>3 DEF RestTyped, ClientTyped
  <2> QED BY <2>1, <2>2
<1>8. \A d \in Clients : id[d] \in Nat /\ id[d] <= calls BY <1>0 DEF RestTyped, StoreTyped, CallsInv
<1>9. \A x \in ran : x[1] # id'[c]
  <2>1. ran \subseteq Nat \X QueryOptions BY DEF RestTyped, StoreTyped
  <2>2. \A x \in ran : x[1] \in Nat /\ x[1] <= calls BY <1>0, <2>1 DEF CallsInv
  <2> QED BY <1>1, <1>6, <2>2
<1>10. CallsInv'
  <2>1. \A d \in Clients : id'[d] <= calls' /\ (pc'[d] = "idle" <=> id'[d] = 0)
    BY <1>0, <1>1, <1>6, <1>7, <1>8 DEF CallsInv
  <2>2. \A d, e \in Clients : id'[d] = id'[e] /\ id'[d] # 0 => d = e
    <3> SUFFICES ASSUME NEW d \in Clients, NEW e \in Clients, id'[d] = id'[e], id'[d] # 0 PROVE d = e
      OBVIOUS
    <3>1. CASE d = c BY <1>1, <1>6, <1>7, <1>8, <3>1
    <3>2. CASE e = c BY <1>1, <1>6, <1>7, <1>8, <3>2
    <3>3. CASE d # c /\ e # c BY <1>0, <1>7, <3>3 DEF CallsInv
    <3> QED BY <3>1, <3>2, <3>3
  <2>3. ASSUME NEW x \in ran
        PROVE  0 < x[1] /\ x[1] <= calls' /\ \A d \in Clients : id'[d] = x[1] => pc'[d] # "options"
    <3>1. /\ 0 < x[1] /\ x[1] <= calls /\ x[1] \in Nat
          /\ \A d \in Clients : id[d] = x[1] => pc[d] # "options"
      BY <1>0 DEF CallsInv, RestTyped, StoreTyped
    <3> QED BY <1>1, <1>7, <1>9, <3>1
  <2>4. \A d \in Clients : pc'[d] # "idle" => req'[d] \in Asked BY <1>0, <1>2, <1>6, <1>7 DEF CallsInv
  <2>5. ASSUME NEW q \in wire
        PROVE  /\ 0 < q.id /\ q.id <= calls'
               /\ id'[q.client] = q.id =>
                     pc'[q.client] # "options" /\ q.req = [req'[q.client] EXCEPT !.opt = query'[q.client]]
    <3>1. q.client \in Clients /\ q.id \in Nat BY DEF RestTyped, StoreTyped
    <3>2. /\ 0 < q.id /\ q.id <= calls
          /\ id[q.client] = q.id =>
                pc[q.client] # "options" /\ q.req = [req[q.client] EXCEPT !.opt = query[q.client]]
      BY <1>0 DEF CallsInv
    <3>3. q.client = c => id'[q.client] # q.id BY <1>1, <1>6, <3>1, <3>2
    <3> QED BY <1>1, <1>7, <3>1, <3>2, <3>3
  <2> QED BY <1>1, <2>1, <2>2, <2>3, <2>4, <2>5 DEF CallsInv
<1>11. OptionsInv' BY <1>0, <1>1, <1>6, <1>7 DEF OptionsInv, OnTheWay
<1>12. ResponsesInv'
  <2> SUFFICES ASSUME NEW d \in Clients
               PROVE  /\ pc'[d] \in {"idle", "options"} => resp[d].status = 0
                      /\ resp[d].status \in PossibleStatuses(req'[d].op)
                      /\ resp[d].status = OkStatus(req'[d].op) =>
                            <<id'[d], query'[d]>> \in ran /\ (query'[d] = req'[d].opt \/ spare)
    BY <1>1 DEF ResponsesInv
  <2>1. CASE d # c
    <3>1. /\ pc[d] \in {"idle", "options"} => resp[d].status = 0
          /\ resp[d].status \in PossibleStatuses(req[d].op)
          /\ resp[d].status = OkStatus(req[d].op) =>
                <<id[d], query[d]>> \in ran /\ (query[d] = req[d].opt \/ spare)
      BY <1>0 DEF ResponsesInv
    <3> QED BY <1>7, <2>1, <3>1
  <2>2. CASE d = c
    <3>1. resp[c].status = 0 BY <1>0, <1>1 DEF ResponsesInv
    <3>2. 0 \in PossibleStatuses(req'[c].op) BY DEF PossibleStatuses
    <3>3. OkStatus(req'[c].op) # 0 BY OkStatuses
    <3>4. resp[d].status \in PossibleStatuses(req'[d].op) BY <2>2, <3>1, <3>2
    <3>5. resp[d].status = 0 /\ resp[d].status # OkStatus(req'[d].op) BY <2>2, <3>1, <3>3
    <3> QED BY <3>4, <3>5
  <2> QED BY <2>1, <2>2
<1>13. HeardInv'
  <2> SUFFICES ASSUME NEW d \in Clients, CarriedOut(d)', id'[d] \notin unheard,
                      ~(UseLabels /\ query'[d] = "clash")
               PROVE  /\ pc'[d] \in {"answered", "done"}
                      /\ resp[d].status = OkStatus(req'[d].op) /\ resp[d].err = NoErr
    BY <1>1 DEF HeardInv
  <2>1. d # c BY <1>1, <1>9 DEF CarriedOut
  <2>2. CarriedOut(d) BY <1>1, <1>7, <2>1 DEF CarriedOut
  <2>3. /\ pc[d] \in {"answered", "done"}
        /\ resp[d].status = OkStatus(req[d].op) /\ resp[d].err = NoErr
    BY <1>0, <1>7, <2>1, <2>2 DEF HeardInv
  <2> QED BY <1>7, <2>1, <2>3
<1> QED BY <1>5, <1>10, <1>11, <1>12, <1>13 DEF AnswersInv

LEMMA ReturnStep ==
    ASSUME RestTyped, AnswersInv, NEW c \in Clients, Return(c)
    PROVE  RestTyped' /\ AnswersInv'
<1>0. CallsInv /\ OptionsInv /\ ResponsesInv /\ HeardInv BY DEF AnswersInv
<1>1. /\ pc[c] = "done" /\ pc' = [pc EXCEPT ![c] = "idle"]
      /\ tries' = [tries EXCEPT ![c] = 0] /\ cancelled' = [cancelled EXCEPT ![c] = FALSE]
      /\ resp' = [resp EXCEPT ![c] = NoResponse] /\ query' = [query EXCEPT ![c] = "none"]
      /\ req' = [req EXCEPT ![c] = NoRequest] /\ id' = [id EXCEPT ![c] = 0]
      /\ ran' = {x \in ran : x[1] # id[c]} /\ unheard' = unheard \ {id[c]}
      /\ UNCHANGED <<spare, slot, calls, wire>>
  BY DEF Return, Goto
<1>2. RestTyped'
  <2>1. NoResponse \in [status : Statuses, err : Errors]
    BY DEF NoResponse, Statuses, Errors, Err, ErrorKinds
  <2>2. resp' \in [Clients -> [status : Statuses, err : Errors]] BY <1>1, <2>1 DEF RestTyped, ClientTyped
  <2>3. pc' \in [Clients -> OnTheWay \cup {"idle", "done", "panicked"}] BY <1>1 DEF RestTyped, ClientTyped
  <2>4. query' \in [Clients -> QueryOptions] BY <1>1 DEF RestTyped, ClientTyped, QueryOptions
  <2>5. tries' \in [Clients -> Nat] /\ cancelled' \in [Clients -> BOOLEAN] BY <1>1 DEF RestTyped, ClientTyped
  <2>6. ClientTyped' BY <1>1, <2>2, <2>3, <2>4, <2>5 DEF RestTyped, ClientTyped
  <2>7. StoreTyped' BY <1>1 DEF RestTyped, StoreTyped
  <2> QED BY <2>6, <2>7 DEF RestTyped
<1>3. id'[c] = 0 /\ pc'[c] = "idle" /\ resp'[c].status = 0 /\ id[c] # 0
  <2>1. resp'[c] = NoResponse BY <1>1 DEF RestTyped, ClientTyped
  <2>2. id'[c] = 0 /\ pc'[c] = "idle" BY <1>1 DEF RestTyped, ClientTyped, StoreTyped
  <2>3. id[c] # 0 BY <1>0, <1>1 DEF CallsInv
  <2> QED BY <2>1, <2>2, <2>3 DEF NoResponse
<1>4. ASSUME NEW d \in Clients \ {c}
      PROVE  /\ id'[d] = id[d] /\ req'[d] = req[d] /\ pc'[d] = pc[d] /\ query'[d] = query[d]
             /\ resp'[d] = resp[d] /\ id[d] # id[c]
  <2>1. id'[d] = id[d] /\ req'[d] = req[d] BY <1>1 DEF RestTyped, StoreTyped
  <2>2. pc'[d] = pc[d] /\ query'[d] = query[d] /\ resp'[d] = resp[d] BY <1>1 DEF RestTyped, ClientTyped
  <2>3. id[d] # id[c] BY <1>0, <1>3 DEF CallsInv
  <2> QED BY <2>1, <2>2, <2>3
<1>5. \A x \in ran : 0 < x[1] /\ x[1] \in Nat BY <1>0 DEF CallsInv, RestTyped, StoreTyped
<1>6. CallsInv'
  <2>1. \A d \in Clients : id'[d] <= calls' /\ (pc'[d] = "idle" <=> id'[d] = 0)
    <3>1. calls \in Nat BY DEF RestTyped, StoreTyped
    <3> QED BY <1>0, <1>1, <1>3, <1>4, <3>1 DEF CallsInv
  <2>2. \A d, e \in Clients : id'[d] = id'[e] /\ id'[d] # 0 => d = e BY <1>0, <1>3, <1>4 DEF CallsInv
  <2>3. ASSUME NEW x \in ran'
        PROVE  0 < x[1] /\ x[1] <= calls' /\ \A d \in Clients : id'[d] = x[1] => pc'[d] # "options"
    <3>1. x \in ran BY <1>1
    <3> QED BY <1>0, <1>1, <1>3, <1>4, <1>5, <3>1 DEF CallsInv
  <2>4. \A d \in Clients : pc'[d] # "idle" => req'[d] \in Asked BY <1>0, <1>3, <1>4 DEF CallsInv
  <2>5. ASSUME NEW q \in wire
        PROVE  /\ 0 < q.id /\ q.id <= calls'
               /\ id'[q.client] = q.id =>
                     pc'[q.client] # "options" /\ q.req = [req'[q.client] EXCEPT !.opt = query'[q.client]]
    <3>1. q.client \in Clients /\ q.id \in Nat BY DEF RestTyped, StoreTyped
    <3>2. /\ 0 < q.id /\ q.id <= calls
          /\ id[q.client] = q.id =>
                pc[q.client] # "options" /\ q.req = [req[q.client] EXCEPT !.opt = query[q.client]]
      BY <1>0 DEF CallsInv
    <3>3. q.client = c => id'[q.client] # q.id BY <1>3, <3>1, <3>2
    <3> QED BY <1>1, <1>4, <3>1, <3>2, <3>3
  <2> QED BY <1>1, <2>1, <2>2, <2>3, <2>4, <2>5 DEF CallsInv
<1>7. OptionsInv' BY <1>0, <1>1, <1>3, <1>4 DEF OptionsInv, OnTheWay
<1>8. ResponsesInv'
  <2> SUFFICES ASSUME NEW d \in Clients
               PROVE  /\ pc'[d] \in {"idle", "options"} => resp'[d].status = 0
                      /\ resp'[d].status \in PossibleStatuses(req'[d].op)
                      /\ resp'[d].status = OkStatus(req'[d].op) =>
                            <<id'[d], query'[d]>> \in ran' /\ (query'[d] = req'[d].opt \/ spare)
    BY <1>1 DEF ResponsesInv
  <2>1. CASE d # c
    <3>1. /\ pc[d] \in {"idle", "options"} => resp[d].status = 0
          /\ resp[d].status \in PossibleStatuses(req[d].op)
          /\ resp[d].status = OkStatus(req[d].op) =>
                <<id[d], query[d]>> \in ran /\ (query[d] = req[d].opt \/ spare)
      BY <1>0 DEF ResponsesInv
    <3>2. <<id[d], query[d]>> \in ran => <<id[d], query[d]>> \in ran' BY <1>1, <1>4, <2>1
    <3> QED BY <1>4, <2>1, <3>1, <3>2
  <2>2. CASE d = c
    <3>1. 0 \in PossibleStatuses(req'[c].op) BY DEF PossibleStatuses
    <3>2. OkStatus(req'[c].op) # 0 BY OkStatuses
    <3>3. resp'[d].status \in PossibleStatuses(req'[d].op) BY <1>3, <2>2, <3>1
    <3>4. resp'[d].status = 0 /\ resp'[d].status # OkStatus(req'[d].op) BY <1>3, <2>2, <3>2
    <3> QED BY <3>3, <3>4
  <2> QED BY <2>1, <2>2
<1>9. HeardInv'
  <2> SUFFICES ASSUME NEW d \in Clients, CarriedOut(d)', id'[d] \notin unheard',
                      ~(UseLabels /\ query'[d] = "clash")
               PROVE  /\ pc'[d] \in {"answered", "done"}
                      /\ resp'[d].status = OkStatus(req'[d].op) /\ resp'[d].err = NoErr
    BY DEF HeardInv
  <2>1. PICK x \in ran' : x[1] = id'[d] BY DEF CarriedOut
  <2>2. x \in ran BY <1>1
  <2>3. d # c BY <1>3, <1>5, <2>1, <2>2
  <2>4. CarriedOut(d) /\ id[d] \notin unheard BY <1>1, <1>4, <2>1, <2>2, <2>3 DEF CarriedOut
  <2>5. /\ pc[d] \in {"answered", "done"}
        /\ resp[d].status = OkStatus(req[d].op) /\ resp[d].err = NoErr
    BY <1>0, <1>4, <2>3, <2>4 DEF HeardInv
  <2> QED BY <1>4, <2>3, <2>5
<1> QED BY <1>2, <1>6, <1>7, <1>8, <1>9 DEF AnswersInv

LEMMA SendStep ==
    ASSUME RestTyped, AnswersInv, NEW c \in Clients, SendAttempt(c)
    PROVE  RestTyped' /\ AnswersInv'
<1>0. CallsInv /\ OptionsInv /\ ResponsesInv /\ HeardInv BY DEF AnswersInv
<1> DEFINE new == [client |-> c, id |-> id[c], try |-> tries[c], req |-> [req[c] EXCEPT !.opt = query[c]]]
<1>1. /\ pc[c] = "limit" /\ pc' = [pc EXCEPT ![c] = "sent"]
      /\ wire' = wire \cup {new}
      /\ UNCHANGED <<query, tries, resp, cancelled, spare, slot, calls, id, req, ran, unheard>>
  BY DEF SendAttempt, Send, Goto
<1>2. req[c] \in Asked BY <1>0, <1>1 DEF CallsInv
<1>3. [req[c] EXCEPT !.opt = query[c]] \in Asked
  <2>1. query[c] \in QueryOptions BY DEF RestTyped, ClientTyped
  <2> QED BY <1>2, <2>1 DEF Asked, QueryOptions
<1>4. RestTyped'
  <2>1. pc' \in [Clients -> OnTheWay \cup {"idle", "done", "panicked"}]
    BY <1>1 DEF RestTyped, ClientTyped, OnTheWay
  <2>2. new \in [client : Clients, id : Nat, try : Nat, req : Asked]
    BY <1>3 DEF RestTyped, ClientTyped, StoreTyped
  <2>3. ClientTyped' BY <1>1, <2>1 DEF RestTyped, ClientTyped
  <2>4. StoreTyped' BY <1>1, <2>2 DEF RestTyped, StoreTyped
  <2> QED BY <2>3, <2>4 DEF RestTyped
<1>5. pc'[c] = "sent" /\ \A d \in Clients \ {c} : pc'[d] = pc[d] BY <1>1 DEF RestTyped, ClientTyped
<1>6. CallsInv'
  <2>1. \A d \in Clients : id[d] <= calls /\ (pc'[d] = "idle" <=> id[d] = 0) BY <1>0, <1>1, <1>5 DEF CallsInv
  <2>2. \A x \in ran : /\ 0 < x[1] /\ x[1] <= calls
                       /\ \A d \in Clients : id[d] = x[1] => pc'[d] # "options"
    BY <1>0, <1>5 DEF CallsInv
  <2>3. \A d \in Clients : pc'[d] # "idle" => req[d] \in Asked BY <1>0, <1>2, <1>5 DEF CallsInv
  <2>4. ASSUME NEW q \in wire'
        PROVE  /\ 0 < q.id /\ q.id <= calls
               /\ id[q.client] = q.id =>
                     pc'[q.client] # "options" /\ q.req = [req[q.client] EXCEPT !.opt = query[q.client]]
    <3>1. CASE q = new
      <4>1. id[c] # 0 /\ id[c] <= calls BY <1>0, <1>1 DEF CallsInv
      <4>2. id[c] \in Nat BY DEF RestTyped, StoreTyped
      <4>3. q.id = id[c] /\ q.client = c /\ q.req = [req[c] EXCEPT !.opt = query[c]] BY <3>1
      <4> QED BY <1>5, <4>1, <4>2, <4>3
    <3>2. CASE q \in wire
      <4>1. q.client \in Clients BY <3>2 DEF RestTyped, StoreTyped
      <4>2. /\ 0 < q.id /\ q.id <= calls
            /\ id[q.client] = q.id =>
                  pc[q.client] # "options" /\ q.req = [req[q.client] EXCEPT !.opt = query[q.client]]
        BY <1>0, <3>2 DEF CallsInv
      <4> QED BY <1>5, <4>1, <4>2
    <3> QED BY <1>1, <3>1, <3>2
  <2>5. \A d, e \in Clients : id[d] = id[e] /\ id[d] # 0 => d = e BY <1>0 DEF CallsInv
  <2> QED BY <1>1, <2>1, <2>2, <2>3, <2>4, <2>5 DEF CallsInv
<1>7. OptionsInv' BY <1>0, <1>1, <1>5 DEF OptionsInv, OnTheWay
<1>8. ResponsesInv'
  <2> SUFFICES ASSUME NEW d \in Clients
               PROVE  /\ pc'[d] \in {"idle", "options"} => resp[d].status = 0
                      /\ resp[d].status \in PossibleStatuses(req[d].op)
                      /\ resp[d].status = OkStatus(req[d].op) =>
                            <<id[d], query[d]>> \in ran /\ (query[d] = req[d].opt \/ spare)
    BY <1>1 DEF ResponsesInv
  <2>1. /\ pc[d] \in {"idle", "options"} => resp[d].status = 0
        /\ resp[d].status \in PossibleStatuses(req[d].op)
        /\ resp[d].status = OkStatus(req[d].op) =>
              <<id[d], query[d]>> \in ran /\ (query[d] = req[d].opt \/ spare)
    BY <1>0 DEF ResponsesInv
  <2> QED BY <1>5, <2>1
<1>9. HeardInv'
  <2> SUFFICES ASSUME NEW d \in Clients, CarriedOut(d), id[d] \notin unheard,
                      ~(UseLabels /\ query[d] = "clash")
               PROVE  /\ pc'[d] \in {"answered", "done"}
                      /\ resp[d].status = OkStatus(req[d].op) /\ resp[d].err = NoErr
    BY <1>1 DEF HeardInv, CarriedOut
  <2>1. /\ pc[d] \in {"answered", "done"}
        /\ resp[d].status = OkStatus(req[d].op) /\ resp[d].err = NoErr
    BY <1>0 DEF HeardInv
  <2>2. d # c BY <1>1, <2>1
  <2> QED BY <1>5, <2>1, <2>2
<1> QED BY <1>4, <1>6, <1>7, <1>8, <1>9 DEF AnswersInv

-----------------------------------------------------------------------------
(* The other steps of a client.                                             *)

\* The actions of HttpClient, which all leave the servers alone.
ClientAction(c) ==
    \/ ApplyOptions(c) \/ Attempt(c) \/ TakeBreaker(c) \/ Limited(c)
    \/ TransportFails(c) \/ Judge(c) \/ Cancel(c)

LEMMA ClientActionStep ==
    ASSUME RestTyped, AnswersInv, NEW c \in Clients, ClientAction(c), UNCHANGED storeVars
    PROVE  RestTyped' /\ AnswersInv'
<1>0. OptionsInv /\ ResponsesInv BY DEF AnswersInv
<1> DEFINE PCs == OnTheWay \cup {"idle", "done", "panicked"}
           Datas == [status : Statuses, err : Errors]
<1>a. /\ pc \in [Clients -> PCs] /\ query \in [Clients -> QueryOptions] /\ slot \in QueryOptions
      /\ tries \in [Clients -> Nat] /\ resp \in [Clients -> Datas] /\ cancelled \in [Clients -> BOOLEAN]
  BY DEF RestTyped, ClientTyped
<1>b. StoreTyped' BY DEF RestTyped, StoreTyped, storeVars
<1>c. req' = req /\ spare' = spare
  BY DEF storeVars, ClientAction, ApplyOptions, Attempt, TakeBreaker, Limited, TransportFails, Judge, Cancel, Answered
<1>1. ASSUME ApplyOptions(c) PROVE RestTyped' /\ AnswersInv'
  <2>1. /\ pc[c] = "options" /\ pc' = [pc EXCEPT ![c] = "attempt"]
        /\ query' = [query EXCEPT ![c] = IF spare THEN slot ELSE query[c]]
        /\ UNCHANGED <<tries, resp, cancelled, slot>>
    BY <1>1, <1>a DEF ApplyOptions, Goto
  <2>2. pc' \in [Clients -> PCs] /\ query' \in [Clients -> QueryOptions] BY <1>a, <2>1 DEF OnTheWay
  <2>3. RestTyped' BY <1>a, <1>b, <2>1, <2>2 DEF RestTyped, ClientTyped
  <2>4. pc'[c] = "attempt" /\ query'[c] = IF spare THEN slot ELSE query[c] BY <1>a, <2>1
  <2>5. query[c] = req[c].opt \/ spare BY <1>0, <2>1 DEF OptionsInv, OnTheWay
  <2>6. query'[c] = req[c].opt \/ spare BY <2>4, <2>5
  <2>7. \A d \in Clients \ {c} : pc'[d] = pc[d] /\ query'[d] = query[d] /\ resp'[d] = resp[d] BY <1>a, <2>1
  <2> QED BY <1>c, <2>1, <2>3, <2>4, <2>6, <2>7, ClientStep
<1>2. ASSUME Attempt(c) PROVE RestTyped' /\ AnswersInv'
  <2>1. pc[c] = "attempt" /\ UNCHANGED <<query, cancelled, slot>> BY <1>2 DEF Attempt
  <2>2. CASE cancelled[c]
    <3>1. /\ pc' = [pc EXCEPT ![c] = IF tries[c] = 0 THEN "panicked" ELSE "done"]
          /\ resp' = [resp EXCEPT ![c] = [resp[c] EXCEPT !.err = ErrorOf(resp[c])]]
          /\ tries' = tries
      BY <1>2, <1>a, <2>2 DEF Attempt, Goto
    <3>2. resp[c] \in Datas BY <1>a
    <3>3. ErrorOf(resp[c]) \in Errors BY <3>2, ErrorOfIsError
    <3>4. [resp[c] EXCEPT !.err = ErrorOf(resp[c])] \in Datas BY <3>2, <3>3
    <3>5. pc' \in [Clients -> PCs] /\ resp' \in [Clients -> Datas] BY <1>a, <3>1, <3>4
    <3>6. RestTyped' BY <1>a, <1>b, <2>1, <3>1, <3>5 DEF RestTyped, ClientTyped
    <3>7. pc'[c] \in {"panicked", "done"} /\ resp'[c] = [resp[c] EXCEPT !.err = ErrorOf(resp[c])]
      BY <1>a, <3>1
    <3>8. resp'[c].status = resp[c].status BY <3>2, <3>7
    <3>9. pc'[c] \notin OnTheWay BY <3>7 DEF OnTheWay
    <3>10. \A d \in Clients \ {c} : pc'[d] = pc[d] /\ query'[d] = query[d] /\ resp'[d] = resp[d]
      BY <1>a, <2>1, <3>1
    <3> QED BY <1>c, <2>1, <3>6, <3>7, <3>8, <3>9, <3>10, ClientStep
  <2>3. CASE ~cancelled[c]
    <3>1. /\ pc' = [pc EXCEPT ![c] = "breaker"] /\ tries' = [tries EXCEPT ![c] = tries[c] + 1]
          /\ resp' = resp
      BY <1>2, <1>a, <2>3 DEF Attempt, Goto
    <3>2. pc' \in [Clients -> PCs] /\ tries' \in [Clients -> Nat] BY <1>a, <3>1 DEF OnTheWay
    <3>3. RestTyped' BY <1>a, <1>b, <2>1, <3>1, <3>2 DEF RestTyped, ClientTyped
    <3>4. pc'[c] = "breaker" BY <1>a, <3>1
    <3>5. query[c] = req[c].opt \/ spare BY <1>0, <2>1 DEF OptionsInv, OnTheWay
    <3>6. \A d \in Clients \ {c} : pc'[d] = pc[d] /\ query'[d] = query[d] /\ resp'[d] = resp[d]
      BY <1>a, <2>1, <3>1
    <3> QED BY <1>c, <2>1, <3>1, <3>3, <3>4, <3>5, <3>6, ClientStep
  <2> QED BY <2>2, <2>3
<1>3. ASSUME TakeBreaker(c) PROVE RestTyped' /\ AnswersInv'
  <2>1. /\ pc[c] = "breaker" /\ UNCHANGED <<query, tries, resp, cancelled, slot>>
        /\ pc' = [pc EXCEPT ![c] = IF failures[pool] >= Trip THEN "panicked" ELSE "limit"]
    BY <1>3 DEF TakeBreaker, Goto
  <2>2. pc' \in [Clients -> PCs] BY <1>a, <2>1 DEF OnTheWay
  <2>3. RestTyped' BY <1>a, <1>b, <2>1, <2>2 DEF RestTyped, ClientTyped
  <2>4. pc'[c] \in {"panicked", "limit"} BY <1>a, <2>1
  <2>5. query[c] = req[c].opt \/ spare BY <1>0, <2>1 DEF OptionsInv, OnTheWay
  <2>6. \A d \in Clients \ {c} : pc'[d] = pc[d] /\ query'[d] = query[d] /\ resp'[d] = resp[d] BY <1>a, <2>1
  <2> QED BY <1>c, <2>1, <2>3, <2>4, <2>5, <2>6, ClientStep
<1>4. ASSUME NEW r \in Datas, r.status = 0, pc[c] \in {"limit", "sent"},
             pc' = [pc EXCEPT ![c] = "answered"], resp' = [resp EXCEPT ![c] = r],
             UNCHANGED <<query, tries, cancelled, slot>>
      PROVE  RestTyped' /\ AnswersInv'
  <2>1. pc' \in [Clients -> PCs] /\ resp' \in [Clients -> Datas] BY <1>4, <1>a DEF OnTheWay
  <2>2. RestTyped' BY <1>a, <1>b, <1>4, <2>1 DEF RestTyped, ClientTyped
  <2>3. pc'[c] = "answered" /\ resp'[c].status = 0 BY <1>4, <1>a
  <2>4. query[c] = req[c].opt \/ spare BY <1>0, <1>4 DEF OptionsInv, OnTheWay
  <2>5. \A d \in Clients \ {c} : pc'[d] = pc[d] /\ query'[d] = query[d] /\ resp'[d] = resp[d] BY <1>4, <1>a
  <2> QED BY <1>c, <1>4, <2>2, <2>3, <2>4, <2>5, ClientStep
<1>d. \A kind \in {"canceled", "disconnect", "permanent"} :
        [NoResponse EXCEPT !.err = Err(kind)] \in Datas /\ [NoResponse EXCEPT !.err = Err(kind)].status = 0
  BY DEF NoResponse, Err, Statuses, Errors, ErrorKinds, ContextEnded, Transient
<1>5. ASSUME Limited(c) PROVE RestTyped' /\ AnswersInv'
  BY <1>4, <1>5, <1>d DEF Limited, Goto
<1>6. ASSUME TransportFails(c) PROVE RestTyped' /\ AnswersInv'
  <2>1. PICK kind \in {"canceled", "disconnect", "permanent"} :
          Answered(c, [NoResponse EXCEPT !.err = Err(kind)])
    BY <1>6 DEF TransportFails
  <2> QED BY <1>4, <1>6, <1>d, <2>1 DEF TransportFails, Answered, Goto
<1>7. ASSUME Judge(c) PROVE RestTyped' /\ AnswersInv'
  <2> DEFINE e == ErrorOf(resp[c])
  <2>1. pc[c] = "answered" /\ UNCHANGED <<query, tries, cancelled, slot>> BY <1>7 DEF Judge
  <2>2. query[c] = req[c].opt \/ spare BY <1>0, <2>1 DEF OptionsInv, OnTheWay
  <2>3. resp[c] \in Datas BY <1>a
  <2>4. e \in Errors BY <2>3, ErrorOfIsError
  <2>5. OkStatus(req[c].op) \in {200, 201, 204} BY OkStatuses
  <2>6. resp[c].status = OkStatus(req[c].op) /\ resp[c].err = NoErr => e = NoErr
    BY <2>3, <2>5, NoErrorMeans
  <2>7. CASE IsRetryableError(e) /\ ~Exhausted(c)
    <3>1. pc' = [pc EXCEPT ![c] = "attempt"] /\ resp' = resp BY <1>7, <2>7 DEF Judge, Goto
    <3>2. pc' \in [Clients -> PCs] BY <1>a, <3>1 DEF OnTheWay
    <3>3. RestTyped' BY <1>a, <1>b, <2>1, <3>1, <3>2 DEF RestTyped, ClientTyped
    <3>4. pc'[c] = "attempt" BY <1>a, <3>1
    <3>5. ~(resp[c].status = OkStatus(req[c].op) /\ resp[c].err = NoErr) BY <2>6, <2>7, SuccessIsFinal
    <3>6. \A d \in Clients \ {c} : pc'[d] = pc[d] /\ query'[d] = query[d] /\ resp'[d] = resp[d]
      BY <1>a, <2>1, <3>1
    <3> QED BY <1>c, <2>1, <2>2, <3>1, <3>3, <3>4, <3>5, <3>6, ClientStep
  <2>8. CASE ~(IsRetryableError(e) /\ ~Exhausted(c))
    <3>1. pc' = [pc EXCEPT ![c] = "done"] /\ resp' = [resp EXCEPT ![c] = [resp[c] EXCEPT !.err = e]]
      BY <1>7, <1>a, <2>8 DEF Judge, Goto
    <3>2. [resp[c] EXCEPT !.err = e] \in Datas BY <2>3, <2>4
    <3>3. pc' \in [Clients -> PCs] /\ resp' \in [Clients -> Datas] BY <1>a, <3>1, <3>2
    <3>4. RestTyped' BY <1>a, <1>b, <2>1, <3>1, <3>3 DEF RestTyped, ClientTyped
    <3>5. pc'[c] = "done" /\ resp'[c] = [resp[c] EXCEPT !.err = e] BY <1>a, <3>1
    <3>6. resp'[c].status = resp[c].status /\ resp'[c].err = e BY <2>3, <3>5
    <3>7. pc'[c] \notin OnTheWay BY <3>5 DEF OnTheWay
    <3>8. \A d \in Clients \ {c} : pc'[d] = pc[d] /\ query'[d] = query[d] /\ resp'[d] = resp[d]
      BY <1>a, <2>1, <3>1
    <3> QED BY <1>c, <2>1, <2>6, <3>4, <3>5, <3>6, <3>7, <3>8, ClientStep
  <2> QED BY <2>7, <2>8
<1>8. ASSUME Cancel(c) PROVE RestTyped' /\ AnswersInv'
  <2>1. /\ pc[c] \notin {"idle", "done", "panicked"} /\ cancelled' = [cancelled EXCEPT ![c] = TRUE]
        /\ UNCHANGED <<pc, query, tries, resp, slot>>
    BY <1>8 DEF Cancel
  <2>2. RestTyped' BY <1>a, <1>b, <2>1 DEF RestTyped, ClientTyped
  <2>3. AnswersInv'
    BY <1>c, <2>1 DEF AnswersInv, CallsInv, OptionsInv, ResponsesInv, HeardInv, CarriedOut, storeVars
  <2> QED BY <2>2, <2>3
<1> QED BY <1>1, <1>2, <1>3, <1>5, <1>6, <1>7, <1>8 DEF ClientAction

-----------------------------------------------------------------------------
(* The steps of the servers.                                                *)

LEMMA AnswersTyped ==
    ASSUME RestTyped, AnswersInv, NEW q \in wire, NEW how \in Deliveries(q), NEW status, NEW did,
           Served(q, how, status, did)
    PROVE  RestTyped'
<1> DEFINE Datas == [status : Statuses, err : Errors]
           r == [status |-> status, err |-> IF how = "cut" THEN Err("disconnect") ELSE NoErr]
<1>1. /\ UNCHANGED <<calls, id, req, query, tries, cancelled, slot>>
      /\ wire' = wire \ {q} /\ q.client \in Clients /\ q.req \in Asked /\ q.id \in Nat
      /\ how = "lost" => pc' = pc /\ resp' = resp
      /\ how # "lost" => /\ pc' = [pc EXCEPT ![q.client] = "answered"]
                         /\ resp' = [resp EXCEPT ![q.client] = r]
  BY AnswerEffect
<1>2. status \in Statuses
  <2>1. OkStatus(q.req.op) \in {200, 201, 204} BY OkStatuses
  <2> QED BY <2>1 DEF Served, PossibleStatuses, Statuses
<1>3. r \in Datas
  <2>1. Err("disconnect") \in Errors /\ NoErr \in Errors
    BY DEF Err, NoErr, Errors, ErrorKinds, Transient
  <2> QED BY <1>2, <2>1
<1>4. pc' \in [Clients -> OnTheWay \cup {"idle", "done", "panicked"}] /\ resp' \in [Clients -> Datas]
  <2>1. pc \in [Clients -> OnTheWay \cup {"idle", "done", "panicked"}] /\ resp \in [Clients -> Datas]
    BY DEF RestTyped, ClientTyped
  <2>2. CASE how = "lost" BY <1>1, <2>1, <2>2
  <2>3. CASE how # "lost"
    <3>1. pc' \in [Clients -> OnTheWay \cup {"idle", "done", "panicked"}] BY <1>1, <2>1, <2>3 DEF OnTheWay
    <3>2. resp' \in [Clients -> Datas] BY <1>1, <1>3, <2>1, <2>3
    <3> QED BY <3>1, <3>2
  <2> QED BY <2>2, <2>3
<1>5. ran' \subseteq Nat \X QueryOptions
  <2>1. <<q.id, q.req.opt>> \in Nat \X QueryOptions BY <1>1 DEF Asked, QueryOptions
  <2> QED BY <2>1 DEF Served, RestTyped, StoreTyped
<1>6. ClientTyped' BY <1>1, <1>4 DEF RestTyped, ClientTyped
<1>7. StoreTyped' BY <1>1, <1>5 DEF RestTyped, StoreTyped
<1> QED BY <1>6, <1>7 DEF RestTyped

\* A request that is turned down before it reaches the store (GetOptions,
\* unmarshalling).
LEMMA RejectAnswers ==
    ASSUME NEW q \in wire, Reject(q)
    PROVE  \E how \in Deliveries(q) : \E status, did : Served(q, how, status, did)
<1>1. PICK how \in Deliveries(q) : Respond(q, 400, how) BY DEF Reject
<1>2. ran' = ran /\ unheard' = unheard BY DEF Reject
<1>3. OkStatus(q.req.op) # 400 BY OkStatuses
<1>4. 400 \in PossibleStatuses(q.req.op) \ {0} BY DEF PossibleStatuses
<1>5. Served(q, how, 400, FALSE) BY <1>1, <1>2, <1>3, <1>4 DEF Served
<1> QED BY <1>5

\* A request that reaches the store.
LEMMA HandleAnswers ==
    ASSUME NEW q \in wire, NEW op, Handle(q, op)
    PROVE  \E how \in Deliveries(q) : \E status, did : Served(q, how, status, did)
<1>1. q.req.op = op BY DEF Handle
<1>2. PICK broken \in BOOLEAN, how \in Deliveries(q) :
        LET failed == broken \/ Refused(map, q.req)
            status == CASE Clash(q) -> 400
                        [] broken   -> 500
                        [] failed   -> NoStatus(op)
                        [] OTHER    -> OkStatus(op)
        IN  /\ ran' = IF failed \/ id[q.client] # q.id THEN ran ELSE ran \cup {<<q.id, q.req.opt>>}
            /\ unheard' = IF failed \/ how = "whole" \/ id[q.client] # q.id THEN unheard
                          ELSE unheard \cup {q.id}
            /\ Respond(q, status, how)
  BY DEF Handle
<1> DEFINE failed == broken \/ Refused(map, q.req)
           answered == CASE Clash(q) -> 400
                         [] broken   -> 500
                         [] failed   -> NoStatus(op)
                         [] OTHER    -> OkStatus(op)
<1>3. OkStatus(op) \in {200, 201, 204} /\ NoStatus(op) \in {404, 409} BY OkStatuses
<1> HIDE DEF failed
<1>4. PICK status : status = CASE Clash(q) -> 400
                               [] broken   -> 500
                               [] failed   -> NoStatus(op)
                               [] OTHER    -> OkStatus(op)
  OBVIOUS
<1>5. /\ ran' = IF failed \/ id[q.client] # q.id THEN ran ELSE ran \cup {<<q.id, q.req.opt>>}
      /\ unheard' = IF failed \/ how = "whole" \/ id[q.client] # q.id THEN unheard ELSE unheard \cup {q.id}
      /\ Respond(q, status, how)
  BY <1>2, <1>4 DEF failed
<1>6. broken => failed BY DEF failed
<1>7. /\ status \in {400, 500, NoStatus(op), OkStatus(op)}
      /\ status = OkStatus(op) => ~failed
      /\ ~failed /\ status # OkStatus(op) => Clash(q)
  <2>1. CASE Clash(q) BY <1>3, <1>4, <2>1
  <2>2. CASE ~Clash(q) /\ broken BY <1>3, <1>4, <1>6, <2>2
  <2>3. CASE ~Clash(q) /\ ~broken /\ failed BY <1>3, <1>4, <2>3
  <2>4. CASE ~Clash(q) /\ ~broken /\ ~failed BY <1>3, <1>4, <2>4
  <2> QED BY <2>1, <2>2, <2>3, <2>4
<1>8. status \in PossibleStatuses(q.req.op) \ {0} BY <1>1, <1>3, <1>7 DEF PossibleStatuses
<1>9. Served(q, how, status, ~failed)
  BY <1>1, <1>5, <1>7, <1>8 DEF Served, Clash
<1> QED BY <1>9

\* A request that is lost.
LEMMA LoseStep ==
    ASSUME RestTyped, AnswersInv, NEW q \in wire, Lose(q)
    PROVE  RestTyped' /\ AnswersInv'
<1>1. wire' = wire \ {q} /\ UNCHANGED <<clientVars, map, calls, id, req, ran, unheard>> BY DEF Lose
<1>2. RestTyped' BY <1>1 DEF RestTyped, ClientTyped, StoreTyped, clientVars
<1>3. AnswersInv'
  BY <1>1 DEF AnswersInv, CallsInv, OptionsInv, ResponsesInv, HeardInv, CarriedOut, clientVars
<1> QED BY <1>2, <1>3

-----------------------------------------------------------------------------
(* Panics.                                                                  *)

Unbroken == BreakersClosed /\ PanicsOnlyUnsent

\* A step after which no client has newly come to its breaker, and none has
\* panicked.
LEMMA NobodyPanics ==
    ASSUME Unbroken, failures' = failures, pool' = pool,
           \A c \in Clients :
              /\ pc'[c] \in {"breaker", "panicked"} => pc'[c] = pc[c]
              /\ pc[c] = "panicked" => cancelled'[c] = cancelled[c] /\ tries'[c] = tries[c]
    PROVE  Unbroken'
<1>1. BreakersClosed' BY DEF Unbroken, BreakersClosed
<1>2. PanicsOnlyUnsent' BY DEF Unbroken, PanicsOnlyUnsent
<1> QED BY <1>1, <1>2 DEF Unbroken

LEMMA ClientPanics ==
    ASSUME RestTyped, Unbroken, NEW c \in Clients, ClientAction(c)
    PROVE  Unbroken'
<1>a. /\ pc \in [Clients -> OnTheWay \cup {"idle", "done", "panicked"}]
      /\ tries \in [Clients -> Nat] /\ cancelled \in [Clients -> BOOLEAN]
  BY DEF RestTyped, ClientTyped
<1>1. ASSUME ApplyOptions(c) PROVE Unbroken'
  <2>1. pc' = [pc EXCEPT ![c] = "attempt"] /\ UNCHANGED <<tries, cancelled, pool, failures>>
    BY <1>1 DEF ApplyOptions, Goto
  <2> QED BY <1>a, <2>1, NobodyPanics
<1>2. ASSUME Attempt(c) PROVE Unbroken'
  <2>1. pc[c] = "attempt" /\ UNCHANGED <<cancelled, failures>> BY <1>2 DEF Attempt
  <2>2. CASE cancelled[c]
    <3>1. pc' = [pc EXCEPT ![c] = IF tries[c] = 0 THEN "panicked" ELSE "done"] /\ UNCHANGED <<tries, pool>>
      BY <1>2, <2>2 DEF Attempt, Goto
    <3>2. BreakersClosed' BY <1>a, <2>1, <3>1 DEF Unbroken, BreakersClosed
    <3>3. PanicsOnlyUnsent' BY <1>a, <2>1, <2>2, <3>1 DEF Unbroken, PanicsOnlyUnsent
    <3> QED BY <3>2, <3>3 DEF Unbroken
  <2>3. CASE ~cancelled[c]
    <3>1. /\ pc' = [pc EXCEPT ![c] = "breaker"] /\ pool' = HostOf(c)
          /\ tries' = [tries EXCEPT ![c] = tries[c] + 1]
      BY <1>2, <1>a, <2>3 DEF Attempt, Goto
    <3>2. BreakersClosed' BY <2>1, <3>1, HttpClientAssumption DEF Unbroken, BreakersClosed
    <3>3. PanicsOnlyUnsent' BY <1>a, <2>1, <3>1 DEF Unbroken, PanicsOnlyUnsent
    <3> QED BY <3>2, <3>3 DEF Unbroken
  <2> QED BY <2>2, <2>3
<1>3. ASSUME TakeBreaker(c) PROVE Unbroken'
  <2>1. /\ pc[c] = "breaker" /\ UNCHANGED <<tries, cancelled, pool, failures>>
        /\ pc' = [pc EXCEPT ![c] = IF failures[pool] >= Trip THEN "panicked" ELSE "limit"]
    BY <1>3 DEF TakeBreaker, Goto
  <2>2. failures[pool] = 0 BY <2>1 DEF Unbroken, BreakersClosed
  <2>3. ~(0 >= Trip) BY HttpClientAssumption
  <2>4. pc' = [pc EXCEPT ![c] = "limit"] BY <2>1, <2>2, <2>3
  <2> QED BY <1>a, <2>1, <2>4, NobodyPanics
<1>4. ASSUME pc' = [pc EXCEPT ![c] = "answered"], UNCHANGED <<tries, cancelled, pool, failures>>
      PROVE  Unbroken'
  BY <1>4, <1>a, NobodyPanics
<1>5. ASSUME Limited(c) PROVE Unbroken' BY <1>4, <1>5 DEF Limited, Goto
<1>6. ASSUME TransportFails(c) PROVE Unbroken' BY <1>4, <1>6 DEF TransportFails, Answered, Goto
<1>7. ASSUME Judge(c) PROVE Unbroken'
  <2>1. /\ failures' = [failures EXCEPT ![taken[c]] = 0] /\ UNCHANGED <<tries, cancelled, pool>>
        /\ pc' = [pc EXCEPT ![c] = "attempt"] \/ pc' = [pc EXCEPT ![c] = "done"]
    BY <1>7 DEF Judge, Counted, Goto
  <2>2. failures' = failures BY <2>1 DEF Unbroken, BreakersClosed
  <2> QED BY <1>a, <2>1, <2>2, NobodyPanics
<1>8. ASSUME Cancel(c) PROVE Unbroken'
  <2>1. /\ pc[c] # "panicked" /\ cancelled' = [cancelled EXCEPT ![c] = TRUE]
        /\ UNCHANGED <<pc, tries, pool, failures>>
    BY <1>8 DEF Cancel
  <2>2. \A d \in Clients : pc[d] = "panicked" => cancelled'[d] = cancelled[d] BY <1>a, <2>1
  <2> QED BY <2>1, <2>2, NobodyPanics
<1> QED BY <1>1, <1>2, <1>3, <1>5, <1>6, <1>7, <1>8 DEF ClientAction

\* A call that begins or ends, or a request that is sent.
LEMMA OthersPanic ==
    ASSUME RestTyped, Unbroken, NEW c \in Clients,
           (\E r \in Inputs(c) : Call(c, r)) \/ Return(c) \/ SendAttempt(c)
    PROVE  Unbroken'
<1>1. /\ pc \in [Clients -> OnTheWay \cup {"idle", "done", "panicked"}]
      /\ tries \in [Clients -> Nat] /\ cancelled \in [Clients -> BOOLEAN]
  BY DEF RestTyped, ClientTyped
<1>2. CASE \E r \in Inputs(c) : Call(c, r)
  <2>1. /\ UNCHANGED <<tries, cancelled, pool, failures>>
        /\ pc' = [pc EXCEPT ![c] = "options"] \/ pc' = [pc EXCEPT ![c] = "done"]
    BY <1>2 DEF Call, Goto
  <2> QED BY <1>1, <2>1, NobodyPanics
<1>3. CASE Return(c)
  <2>1. /\ pc[c] = "done" /\ pc' = [pc EXCEPT ![c] = "idle"] /\ UNCHANGED <<pool, failures>>
        /\ tries' = [tries EXCEPT ![c] = 0] /\ cancelled' = [cancelled EXCEPT ![c] = FALSE]
    BY <1>3 DEF Return, Goto
  <2> QED BY <1>1, <2>1, NobodyPanics
<1>4. CASE SendAttempt(c)
  <2>1. pc' = [pc EXCEPT ![c] = "sent"] /\ UNCHANGED <<tries, cancelled, pool, failures>>
    BY <1>4 DEF SendAttempt, Send, Goto
  <2> QED BY <1>1, <2>1, NobodyPanics
<1> QED BY <1>2, <1>3, <1>4

\* A request that is answered.
LEMMA ServersPanic ==
    ASSUME RestTyped, AnswersInv, Unbroken, NEW q \in wire, NEW how \in Deliveries(q), NEW status, NEW did,
           Served(q, how, status, did)
    PROVE  Unbroken'
<1>1. /\ UNCHANGED <<tries, cancelled, pool, failures>>
      /\ how = "lost" => pc' = pc
      /\ how # "lost" => pc' = [pc EXCEPT ![q.client] = "answered"]
  BY AnswerEffect
<1>2. pc \in [Clients -> OnTheWay \cup {"idle", "done", "panicked"}] BY DEF RestTyped, ClientTyped
<1>3. \A c \in Clients : pc'[c] \in {"breaker", "panicked"} => pc'[c] = pc[c] BY <1>1, <1>2
<1> QED BY <1>1, <1>3, NobodyPanics

-----------------------------------------------------------------------------
(* The invariant.                                                           *)

LEMMA RestInvInit == Init => RestTyped /\ AnswersInv /\ Unbroken
<1> SUFFICES ASSUME Init PROVE RestTyped /\ AnswersInv /\ Unbroken OBVIOUS
<1>0. \A c \in Clients : OkStatus(req[c].op) # 0 BY OkStatuses
<1> USE DEF Init, ClientInit
<1>1. ClientTyped
  <2>1. NoResponse \in [status : Statuses, err : Errors]
    BY DEF NoResponse, Statuses, Errors, Err, ErrorKinds
  <2>2. "none" \in QueryOptions BY DEF QueryOptions
  <2> QED BY <2>1, <2>2 DEF ClientTyped
<1>2. StoreTyped BY DEF StoreTyped
<1>3. CallsInv
  <2>1. calls = 0 /\ wire = {} /\ ran = {} /\ \A c \in Clients : id[c] = 0 /\ pc[c] = "idle" OBVIOUS
  <2> QED BY ONLY <2>1 DEF CallsInv
<1>4. OptionsInv BY DEF OptionsInv, OnTheWay
<1>5. ResponsesInv
  <2> SUFFICES ASSUME NEW c \in Clients
               PROVE  /\ pc[c] \in {"idle", "options"} => resp[c].status = 0
                      /\ resp[c].status \in PossibleStatuses(req[c].op)
                      /\ resp[c].status = OkStatus(req[c].op) =>
                            <<id[c], query[c]>> \in ran /\ (query[c] = req[c].opt \/ spare)
    BY DEF ResponsesInv
  <2>1. resp[c].status = 0 BY DEF NoResponse
  <2>2. 0 \in PossibleStatuses(req[c].op) BY DEF PossibleStatuses
  <2>3. resp[c].status \in PossibleStatuses(req[c].op) BY <2>1, <2>2
  <2>4. resp[c].status # OkStatus(req[c].op) BY <1>0, <2>1
  <2> QED BY <2>1, <2>3, <2>4
<1>6. HeardInv BY DEF HeardInv, CarriedOut
<1>7. Unbroken BY DEF Unbroken, BreakersClosed, PanicsOnlyUnsent
<1> QED BY <1>1, <1>2, <1>3, <1>4, <1>5, <1>6, <1>7 DEF RestTyped, AnswersInv

LEMMA RestInvNext == RestTyped /\ AnswersInv /\ Unbroken /\ [Next]_vars => RestTyped' /\ AnswersInv' /\ Unbroken'
<1> SUFFICES ASSUME RestTyped, AnswersInv, Unbroken, [Next]_vars
             PROVE  RestTyped' /\ AnswersInv' /\ Unbroken'
  OBVIOUS
<1>1. ASSUME NEW c \in Clients, NEW r \in Inputs(c), Call(c, r)
      PROVE  RestTyped' /\ AnswersInv' /\ Unbroken'
  BY <1>1, CallStep, OthersPanic
<1>2. ASSUME NEW c \in Clients, Return(c) PROVE RestTyped' /\ AnswersInv' /\ Unbroken'
  BY <1>2, ReturnStep, OthersPanic
<1>3. ASSUME NEW c \in Clients, SendAttempt(c) PROVE RestTyped' /\ AnswersInv' /\ Unbroken'
  BY <1>3, SendStep, OthersPanic
<1>4. ASSUME NEW c \in Clients, ClientAction(c), UNCHANGED storeVars
      PROVE  RestTyped' /\ AnswersInv' /\ Unbroken'
  BY <1>4, ClientActionStep, ClientPanics
<1>5. ASSUME NEW q \in wire, \E how \in Deliveries(q) : \E status, did : Served(q, how, status, did)
      PROVE  RestTyped' /\ AnswersInv' /\ Unbroken'
  BY <1>5, AnswersTyped, ServerStep, ServersPanic
<1>6. ASSUME NEW q \in wire, Reject(q) PROVE RestTyped' /\ AnswersInv' /\ Unbroken'
  BY <1>5, <1>6, RejectAnswers
<1>7. ASSUME NEW q \in wire, NEW op, Handle(q, op) PROVE RestTyped' /\ AnswersInv' /\ Unbroken'
  BY <1>5, <1>7, HandleAnswers
<1>8. ASSUME NEW q \in wire, Lose(q) PROVE RestTyped' /\ AnswersInv' /\ Unbroken'
  <2>1. RestTyped' /\ AnswersInv' BY <1>8, LoseStep
  <2>2. Unbroken' BY <1>8, NobodyPanics DEF Lose, clientVars
  <2> QED BY <2>1, <2>2
<1>9. CASE UNCHANGED vars
  <2>1. RestTyped' BY <1>9 DEF RestTyped, ClientTyped, StoreTyped, vars, clientVars, storeVars
  <2>2. AnswersInv'
    BY <1>9 DEF AnswersInv, CallsInv, OptionsInv, ResponsesInv, HeardInv, CarriedOut, vars, clientVars, storeVars
  <2>3. Unbroken' BY <1>9, NobodyPanics DEF vars, clientVars
  <2> QED BY <2>1, <2>2, <2>3
<1>10. CASE \E c \in Clients : ClientAction(c) /\ UNCHANGED storeVars BY <1>4, <1>10
<1> QED
  BY <1>1, <1>2, <1>3, <1>6, <1>7, <1>8, <1>9, <1>10
  DEF Next, ClientAction, Create, Read, Update, Apply, Delete, List

-----------------------------------------------------------------------------
\* What a call that returns says of what it did, whatever is lost on the way,
\* cut short, answered late or tried again: without an error it was carried
\* out, with the options of its caller unless another's have overwritten them;
\* with an error although it was carried out, an answer was lost, or the labels
\* clashed (http.go of the backend, Create to List; server.go's handlers).
THEOREM AnswersAreHonest == Spec => []AnswerHonest
<1> DEFINE Inv == RestTyped /\ AnswersInv /\ Unbroken
<1>1. Init => Inv BY RestInvInit
<1>2. Inv /\ [Next]_vars => Inv' BY RestInvNext
<1>3. Inv => AnswerHonest
  <2> SUFFICES ASSUME Inv, NEW c \in Clients, pc[c] = "done"
               PROVE  /\ Outcome(c) = NoErr =>
                            \E o \in {q[2] : q \in {x \in ran : x[1] = id[c]}} : o = req[c].opt \/ spare
                      /\ Outcome(c) # NoErr /\ (\E o \in {x[2] : x \in ran} : <<id[c], o>> \in ran)
                            => id[c] \in unheard \/ (UseLabels /\ query[c] = "clash")
    BY DEF AnswerHonest, NilMeansDone, FailureIsHonest
  <2>0. OptionsInv /\ ResponsesInv /\ HeardInv BY DEF AnswersInv
  <2>1. /\ Outcome(c) = NoErr => resp[c].status = OkStatus(req[c].op)
        /\ resp[c].status = OkStatus(req[c].op) /\ resp[c].err = NoErr => Outcome(c) = NoErr
    BY <2>0, OutcomeMeans
  <2>2. ASSUME Outcome(c) = NoErr
        PROVE  \E o \in {q[2] : q \in {x \in ran : x[1] = id[c]}} : o = req[c].opt \/ spare
    <3>1. <<id[c], query[c]>> \in ran /\ (query[c] = req[c].opt \/ spare)
      BY <2>0, <2>1, <2>2 DEF ResponsesInv
    <3>2. query[c] \in {q[2] : q \in {x \in ran : x[1] = id[c]}}
      <4>1. <<id[c], query[c]>> \in {x \in ran : x[1] = id[c]} BY <3>1
      <4> QED BY <4>1
    <3> QED BY <3>1, <3>2
  <2>3. ASSUME Outcome(c) # NoErr, \E o \in {x[2] : x \in ran} : <<id[c], o>> \in ran
        PROVE  id[c] \in unheard \/ (UseLabels /\ query[c] = "clash")
    <3>1. CarriedOut(c) BY <2>3 DEF CarriedOut
    <3> QED BY <2>0, <2>1, <2>3, <3>1 DEF HeardInv
  <2> QED BY <2>2, <2>3
<1> QED BY <1>1, <1>2, <1>3, PTL DEF Spec

\* No breaker opens, since the function under it returns no error: a client
\* panics only for a context that had ended before its first attempt
\* (http.go, do; retrier.go and circuitbreaker.go of tripperware).
THEOREM PanicsOnlyBeforeAnAttempt == Spec => []PanicsOnlyUnsent
<1> DEFINE Inv == RestTyped /\ AnswersInv /\ Unbroken
<1>1. Init => Inv BY RestInvInit
<1>2. Inv /\ [Next]_vars => Inv' BY RestInvNext
<1>3. Inv => PanicsOnlyUnsent BY DEF Unbroken
<1> QED BY <1>1, <1>2, <1>3, PTL DEF Spec
=============================================================================
