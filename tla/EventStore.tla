----------------------------- MODULE EventStore -----------------------------
(***************************************************************************)
(* pkg/store/middleware/kafka over pkg/kafka/producer: a store that         *)
(* announces each write with an event.  The store below is one that takes   *)
(* or refuses writes.  librdkafka keeps the order of a partition, chooses   *)
(* the partition of every message itself (PartitionAny, no key), and        *)
(* reports each delivery on the channel that went with the message.         *)
(***************************************************************************)
EXTENDS Options, Integers

CONSTANTS
    Clients,
    Partitions,
    MaxCalls,      \* bound: calls in all
    DeliveryCap    \* capacity of the channel given to WithDeliveryCh

ASSUME EventStoreAssumption == MaxCalls \in Nat /\ DeliveryCap \in Nat

VARIABLES
    cfg,        \* sendDryRun, wait (WaitForDelivery), shared (WithDeliveryCh), locked (under threadsafe)
    calls,      \* calls made so far
    pc,         \* where each client's call is
    opts,       \* the options as its slice holds them
    event,      \* what the call is about: a write's number, 0: a dry run,
                \* -1: a dry run whose option is followed by another
    own,        \* its per-message delivery channel
    ans,        \* what the call returned
    written,    \* writes the store has taken, numbered from 1
    queue,      \* messages handed to librdkafka
    reports,    \* delivery reports it has yet to send
    log,        \* the topic
    delivered,  \* reports waiting in the shared delivery channel
    closing,    \* Close has been called, and its Flush has returned
    clientUp,   \* the librdkafka client has not been closed
    chanOpen,   \* nor the shared delivery channel
    monitor,    \* MonitorEvents is running
    panicked,   \* something was sent on a closed channel
    early       \* (history) Close was called while a call was in progress

callVars  == <<calls, pc, opts, event, own, ans, written>>
busVars   == <<queue, reports, log, delivered>>
endVars   == <<closing, clientUp, chanOpen, monitor, panicked, early>>
storeVars == <<cfg, callVars, busVars, endVars>>

OptionLists == {<<>>, <<"dryRun">>, <<"noCache", "dryRun">>, <<"dryRun", "noCache">>}

StoreInit ==
    /\ cfg \in [sendDryRun : BOOLEAN, wait : BOOLEAN, shared : BOOLEAN, locked : BOOLEAN]
    /\ calls \in 0..MaxCalls /\ written = 0
    /\ pc = [c \in Clients |-> "idle"] /\ opts = [c \in Clients |-> <<>>]
    /\ event = [c \in Clients |-> 0] /\ own = [c \in Clients |-> "empty"]
    /\ ans = [c \in Clients |-> "none"]
    /\ queue = <<>> /\ reports = <<>> /\ log = [p \in Partitions |-> <<>>]
    /\ delivered = 0 /\ closing = FALSE /\ clientUp = TRUE /\ chanOpen = TRUE
    /\ monitor = TRUE /\ panicked = FALSE /\ early = FALSE

\* A dry run is told apart by where its option stands.
DryEvent(o) == IF o[Len(o)] = "dryRun" THEN 0 ELSE -1

InProgress(c) == pc[c] # "idle"

\* The call of c goes to step s, or returns.
Goto(c, s)  == pc' = [pc EXCEPT ![c] = s] /\ UNCHANGED ans
Reply(c, a) == pc' = [pc EXCEPT ![c] = "idle"] /\ ans' = [ans EXCEPT ![c] = a]

-----------------------------------------------------------------------------
(* A write through the middleware.                                          *)

\* Mutant: the lock is not taken.
InvokeUnlocked(c) ==
    /\ ~InProgress(c) /\ calls < MaxCalls /\ ~closing
    /\ calls' = calls + 1
    /\ pc' = [pc EXCEPT ![c] = "store"]
    /\ \E o \in OptionLists : opts' = [opts EXCEPT ![c] = o]
    /\ own' = [own EXCEPT ![c] = "empty"]
    /\ event' = [event EXCEPT ![c] = 0]
    /\ ans' = [ans EXCEPT ![c] = "none"]
    /\ UNCHANGED <<cfg, written, busVars, endVars>>

\* Create, Update, Apply or Delete is called, under a lock or not.
Invoke(c) ==
    /\ ~InProgress(c) /\ calls < MaxCalls /\ ~closing
    /\ cfg.locked => \A d \in Clients : ~InProgress(d)
    /\ calls' = calls + 1
    /\ pc' = [pc EXCEPT ![c] = "store"]
    /\ \E o \in OptionLists : opts' = [opts EXCEPT ![c] = o]
    /\ own' = [own EXCEPT ![c] = "empty"]
    /\ event' = [event EXCEPT ![c] = 0]
    /\ ans' = [ans EXCEPT ![c] = "none"]
    /\ UNCHANGED <<cfg, written, busVars, endVars>>

\* Mutant: the event is announced before the store has answered.
StoreCallOptimistic(c) ==
    /\ pc[c] = "store"
    /\ IF Has(opts[c], "dryRun")
       THEN /\ event' = [event EXCEPT ![c] = DryEvent(opts[c])]
            /\ UNCHANGED written
       ELSE /\ event' = [event EXCEPT ![c] = written + 1]
            /\ written' \in {written, written + 1}
    /\ opts' = [opts EXCEPT ![c] = LeftBehind(@, "dryRun")]
    /\ Goto(c, "announce")
    /\ UNCHANGED <<cfg, calls, own, busVars, endVars>>

\* t.store.X(ctx, key, value, opts...): the store consumes the dry run; it
\* takes the write, refuses it, or takes it and fails to say so.
StoreCall(c) ==
    /\ pc[c] = "store"
    /\ opts' = [opts EXCEPT ![c] = LeftBehind(@, "dryRun")]
    /\ IF Has(opts[c], "dryRun")
       THEN /\ event' = [event EXCEPT ![c] = DryEvent(opts[c])]
            /\ Goto(c, "announce") \/ Reply(c, "error")
            /\ UNCHANGED written
       ELSE \/ /\ Reply(c, "error")
               /\ written' \in {written, written + 1}
               /\ UNCHANGED event
            \/ /\ Goto(c, "announce")
               /\ written' = written + 1
               /\ event' = [event EXCEPT ![c] = written + 1]
    /\ UNCHANGED <<cfg, calls, own, busVars, endVars>>

\* IsDryRun(opts) && !SendDryRun: nothing to announce.
Silent(c) ==
    /\ pc[c] = "announce"
    /\ Has(opts[c], "dryRun") /\ ~cfg.sendDryRun
    /\ Reply(c, "nil")
    /\ UNCHANGED <<cfg, calls, opts, event, own, written, busVars, endVars>>

\* The channel a delivery report comes back on.
Channel == IF cfg.wait THEN "own" ELSE IF cfg.shared THEN "shared" ELSE "events"

\* Produce, produceAndWait: librdkafka takes the message or refuses it.
Produce(c) ==
    /\ pc[c] = "announce"
    /\ ~Has(opts[c], "dryRun") \/ cfg.sendDryRun
    /\ \/ /\ clientUp
          /\ \E p \in Partitions :
                queue' = Append(queue, [from |-> c, call |-> event[c], at |-> p, via |-> Channel])
          /\ IF cfg.wait THEN Goto(c, "wait") ELSE Reply(c, "nil")
       \/ Reply(c, "error") /\ UNCHANGED queue
    /\ UNCHANGED <<cfg, calls, opts, event, own, written, reports, log, delivered, endVars>>

\* Mutant: TopicPartition.Error is not looked at.
ReceivedUnchecked(c) ==
    /\ pc[c] = "wait" /\ own[c] # "empty"
    /\ IF cfg.shared THEN Goto(c, "forward") ELSE Reply(c, "nil")
    /\ UNCHANGED <<cfg, calls, opts, event, own, written, busVars, endVars>>

\* event := <-deliveryCh
Received(c) ==
    /\ pc[c] = "wait" /\ own[c] # "empty"
    /\ IF own[c] = "failed" THEN Reply(c, "error")
       ELSE IF cfg.shared THEN Goto(c, "forward") ELSE Reply(c, "nil")
    /\ UNCHANGED <<cfg, calls, opts, event, own, written, busVars, endVars>>

\* case p.deliveryCh <- deliveryReport, or default.
Forward(c) ==
    /\ pc[c] = "forward"
    /\ panicked' = (panicked \/ ~chanOpen)
    /\ delivered' = IF delivered < DeliveryCap THEN delivered + 1 ELSE delivered
    /\ Reply(c, "nil")
    /\ UNCHANGED <<cfg, calls, opts, event, own, written, queue, reports, log>>
    /\ UNCHANGED <<closing, clientUp, chanOpen, monitor, early>>

\* Nobody listens any more to the channel c made for its message.
Unheard(ms, c) ==
    [i \in DOMAIN ms |-> IF ms[i].from = c THEN [ms[i] EXCEPT !.via = "nobody"] ELSE ms[i]]

\* <-time.After(options.WaitForDeliveryTimeout)
WaitTimeout(c) ==
    /\ pc[c] = "wait"
    /\ Reply(c, "error")
    /\ queue' = Unheard(queue, c) /\ reports' = Unheard(reports, c)
    /\ UNCHANGED <<cfg, calls, opts, event, own, written, log, delivered, endVars>>

-----------------------------------------------------------------------------
(* librdkafka and the broker.                                               *)

\* The oldest message is delivered, or fails (and may yet have been written).
Transmit ==
    /\ clientUp /\ queue # <<>>
    /\ LET m == Head(queue) IN
        \E ok \in BOOLEAN :
            /\ \/ log' = [log EXCEPT ![m.at] = Append(@, m.call)]
               \/ ~ok /\ UNCHANGED log
            /\ reports' = Append(reports, [from |-> m.from, via |-> m.via, ok |-> ok])
    /\ queue' = Tail(queue)
    /\ UNCHANGED <<cfg, callVars, delivered, endVars>>

\* The poller sends the next report; only a shared channel can be full.
Report ==
    /\ clientUp /\ reports # <<>>
    /\ LET r == Head(reports) IN
        /\ r.via = "shared" => delivered < DeliveryCap
        /\ delivered' = IF r.via = "shared" THEN delivered + 1 ELSE delivered
        /\ panicked' = (panicked \/ (r.via = "shared" /\ ~chanOpen))
        /\ own' = IF r.via = "own" THEN [own EXCEPT ![r.from] = IF r.ok THEN "ok" ELSE "failed"]
                  ELSE own
    /\ reports' = Tail(reports)
    /\ UNCHANGED <<cfg, calls, pc, opts, event, ans, written, queue, log>>
    /\ UNCHANGED <<closing, clientUp, chanOpen, monitor, early>>

\* The application reads DeliveryReports().
ReadReport ==
    /\ delivered > 0
    /\ delivered' = delivered - 1
    /\ UNCHANGED <<cfg, callVars, queue, reports, log, endVars>>

-----------------------------------------------------------------------------
(* The end.                                                                 *)

\* The context of MonitorEvents is done.
StopMonitor ==
    /\ monitor
    /\ monitor' = FALSE
    /\ UNCHANGED <<cfg, callVars, busVars, closing, clientUp, chanOpen, panicked, early>>

\* Close: Flush returns when all is reported, or after its timeout.
Close ==
    /\ ~closing
    /\ closing' = TRUE
    /\ early' = \E c \in Clients : InProgress(c)
    /\ UNCHANGED <<cfg, callVars, busVars, clientUp, chanOpen, monitor, panicked>>

\* p.wg.Wait(); the deferred kafkaClient.Close() drops what is left.
CloseClient ==
    /\ closing /\ ~monitor /\ clientUp
    /\ clientUp' = FALSE
    /\ queue' = <<>> /\ reports' = <<>>
    /\ UNCHANGED <<cfg, callVars, log, delivered, closing, chanOpen, monitor, panicked, early>>

\* Mutant: the channel is closed before the client that sends to it.
CloseDeliveryFirst ==
    /\ closing /\ ~monitor /\ chanOpen
    /\ chanOpen' = FALSE
    /\ UNCHANGED <<cfg, callVars, busVars, closing, clientUp, monitor, panicked, early>>

\* close(p.deliveryCh)
CloseDelivery ==
    /\ ~clientUp /\ chanOpen
    /\ chanOpen' = FALSE
    /\ UNCHANGED <<cfg, callVars, busVars, closing, clientUp, monitor, panicked, early>>
=============================================================================
