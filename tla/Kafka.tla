-------------------------------- MODULE Kafka --------------------------------
(***************************************************************************)
(* Writers of a store that announces its writes on a topic, and a consumer  *)
(* of that topic.                                                           *)
(***************************************************************************)
EXTENDS Consumer, KafkaStatus

vars == <<storeVars, consumerVars>>

\* Writers with no consumer, in every configuration; or a consumer, with one
\* write to come and other programs that write to the topic.
Init ==
    /\ StoreInit /\ ConsumerInit
    /\ \/ step = "absent" /\ ~dryRun /\ calls = 0
       \/ /\ step = "check" /\ calls = MaxCalls - 1 /\ cfg.wait
          /\ cfg.locked /\ ~cfg.shared /\ ~cfg.sendDryRun

\* Another program writes to the topic.
ForeignMessage(p) ==
    /\ step # "absent" /\ Len(log[p]) < MaxLog
    /\ \E m \in {OtherMessage, EmptyMessage} : log' = [log EXCEPT ![p] = Append(@, m)]
    /\ UNCHANGED <<cfg, callVars, queue, reports, delivered, endVars>>

Next ==
    \/ \E c \in Clients : Invoke(c) /\ UNCHANGED consumerVars
    \/ \E c \in Clients : StoreCall(c) /\ UNCHANGED consumerVars
    \/ \E c \in Clients : Silent(c) /\ UNCHANGED consumerVars
    \/ \E c \in Clients : Produce(c) /\ UNCHANGED consumerVars
    \/ \E c \in Clients : Received(c) /\ UNCHANGED consumerVars
    \/ \E c \in Clients : Forward(c) /\ UNCHANGED consumerVars
    \/ \E c \in Clients : WaitTimeout(c) /\ UNCHANGED consumerVars
    \/ Transmit /\ UNCHANGED consumerVars
    \/ Report /\ UNCHANGED consumerVars
    \/ ReadReport /\ UNCHANGED consumerVars
    \/ step = "absent" /\ StopMonitor /\ UNCHANGED consumerVars
    \/ step = "absent" /\ Close /\ UNCHANGED consumerVars
    \/ CloseClient /\ UNCHANGED consumerVars
    \/ CloseDelivery /\ UNCHANGED consumerVars
    \/ \E p \in Partitions : ForeignMessage(p) /\ UNCHANGED consumerVars
    \/ CheckContext /\ UNCHANGED storeVars
    \/ PollNothing /\ UNCHANGED storeVars
    \/ \E p \in Partitions : Poll(p) /\ UNCHANGED storeVars
    \/ Handle /\ UNCHANGED storeVars
    \/ StoreMessage /\ UNCHANGED storeVars
    \/ ReportError /\ UNCHANGED storeVars
    \/ ReadError /\ UNCHANGED storeVars
    \/ Commit /\ UNCHANGED storeVars
    \/ CommitMessage /\ UNCHANGED storeVars
    \/ Cancel /\ UNCHANGED storeVars
    \/ Restart /\ UNCHANGED storeVars

Spec == Init /\ [][Next]_vars

-----------------------------------------------------------------------------
(* Properties.                                                              *)

TypeOK ==
    /\ pc \in [Clients -> {"idle", "store", "announce", "wait", "forward"}]
    /\ opts \in [Clients -> {<<>>, <<"dryRun">>, <<"noCache", "dryRun">>,
                             <<"dryRun", "noCache">>, <<"noCache", "noCache">>}]
    /\ own \in [Clients -> {"empty", "ok", "failed"}]
    /\ ans \in [Clients -> {"none", "nil", "error"}]
    /\ calls \in 0..MaxCalls /\ written \in 0..calls
    /\ event \in [Clients -> -1..written]
    /\ Len(queue) + Len(reports) <= calls
    /\ delivered \in 0..DeliveryCap /\ errs \in 0..ErrCap
    /\ step \in {"absent", "check", "poll", "handle", "store", "report", "stopped"}
    /\ \A p \in Partitions :
        /\ \A i \in DOMAIN log[p] : log[p][i] \in {OtherMessage, EmptyMessage} \cup -1..MaxCalls
        /\ {position[p], stored[p], committed[p]} \subseteq 1..(Len(log[p]) + 1)

\* Under the lock of threadsafe, the events of a partition are in the order in
\* which the store took the writes, also when waits for delivery time out.
EventsOrdered ==
    cfg.locked => \A p \in Partitions : \A i, j \in DOMAIN log[p] :
        i < j /\ log[p][i] > 0 /\ log[p][j] > 0 => log[p][i] < log[p][j]

\* An event stands for a write the store has taken, or for a dry run when the
\* configuration asks for it; but for dry runs whose option is followed by
\* another, which the layers above the store no longer recognise.
EventMeansWrite ==
    \A p \in Partitions : \A i \in DOMAIN log[p] :
        /\ log[p][i] <= written
        /\ log[p][i] = 0 => cfg.sendDryRun

\* With WaitForDelivery, a write that returned no error has its event on the
\* topic.
NilMeansLogged ==
    \A c \in Clients : cfg.wait /\ ans[c] = "nil" /\ event[c] > 0
        => \E p \in Partitions : \E i \in DOMAIN log[p] : log[p][i] = event[c]

\* What an event says of the store, and an answer of the topic.
EventsHonest == EventMeansWrite /\ NilMeansLogged

\* A topic of a store's events, for who reads them.
EventsSound == EventsOrdered /\ EventsHonest

\* A send on a closed channel, which would end the program, needs a call that
\* was in progress when Close was called.
PanicOnlyIfClosedEarly == panicked => early

\* What is below the committed offset has been through the application's
\* function, whatever crashes came in between, or was committed by it.
HandedBeforeCommit ==
    \A p \in Partitions : \A o \in 1..(committed[p] - 1) :
        log[p][o] = EmptyMessage \/ <<p, o>> \in handed \cup manual

\* A message that is skipped, because its function failed and a later message
\* of the partition was processed and committed, has been put to the error
\* channel, unless the application commits messages itself.
SkippedIsReported ==
    \A m \in failed : m[2] < committed[m[1]] /\ manual = {} => m \in reported

\* What a committed offset says of the messages below it.
CommitSound == HandedBeforeCommit /\ SkippedIsReported

-----------------------------------------------------------------------------
(* A topic and its users, or the status of one of them. *)

VARIABLE followed

all == <<followed, vars, statusVars>>

MCInit ==
  /\ followed \in {"topic", "status"}
  /\ Init /\ StatusInit
  /\ followed = "status" =>
       step = "absent" /\ calls = 0 /\ cfg = [sendDryRun |-> FALSE, wait |-> FALSE, shared |-> FALSE, locked |-> FALSE]

MCNext ==
  \/ followed = "topic" /\ Next /\ UNCHANGED <<followed, statusVars>>
  \/ followed = "status" /\ StatusNext /\ UNCHANGED <<followed, vars>>

MCSpec == MCInit /\ [][MCNext]_all
=============================================================================
