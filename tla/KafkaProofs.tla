----------------------------- MODULE KafkaProofs -----------------------------
(***************************************************************************)
(* For any clients, partitions, capacities and bounds: what the topic of a  *)
(* store says of the writes (EventsSound), what ends a producer             *)
(* (PanicOnlyIfClosedEarly), and what the committed offsets say of the      *)
(* messages below them (CommitSound).                                       *)
(***************************************************************************)
EXTENDS Kafka, FiniteSetTheorems, TLAPS

-----------------------------------------------------------------------------
(* The part of the types that the arguments need.                           *)

Messages == [from : Clients, call : Int, at : Partitions, via : {"own", "shared", "events", "nobody"}]
Answers  == [from : Clients, via : {"own", "shared", "events", "nobody"}, ok : BOOLEAN]

TopicTyped ==
    /\ cfg \in [sendDryRun : BOOLEAN, wait : BOOLEAN, shared : BOOLEAN, locked : BOOLEAN]
    /\ written \in Nat
    /\ pc \in [Clients -> {"idle", "store", "announce", "wait", "forward"}]
    /\ DOMAIN opts = Clients
    /\ event \in [Clients -> Int]
    /\ own \in [Clients -> {"empty", "ok", "failed"}]
    /\ ans \in [Clients -> {"none", "nil", "error"}]
    /\ queue \in Seq(Messages) /\ reports \in Seq(Answers)
    /\ log \in [Partitions -> Seq(Int)]

-----------------------------------------------------------------------------
(* The end of a producer.                                                   *)

\* The channel is closed after the client, which is closed after Close was
\* called; from then on no call begins, so none is in progress if none was.
EndInv ==
    /\ ~chanOpen => ~clientUp
    /\ ~clientUp => closing
    /\ early => closing
    /\ closing /\ ~early => \A c \in Clients : pc[c] = "idle"
    /\ panicked => early

-----------------------------------------------------------------------------
(* The topic.                                                               *)

\* A write that is about to be announced is not taken for a dry run, nor a dry
\* run for a write.
CallInv ==
    \A c \in Clients :
        /\ pc[c] = "store" => opts[c] \in OptionLists
        /\ pc[c] \in {"store", "announce"} => own[c] = "empty"
        /\ pc[c] # "idle" => ans[c] = "none"
        /\ event[c] <= written
        /\ pc[c] = "announce" =>
              /\ event[c] > 0 => ~Has(opts[c], "dryRun")
              /\ event[c] = 0 => Has(opts[c], "dryRun")

\* What an event on its way, or on the topic, says of the store.
SaidInv ==
    /\ \A i \in DOMAIN queue : queue[i].call <= written /\ (queue[i].call = 0 => cfg.sendDryRun)
    /\ EventMeansWrite

\* Under the lock of threadsafe a call announces its write before the next one
\* begins: the topic, then the queue, then the write that is not announced yet
\* are in the order in which the store took them.
OrderInv ==
    cfg.locked =>
        /\ \A c, d \in Clients : InProgress(c) /\ InProgress(d) => c = d
        /\ \A i, j \in DOMAIN queue :
              i < j /\ queue[i].call > 0 /\ queue[j].call > 0 => queue[i].call < queue[j].call
        /\ \A p \in Partitions : \A i \in DOMAIN log[p] : \A j \in DOMAIN queue :
              log[p][i] > 0 /\ queue[j].call > 0 => log[p][i] < queue[j].call
        /\ \A c \in Clients : pc[c] = "announce" /\ event[c] > 0 =>
              /\ \A i \in DOMAIN queue : queue[i].call < event[c]
              /\ \A p \in Partitions : \A i \in DOMAIN log[p] : log[p][i] < event[c]
        /\ EventsOrdered

Logged(l, e) == \E p \in Partitions : \E i \in DOMAIN l[p] : l[p][i] = e

\* A call that waits has one message, or one report, or the report has come to
\* its channel; and a good report is one of an event that is on the topic.
WaitInv ==
    /\ \A i \in DOMAIN queue : queue[i].via = "own" =>
          /\ pc[queue[i].from] = "wait" /\ own[queue[i].from] = "empty"
          /\ queue[i].call = event[queue[i].from]
    /\ \A i \in DOMAIN reports : reports[i].via = "own" =>
          /\ pc[reports[i].from] = "wait" /\ own[reports[i].from] = "empty"
          /\ reports[i].ok => Logged(log, event[reports[i].from])
    /\ \A i, j \in DOMAIN queue :
          queue[i].via = "own" /\ queue[j].via = "own" /\ queue[i].from = queue[j].from => i = j
    /\ \A i, j \in DOMAIN reports :
          reports[i].via = "own" /\ reports[j].via = "own" /\ reports[i].from = reports[j].from => i = j
    /\ \A i \in DOMAIN queue, j \in DOMAIN reports :
          ~(queue[i].via = "own" /\ reports[j].via = "own" /\ queue[i].from = reports[j].from)
    /\ \A c \in Clients :
          /\ pc[c] = "wait" /\ own[c] = "ok" => Logged(log, event[c])
          /\ pc[c] = "forward" => Logged(log, event[c])
          /\ cfg.wait /\ ans[c] = "nil" /\ event[c] > 0 => Logged(log, event[c])

TopicInv == TopicTyped /\ CallInv /\ SaidInv /\ OrderInv /\ WaitInv

-----------------------------------------------------------------------------
(* The consumer.                                                            *)

OffsetsTyped ==
    /\ cur \in {Nothing} \cup (Partitions \X (Nat \ {0}))
    /\ position \in [Partitions -> Nat \ {0}]
    /\ stored \in [Partitions -> Nat \ {0}]
    /\ committed \in [Partitions -> Nat \ {0}]
    /\ \A p \in Partitions : position[p] <= Len(log[p]) + 1

\* The goroutine is at the message it has polled last.
AtCur ==
    /\ step \in {"handle", "store", "report"} => cur # Nothing
    /\ cur # Nothing => cur[2] + 1 = position[cur[1]]
    /\ step = "store" => cur \in handed

\* What is below an offset has been handed over, or was committed by the
\* application itself; so is what is below the position, but for the message
\* that is being handled.
Done(p, o) == log[p][o] = EmptyMessage \/ <<p, o>> \in handed \cup manual
HandedInv ==
    \A p \in Partitions :
        /\ \A o \in 1..(position[p] - 1) : Done(p, o) \/ (cur = <<p, o>> /\ step = "handle")
        /\ \A o \in 1..(stored[p] - 1) : Done(p, o)
        /\ \A o \in 1..(committed[p] - 1) : Done(p, o)
        /\ stored[p] <= position[p] /\ committed[p] <= position[p]

\* As long as the application leaves the committing to the consumer: what
\* failed and is behind has been reported, but for the message in hand.
ReportedInv ==
    manual = {} =>
        /\ step = "handle" => stored[cur[1]] <= cur[2] /\ committed[cur[1]] <= cur[2]
        /\ \A m \in failed :
              \/ m \in reported
              \/ m = cur /\ step \in {"handle", "report"} /\ stored[m[1]] <= m[2] /\ committed[m[1]] <= m[2]
              \/ m[2] >= position[m[1]]

ConsumerInv ==
    /\ OffsetsTyped /\ AtCur /\ HandedInv /\ ReportedInv
    /\ failed \subseteq Partitions \X (Nat \ {0})

-----------------------------------------------------------------------------
(* Sequences.                                                               *)

\* A message, or a report, is put at the end ...
LEMMA Appended ==
    ASSUME NEW S, NEW s \in Seq(S), NEW e \in S
    PROVE  /\ Append(s, e) \in Seq(S)
           /\ \A i \in DOMAIN s : i \in DOMAIN Append(s, e) /\ Append(s, e)[i] = s[i]
           /\ \A i \in DOMAIN Append(s, e) : i \in DOMAIN s \/ (i = Len(s) + 1 /\ Append(s, e)[i] = e)
           /\ Len(s) + 1 \in DOMAIN Append(s, e) /\ Append(s, e)[Len(s) + 1] = e
           /\ \A i \in DOMAIN s : i \in Nat /\ i < Len(s) + 1
<1>1. Append(s, e) \in Seq(S) /\ Len(Append(s, e)) = Len(s) + 1
    OBVIOUS
<1>2. DOMAIN s = 1..Len(s) /\ DOMAIN Append(s, e) = 1..(Len(s) + 1) /\ Len(s) \in Nat
    BY <1>1
<1>3. \A i \in 1..Len(s) : Append(s, e)[i] = s[i]
    OBVIOUS
<1>4. Append(s, e)[Len(s) + 1] = e
    OBVIOUS
<1>5. \A i \in 1..(Len(s) + 1) : i \in 1..Len(s) \/ i = Len(s) + 1
    BY <1>2
<1>6. Len(s) + 1 \in 1..(Len(s) + 1) /\ \A i \in 1..Len(s) : i \in 1..(Len(s) + 1) /\ i \in Nat /\ i < Len(s) + 1
    BY <1>2
<1> QED
    BY <1>1, <1>2, <1>3, <1>4, <1>5, <1>6

\* ... and taken from the front.
LEMMA Rest ==
    ASSUME NEW S, NEW s \in Seq(S), s # <<>>
    PROVE  /\ Head(s) = s[1] /\ Head(s) \in S /\ 1 \in DOMAIN s
           /\ Tail(s) \in Seq(S)
           /\ \A i \in DOMAIN Tail(s) : i \in Nat /\ i + 1 \in DOMAIN s /\ Tail(s)[i] = s[i + 1] /\ i + 1 > 1
<1>1. Tail(s) \in Seq(S) /\ Len(Tail(s)) = Len(s) - 1 /\ Len(s) \in Nat /\ Len(s) > 0
    OBVIOUS
<1>2. DOMAIN s = 1..Len(s) /\ DOMAIN Tail(s) = 1..(Len(s) - 1)
    BY <1>1
<1>3. \A i \in 1..(Len(s) - 1) : Tail(s)[i] = s[i + 1]
    BY <1>1
<1>4. Head(s) = s[1] /\ Head(s) \in S /\ 1 \in DOMAIN s
    BY <1>1, <1>2
<1>5. \A i \in 1..(Len(s) - 1) : i \in Nat /\ i + 1 \in 1..Len(s) /\ i + 1 > 1
    BY <1>1
<1> QED
    BY <1>1, <1>2, <1>3, <1>4, <1>5

\* Nothing but the channel changes of what nobody listens to.
LEMMA UnheardMessages ==
    ASSUME NEW ms \in Seq(Messages), NEW c \in Clients
    PROVE  /\ Unheard(ms, c) \in Seq(Messages)
           /\ DOMAIN Unheard(ms, c) = DOMAIN ms
           /\ \A i \in DOMAIN ms :
                 /\ Unheard(ms, c)[i].call = ms[i].call /\ Unheard(ms, c)[i].from = ms[i].from
                 /\ Unheard(ms, c)[i].via = "own" => ms[i].via = "own" /\ ms[i].from # c
<1>1. DOMAIN ms = 1..Len(ms) /\ Len(ms) \in Nat /\ \A i \in 1..Len(ms) : ms[i] \in Messages
    OBVIOUS
<1>2. DOMAIN Unheard(ms, c) = 1..Len(ms)
    BY <1>1 DEF Unheard
<1>3. ASSUME NEW i \in 1..Len(ms)
      PROVE  /\ Unheard(ms, c)[i] \in Messages
             /\ Unheard(ms, c)[i].call = ms[i].call /\ Unheard(ms, c)[i].from = ms[i].from
             /\ Unheard(ms, c)[i].via = "own" => ms[i].via = "own" /\ ms[i].from # c
    <2>1. ms[i] \in Messages
        BY <1>1
    <2>2. Unheard(ms, c)[i] = IF ms[i].from = c THEN [ms[i] EXCEPT !.via = "nobody"] ELSE ms[i]
        BY <1>1 DEF Unheard
    <2> QED
        BY <2>1, <2>2 DEF Messages
<1>4. Unheard(ms, c) \in [1..Len(ms) -> Messages]
    BY <1>1, <1>3 DEF Unheard
<1> QED
    BY <1>1, <1>2, <1>3, <1>4

LEMMA UnheardAnswers ==
    ASSUME NEW ms \in Seq(Answers), NEW c \in Clients
    PROVE  /\ Unheard(ms, c) \in Seq(Answers)
           /\ DOMAIN Unheard(ms, c) = DOMAIN ms
           /\ \A i \in DOMAIN ms :
                 /\ Unheard(ms, c)[i].ok = ms[i].ok /\ Unheard(ms, c)[i].from = ms[i].from
                 /\ Unheard(ms, c)[i].via = "own" => ms[i].via = "own" /\ ms[i].from # c
<1>1. DOMAIN ms = 1..Len(ms) /\ Len(ms) \in Nat /\ \A i \in 1..Len(ms) : ms[i] \in Answers
    OBVIOUS
<1>2. DOMAIN Unheard(ms, c) = 1..Len(ms)
    BY <1>1 DEF Unheard
<1>3. ASSUME NEW i \in 1..Len(ms)
      PROVE  /\ Unheard(ms, c)[i] \in Answers
             /\ Unheard(ms, c)[i].ok = ms[i].ok /\ Unheard(ms, c)[i].from = ms[i].from
             /\ Unheard(ms, c)[i].via = "own" => ms[i].via = "own" /\ ms[i].from # c
    <2>1. ms[i] \in Answers
        BY <1>1
    <2>2. Unheard(ms, c)[i] = IF ms[i].from = c THEN [ms[i] EXCEPT !.via = "nobody"] ELSE ms[i]
        BY <1>1 DEF Unheard
    <2> QED
        BY <2>1, <2>2 DEF Answers
<1>4. Unheard(ms, c) \in [1..Len(ms) -> Answers]
    BY <1>1, <1>3 DEF Unheard
<1> QED
    BY <1>1, <1>2, <1>3, <1>4

\* What the options tell of a dry run once the store has answered.
LEMMA DryRuns ==
    ASSUME NEW o \in OptionLists
    PROVE  /\ Has(o, "dryRun") => /\ DryEvent(o) \in {0, -1}
                                  /\ DryEvent(o) = 0 => Has(LeftBehind(o, "dryRun"), "dryRun")
           /\ ~Has(o, "dryRun") => ~Has(LeftBehind(o, "dryRun"), "dryRun")
<1>1. ASSUME Has(o, "dryRun"), DryEvent(o) = 0 PROVE Has(LeftBehind(o, "dryRun"), "dryRun")
    <2>1. Len(o) \in Nat /\ Len(o) > 0 /\ DOMAIN o = 1..Len(o)
        <3>1. CASE o = <<>>
            BY <1>1, <3>1 DEF Has
        <3>2. CASE o = <<"dryRun">>
            BY <3>2
        <3>3. CASE o = <<"noCache", "dryRun">>
            BY <3>3
        <3>4. CASE o = <<"dryRun", "noCache">>
            BY <3>4
        <3> QED
            BY <3>1, <3>2, <3>3, <3>4 DEF OptionLists
    <2>2. Len(o) \in DOMAIN LeftBehind(o, "dryRun") /\ LeftBehind(o, "dryRun")[Len(o)] = o[Len(o)]
        BY <1>1, <2>1 DEF LeftBehind
    <2>3. o[Len(o)] = "dryRun"
        BY <1>1 DEF DryEvent
    <2> QED
        BY <2>2, <2>3 DEF Has
<1> QED
    BY <1>1 DEF DryEvent, LeftBehind

-----------------------------------------------------------------------------
(* The topic: one lemma per step of a call.                                 *)

LEMMA WhatTheyAre ==
    ASSUME TopicTyped
    PROVE  /\ \A i \in DOMAIN queue : i \in Nat /\ queue[i] \in Messages /\ queue[i].call \in Int /\ queue[i].from \in Clients
           /\ \A i \in DOMAIN reports : i \in Nat /\ reports[i] \in Answers /\ reports[i].from \in Clients
           /\ \A p \in Partitions : \A i \in DOMAIN log[p] : i \in Nat /\ log[p][i] \in Int
<1>1. \A i \in DOMAIN queue : i \in Nat /\ queue[i] \in Messages
    BY DEF TopicTyped
<1>2. \A i \in DOMAIN reports : i \in Nat /\ reports[i] \in Answers
    BY DEF TopicTyped
<1>3. ASSUME NEW p \in Partitions, NEW i \in DOMAIN log[p] PROVE i \in Nat /\ log[p][i] \in Int
    <2>1. log[p] \in Seq(Int)
        BY DEF TopicTyped
    <2> QED
        BY <2>1
<1>4. /\ \A m \in Messages : m.call \in Int /\ m.from \in Clients
      /\ \A m \in Answers : m.from \in Clients
    BY DEF Messages, Answers
<1> QED
    BY <1>1, <1>2, <1>3, <1>4

LEMMA TopicStarts == Init => TopicInv
<1> SUFFICES ASSUME Init PROVE TopicInv
    OBVIOUS
<1> USE DEF Init, StoreInit
<1>1. TopicTyped
    BY DEF TopicTyped
<1>2. queue = <<>> /\ reports = <<>> /\ DOMAIN queue = {} /\ DOMAIN reports = {}
      /\ \A p \in Partitions : DOMAIN log[p] = {}
    OBVIOUS
<1>3. CallInv
    BY DEF CallInv
<1>4. SaidInv /\ OrderInv
    BY <1>2 DEF SaidInv, EventMeansWrite, OrderInv, EventsOrdered, InProgress
<1>5. WaitInv
    BY <1>2 DEF WaitInv
<1> QED
    BY <1>1, <1>3, <1>4, <1>5 DEF TopicInv

LEMMA InvokeKeeps ==
    ASSUME TopicInv, NEW c \in Clients, Invoke(c)
    PROVE  TopicInv'
<1> USE DEF TopicInv, Invoke, InProgress, busVars, TopicTyped
<1>1. TopicTyped'
    OBVIOUS
<1>2. CallInv'
    BY DEF CallInv
<1>3. SaidInv'
    BY DEF SaidInv, EventMeansWrite
<1>4. OrderInv'
    BY DEF OrderInv, EventsOrdered
<1>5. WaitInv'
    BY DEF WaitInv, Logged, Messages, Answers
<1> QED
    BY <1>1, <1>2, <1>3, <1>4, <1>5

\* The write gets a number above all that were announced.
LEMMA StoreCallKeeps ==
    ASSUME TopicInv, NEW c \in Clients, StoreCall(c)
    PROVE  TopicInv'
<1>0. TopicTyped /\ CallInv /\ SaidInv /\ OrderInv /\ WaitInv
    BY DEF TopicInv
<1>1. opts[c] \in OptionLists /\ pc[c] = "store" /\ ans[c] = "none" /\ event[c] <= written /\ own[c] = "empty"
    BY <1>0 DEF CallInv, StoreCall
<1>2. /\ Has(opts[c], "dryRun") => /\ DryEvent(opts[c]) \in {0, -1}
                                   /\ DryEvent(opts[c]) = 0 => Has(opts'[c], "dryRun")
      /\ ~Has(opts[c], "dryRun") => ~Has(opts'[c], "dryRun")
    BY <1>0, <1>1, DryRuns DEF StoreCall, TopicTyped
<1>3. /\ UNCHANGED <<cfg, own, queue, reports, log>>
      /\ opts' = [opts EXCEPT ![c] = opts'[c]]
    BY <1>0 DEF StoreCall, busVars, TopicTyped
\* The store takes what it announces ...
<1>4. ASSUME pc'[c] = "announce"
      PROVE  /\ ans' = ans
             /\ \/ Has(opts[c], "dryRun") /\ event' = [event EXCEPT ![c] = DryEvent(opts[c])] /\ written' = written
                \/ ~Has(opts[c], "dryRun") /\ event' = [event EXCEPT ![c] = written + 1] /\ written' = written + 1
    BY <1>4, <1>0 DEF StoreCall, Goto, Reply, TopicTyped
\* ... or the call has failed.
<1>5. /\ pc' \in {[pc EXCEPT ![c] = "announce"], [pc EXCEPT ![c] = "idle"]}
      /\ ans' \in {ans, [ans EXCEPT ![c] = "error"]}
    BY <1>0, <1>1 DEF StoreCall, Goto, Reply, TopicTyped
<1>6. written' \in {written, written + 1} /\ written' \in Nat /\ written <= written' /\ written \in Nat
    BY <1>0 DEF StoreCall, TopicTyped
<1>7. \/ event' = event
      \/ event' = [event EXCEPT ![c] = DryEvent(opts[c])] /\ DryEvent(opts[c]) \in {0, -1}
      \/ event' = [event EXCEPT ![c] = written + 1] /\ written' = written + 1
    BY <1>2 DEF StoreCall
<1>8. event' = [event EXCEPT ![c] = event'[c]] /\ event'[c] \in Int /\ event'[c] <= written'
    BY <1>0, <1>1, <1>6, <1>7 DEF TopicTyped
<1>9. TopicTyped'
    <2>1. pc' \in [Clients -> {"idle", "store", "announce", "wait", "forward"}]
        <3>1. pc \in [Clients -> {"idle", "store", "announce", "wait", "forward"}]
            BY <1>0 DEF TopicTyped
        <3> QED
            BY <3>1, <1>5
    <2>4. ans' \in [Clients -> {"none", "nil", "error"}]
        <3>1. ans \in [Clients -> {"none", "nil", "error"}]
            BY <1>0 DEF TopicTyped
        <3> QED
            BY <3>1, <1>5
    <2>2. event' \in [Clients -> Int] /\ written' \in Nat
        BY <1>0, <1>6, <1>8 DEF TopicTyped
    <2>3. DOMAIN opts' = Clients
        BY <1>0, <1>3 DEF TopicTyped
    <2> QED
        BY <2>1, <2>2, <2>3, <2>4, <1>0, <1>3 DEF TopicTyped
<1>10. CallInv'
    <2> SUFFICES ASSUME NEW d \in Clients
                 PROVE  /\ pc'[d] = "store" => opts'[d] \in OptionLists
                        /\ pc'[d] \in {"store", "announce"} => own'[d] = "empty"
                        /\ pc'[d] # "idle" => ans'[d] = "none"
                        /\ event'[d] <= written'
                        /\ pc'[d] = "announce" =>
                              /\ event'[d] > 0 => ~Has(opts'[d], "dryRun")
                              /\ event'[d] = 0 => Has(opts'[d], "dryRun")
        BY DEF CallInv
    <2>1. CASE d = c
        BY <2>1, <1>0, <1>1, <1>2, <1>3, <1>4, <1>5, <1>6, <1>8 DEF TopicTyped
    <2>2. CASE d # c
        BY <2>2, <1>0, <1>3, <1>5, <1>6, <1>8 DEF TopicTyped, CallInv
    <2> QED
        BY <2>1, <2>2
<1>11. SaidInv'
    <2>1. \A i \in DOMAIN queue : queue[i].call \in Int
        BY <1>0, WhatTheyAre
    <2>2. \A p \in Partitions : \A i \in DOMAIN log[p] : log[p][i] \in Int
        BY <1>0, WhatTheyAre
    <2> QED
        BY <2>1, <2>2, <1>0, <1>3, <1>6 DEF SaidInv, EventMeansWrite
<1>12. OrderInv'
    <2>1. \A i \in DOMAIN queue : queue[i].call \in Int
        BY <1>0, WhatTheyAre
    <2>2. \A p \in Partitions : \A i \in DOMAIN log[p] : log[p][i] \in Int
        BY <1>0, WhatTheyAre
    <2>3. ASSUME pc'[c] = "announce", event'[c] > 0
          PROVE  /\ \A i \in DOMAIN queue : queue[i].call < event'[c]
                 /\ \A p \in Partitions : \A i \in DOMAIN log[p] : log[p][i] < event'[c]
        <3>1. event'[c] = written + 1
            BY <2>3, <1>0, <1>2, <1>4 DEF TopicTyped
        <3> QED
            BY <3>1, <2>1, <2>2, <1>0, <1>6 DEF SaidInv, EventMeansWrite
    <2>4. \A d \in Clients : (pc'[d] # "idle" => pc[d] # "idle") /\ (d # c => pc'[d] = pc[d] /\ event'[d] = event[d])
        BY <1>0, <1>1, <1>5, <1>8 DEF TopicTyped
    <2> QED
        BY <2>3, <2>4, <1>0, <1>3 DEF OrderInv, EventsOrdered, InProgress
<1>13. WaitInv'
    <2>1. \A i \in DOMAIN queue : queue[i].from \in Clients
        BY <1>0, WhatTheyAre
    <2>2. \A i \in DOMAIN reports : reports[i].from \in Clients
        BY <1>0, WhatTheyAre
    <2>3. \A d \in Clients : d # c => pc'[d] = pc[d] /\ event'[d] = event[d] /\ ans'[d] = ans[d]
        BY <1>0, <1>5, <1>8 DEF TopicTyped
    <2>4. pc'[c] \in {"announce", "idle"} /\ ans'[c] # "nil"
        BY <1>0, <1>1, <1>5 DEF TopicTyped
    <2> QED
        BY <2>1, <2>2, <2>3, <2>4, <1>0, <1>1, <1>3 DEF WaitInv, Logged
<1> QED
    BY <1>9, <1>10, <1>11, <1>12, <1>13 DEF TopicInv

LEMMA SilentKeeps ==
    ASSUME TopicInv, NEW c \in Clients, Silent(c)
    PROVE  TopicInv'
<1> USE DEF TopicInv, TopicTyped, Silent, Reply, busVars
<1>1. TopicTyped'
    OBVIOUS
<1>2. CallInv'
    BY DEF CallInv
<1>3. SaidInv'
    BY DEF SaidInv, EventMeansWrite
<1>4. OrderInv'
    BY DEF OrderInv, EventsOrdered, InProgress
<1>5. WaitInv'
    BY DEF WaitInv, CallInv, Logged, Messages, Answers
<1> QED
    BY <1>1, <1>2, <1>3, <1>4, <1>5

\* The event is the last of the queue, as its write was of the writes.
LEMMA ProduceKeeps ==
    ASSUME TopicInv, NEW c \in Clients, Produce(c)
    PROVE  TopicInv'
<1>0. TopicTyped /\ CallInv /\ SaidInv /\ OrderInv /\ WaitInv
    BY DEF TopicInv
<1>1. /\ pc[c] = "announce" /\ own[c] = "empty" /\ ans[c] = "none" /\ event[c] <= written
      /\ event[c] = 0 => cfg.sendDryRun
      /\ UNCHANGED <<cfg, opts, event, own, written, reports, log>>
    BY <1>0 DEF Produce, CallInv, busVars
<1>2. /\ \A i \in DOMAIN queue : i \in Nat /\ queue[i] \in Messages /\ queue[i].call \in Int /\ queue[i].from \in Clients
      /\ \A i \in DOMAIN reports : reports[i].from \in Clients
      /\ \A p \in Partitions : \A i \in DOMAIN log[p] : log[p][i] \in Int
    BY <1>0, WhatTheyAre
\* librdkafka refuses the message ...
<1>3. CASE Reply(c, "error") /\ UNCHANGED queue
    <2>1. TopicTyped'
        BY <1>0, <1>1, <1>3 DEF TopicTyped, Reply
    <2>2. /\ pc'[c] = "idle" /\ ans'[c] = "error"
          /\ \A d \in Clients : d # c => pc'[d] = pc[d] /\ ans'[d] = ans[d]
        BY <1>0, <1>3 DEF TopicTyped, Reply
    <2>3. CallInv'
        BY <2>2, <1>0, <1>1 DEF CallInv
    <2>4. SaidInv' /\ OrderInv'
        BY <2>2, <1>0, <1>1, <1>3 DEF SaidInv, EventMeansWrite, OrderInv, EventsOrdered, InProgress
    <2>5. WaitInv'
        BY <2>2, <1>0, <1>1, <1>2, <1>3 DEF WaitInv, Logged
    <2> QED
        BY <2>1, <2>3, <2>4, <2>5 DEF TopicInv
\* ... or takes it.
<1>4. ASSUME NEW p \in Partitions,
             queue' = Append(queue, [from |-> c, call |-> event[c], at |-> p, via |-> Channel]),
             IF cfg.wait THEN Goto(c, "wait") ELSE Reply(c, "nil")
      PROVE  TopicInv'
    <2> DEFINE m == [from |-> c, call |-> event[c], at |-> p, via |-> Channel]
    <2>1. m \in Messages
        BY <1>0 DEF Messages, Channel, TopicTyped
    <2>2. queue \in Seq(Messages)
        BY <1>0 DEF TopicTyped
    <2>3. /\ queue' \in Seq(Messages)
          /\ \A i \in DOMAIN queue' : \/ i \in DOMAIN queue /\ queue'[i] = queue[i] /\ i < Len(queue) + 1
                                      \/ i = Len(queue) + 1 /\ queue'[i] = m
        BY <2>1, <2>2, <1>4, Appended
    <2> HIDE DEF m
    <2>4. m.from = c /\ m.call = event[c] /\ event[c] \in Int /\ (m.via = "own" => cfg.wait)
        BY <1>0 DEF m, Channel, TopicTyped
    <2>5. /\ pc'[c] = IF cfg.wait THEN "wait" ELSE "idle"
          /\ ans'[c] = IF cfg.wait THEN "none" ELSE "nil"
          /\ \A d \in Clients : d # c => pc'[d] = pc[d] /\ ans'[d] = ans[d]
        BY <1>0, <1>1, <1>4 DEF TopicTyped, Goto, Reply
    <2>6. TopicTyped'
        <3>1. pc' \in [Clients -> {"idle", "store", "announce", "wait", "forward"}]
            BY <1>0, <1>4 DEF TopicTyped, Goto, Reply
        <3>2. ans' \in [Clients -> {"none", "nil", "error"}]
            BY <1>0, <1>4 DEF TopicTyped, Goto, Reply
        <3> QED
            BY <3>1, <3>2, <2>3, <1>0, <1>1 DEF TopicTyped
    <2>7. CallInv'
        BY <2>5, <1>0, <1>1 DEF CallInv
    <2>8. SaidInv'
        BY <2>3, <2>4, <1>0, <1>1 DEF SaidInv, EventMeansWrite
    <2>9. OrderInv'
        <3> SUFFICES ASSUME cfg.locked PROVE OrderInv'
            BY <1>1 DEF OrderInv
        <3>1. /\ \A d \in Clients : InProgress(d) => d = c
              /\ event[c] > 0 => /\ \A i \in DOMAIN queue : queue[i].call < event[c]
                                 /\ \A q \in Partitions : \A i \in DOMAIN log[q] : log[q][i] < event[c]
            BY <1>0, <1>1 DEF OrderInv, InProgress
        <3>2. \A d \in Clients : pc'[d] # "idle" => d = c
            BY <3>1, <2>5 DEF InProgress
        <3>3. \A i, j \in DOMAIN queue' :
                 i < j /\ queue'[i].call > 0 /\ queue'[j].call > 0 => queue'[i].call < queue'[j].call
            BY <3>1, <2>3, <2>4, <1>0, <1>2 DEF OrderInv
        <3>4. \A q \in Partitions : \A i \in DOMAIN log[q] : \A j \in DOMAIN queue' :
                 log[q][i] > 0 /\ queue'[j].call > 0 => log[q][i] < queue'[j].call
            BY <3>1, <2>3, <2>4, <1>0 DEF OrderInv
        <3>5. \A d \in Clients : pc'[d] # "announce"
            BY <3>2, <2>5
        <3> QED
            BY <3>2, <3>3, <3>4, <3>5, <1>0, <1>1 DEF OrderInv, EventsOrdered, InProgress
    <2>10. WaitInv'
        <3>1. \A i \in DOMAIN queue : queue[i].via = "own" => queue[i].from # c
            BY <1>0, <1>1 DEF WaitInv
        <3>2. \A i \in DOMAIN reports : reports[i].via = "own" => reports[i].from # c
            BY <1>0, <1>1 DEF WaitInv
        <3>3. \A i \in DOMAIN queue' : queue'[i].via = "own" =>
                 /\ pc'[queue'[i].from] = "wait" /\ own[queue'[i].from] = "empty"
                 /\ queue'[i].call = event[queue'[i].from]
            BY <3>1, <2>3, <2>4, <2>5, <1>0, <1>1, <1>2 DEF WaitInv
        <3>4. \A i \in DOMAIN reports : reports[i].via = "own" =>
                 /\ pc'[reports[i].from] = "wait" /\ own[reports[i].from] = "empty"
                 /\ reports[i].ok => Logged(log, event[reports[i].from])
            BY <3>2, <2>5, <1>0, <1>2 DEF WaitInv
        <3>5. \A i, j \in DOMAIN queue' :
                 queue'[i].via = "own" /\ queue'[j].via = "own" /\ queue'[i].from = queue'[j].from => i = j
            BY <3>1, <2>3, <2>4, <1>0 DEF WaitInv
        <3>6. \A i \in DOMAIN queue', j \in DOMAIN reports :
                 ~(queue'[i].via = "own" /\ reports[j].via = "own" /\ queue'[i].from = reports[j].from)
            BY <3>2, <2>3, <2>4, <1>0 DEF WaitInv
        <3>7. \A d \in Clients :
                 /\ pc'[d] = "wait" /\ own[d] = "ok" => Logged(log, event[d])
                 /\ pc'[d] = "forward" => Logged(log, event[d])
                 /\ cfg.wait /\ ans'[d] = "nil" /\ event[d] > 0 => Logged(log, event[d])
            BY <2>5, <1>0, <1>1 DEF WaitInv
        <3> QED
            BY <3>3, <3>4, <3>5, <3>6, <3>7, <1>0, <1>1 DEF WaitInv, Logged
    <2> QED
        BY <2>6, <2>7, <2>8, <2>9, <2>10 DEF TopicInv
<1> QED
    BY <1>3, <1>4 DEF Produce

LEMMA ReceivedKeeps ==
    ASSUME TopicInv, NEW c \in Clients, Received(c)
    PROVE  TopicInv'
<1>0. TopicTyped /\ CallInv /\ SaidInv /\ OrderInv /\ WaitInv
    BY DEF TopicInv
<1>1. /\ pc[c] = "wait" /\ ans[c] = "none" /\ own[c] \in {"ok", "failed"}
      /\ UNCHANGED <<cfg, opts, event, own, written, queue, reports, log>>
    BY <1>0 DEF Received, CallInv, busVars, TopicTyped
<1>2. /\ \A i \in DOMAIN queue : queue[i].from \in Clients
      /\ \A i \in DOMAIN reports : reports[i].from \in Clients
    BY <1>0, WhatTheyAre
<1>3. /\ pc'[c] \in {"idle", "forward"} /\ (pc'[c] # "idle" => ans'[c] = "none")
      /\ pc'[c] = "forward" \/ ans'[c] = "nil" => own[c] = "ok"
      /\ \A d \in Clients : d # c => pc'[d] = pc[d] /\ ans'[d] = ans[d]
    BY <1>0, <1>1 DEF Received, Goto, Reply, TopicTyped
<1>4. TopicTyped'
    <2>1. pc' \in [Clients -> {"idle", "store", "announce", "wait", "forward"}]
        BY <1>0 DEF Received, TopicTyped, Goto, Reply
    <2>2. ans' \in [Clients -> {"none", "nil", "error"}]
        BY <1>0 DEF Received, TopicTyped, Goto, Reply
    <2> QED
        BY <2>1, <2>2, <1>0, <1>1 DEF TopicTyped
<1>5. CallInv'
    BY <1>0, <1>1, <1>3 DEF CallInv
<1>6. SaidInv' /\ OrderInv'
    BY <1>0, <1>1, <1>3 DEF SaidInv, EventMeansWrite, OrderInv, EventsOrdered, InProgress
<1>7. WaitInv'
    BY <1>0, <1>1, <1>2, <1>3 DEF WaitInv, Logged
<1> QED
    BY <1>4, <1>5, <1>6, <1>7 DEF TopicInv

LEMMA ForwardKeeps ==
    ASSUME TopicInv, NEW c \in Clients, Forward(c)
    PROVE  TopicInv'
<1>0. TopicTyped /\ CallInv /\ SaidInv /\ OrderInv /\ WaitInv
    BY DEF TopicInv
<1>1. /\ pc[c] = "forward"
      /\ UNCHANGED <<cfg, opts, event, own, written, queue, reports, log>>
    BY DEF Forward
<1>2. /\ \A i \in DOMAIN queue : queue[i].from \in Clients
      /\ \A i \in DOMAIN reports : reports[i].from \in Clients
    BY <1>0, WhatTheyAre
<1>3. /\ pc'[c] = "idle"
      /\ \A d \in Clients : d # c => pc'[d] = pc[d] /\ ans'[d] = ans[d]
    BY <1>0 DEF Forward, Reply, TopicTyped
<1>4. TopicTyped'
    BY <1>0, <1>1 DEF Forward, Reply, TopicTyped
<1>5. CallInv'
    BY <1>0, <1>1, <1>3 DEF CallInv
<1>6. SaidInv' /\ OrderInv'
    BY <1>0, <1>1, <1>3 DEF SaidInv, EventMeansWrite, OrderInv, EventsOrdered, InProgress
<1>7. WaitInv'
    BY <1>0, <1>1, <1>2, <1>3 DEF WaitInv, Logged
<1> QED
    BY <1>4, <1>5, <1>6, <1>7 DEF TopicInv

\* Nobody waits any more for the message that is left behind.
LEMMA WaitTimeoutKeeps ==
    ASSUME TopicInv, NEW c \in Clients, WaitTimeout(c)
    PROVE  TopicInv'
<1>0. TopicTyped /\ CallInv /\ SaidInv /\ OrderInv /\ WaitInv
    BY DEF TopicInv
<1>1. /\ pc[c] = "wait"
      /\ UNCHANGED <<cfg, opts, event, own, written, log>>
    BY DEF WaitTimeout
<1>2. /\ \A i \in DOMAIN queue : queue[i].from \in Clients
      /\ \A i \in DOMAIN reports : reports[i].from \in Clients
    BY <1>0, WhatTheyAre
<1>3. /\ pc'[c] = "idle" /\ ans'[c] = "error"
      /\ \A d \in Clients : d # c => pc'[d] = pc[d] /\ ans'[d] = ans[d]
    BY <1>0 DEF WaitTimeout, Reply, TopicTyped
<1>4. /\ queue' \in Seq(Messages) /\ DOMAIN queue' = DOMAIN queue
      /\ \A i \in DOMAIN queue : /\ queue'[i].call = queue[i].call /\ queue'[i].from = queue[i].from
                                 /\ queue'[i].via = "own" => queue[i].via = "own" /\ queue[i].from # c
    BY <1>0, UnheardMessages DEF WaitTimeout, TopicTyped
<1>5. /\ reports' \in Seq(Answers) /\ DOMAIN reports' = DOMAIN reports
      /\ \A i \in DOMAIN reports : /\ reports'[i].ok = reports[i].ok /\ reports'[i].from = reports[i].from
                                   /\ reports'[i].via = "own" => reports[i].via = "own" /\ reports[i].from # c
    BY <1>0, UnheardAnswers DEF WaitTimeout, TopicTyped
<1>6. TopicTyped'
    <2>1. pc' \in [Clients -> {"idle", "store", "announce", "wait", "forward"}]
        BY <1>0 DEF WaitTimeout, TopicTyped, Reply
    <2>2. ans' \in [Clients -> {"none", "nil", "error"}]
        BY <1>0 DEF WaitTimeout, TopicTyped, Reply
    <2> QED
        BY <2>1, <2>2, <1>0, <1>1, <1>4, <1>5 DEF TopicTyped
<1>7. CallInv'
    BY <1>0, <1>1, <1>3 DEF CallInv
<1>8. SaidInv' /\ OrderInv'
    BY <1>0, <1>1, <1>3, <1>4 DEF SaidInv, EventMeansWrite, OrderInv, EventsOrdered, InProgress
<1>9. WaitInv'
    <2>1. /\ \A i \in DOMAIN queue' : queue'[i].via = "own" =>
                /\ pc'[queue'[i].from] = "wait" /\ own[queue'[i].from] = "empty"
                /\ queue'[i].call = event[queue'[i].from]
          /\ \A i, j \in DOMAIN queue' :
                queue'[i].via = "own" /\ queue'[j].via = "own" /\ queue'[i].from = queue'[j].from => i = j
        BY <1>0, <1>2, <1>3, <1>4 DEF WaitInv
    <2>2. /\ \A i \in DOMAIN reports' : reports'[i].via = "own" =>
                /\ pc'[reports'[i].from] = "wait" /\ own[reports'[i].from] = "empty"
                /\ reports'[i].ok => Logged(log, event[reports'[i].from])
          /\ \A i, j \in DOMAIN reports' :
                reports'[i].via = "own" /\ reports'[j].via = "own" /\ reports'[i].from = reports'[j].from => i = j
        BY <1>0, <1>2, <1>3, <1>5 DEF WaitInv
    <2>3. \A i \in DOMAIN queue', j \in DOMAIN reports' :
             ~(queue'[i].via = "own" /\ reports'[j].via = "own" /\ queue'[i].from = reports'[j].from)
        BY <1>0, <1>4, <1>5 DEF WaitInv
    <2>4. \A d \in Clients :
             /\ pc'[d] = "wait" /\ own[d] = "ok" => Logged(log, event[d])
             /\ pc'[d] = "forward" => Logged(log, event[d])
             /\ cfg.wait /\ ans'[d] = "nil" /\ event[d] > 0 => Logged(log, event[d])
        BY <1>0, <1>3 DEF WaitInv
    <2> QED
        BY <2>1, <2>2, <2>3, <2>4, <1>1 DEF WaitInv, Logged
<1> QED
    BY <1>6, <1>7, <1>8, <1>9 DEF TopicInv

\* The oldest message of the queue is, if it is written, the last of the topic.
LEMMA TransmitKeeps ==
    ASSUME TopicInv, Transmit
    PROVE  TopicInv'
<1>0. TopicTyped /\ CallInv /\ SaidInv /\ OrderInv /\ WaitInv
    BY DEF TopicInv
<1>1. UNCHANGED <<cfg, pc, opts, event, own, ans, written>>
    BY DEF Transmit, callVars
<1>m. PICK m : m = Head(queue)
    OBVIOUS
<1>2. PICK ok \in BOOLEAN :
         /\ \/ log' = [log EXCEPT ![m.at] = Append(@, m.call)]
            \/ ~ok /\ log' = log
         /\ reports' = Append(reports, [from |-> m.from, via |-> m.via, ok |-> ok])
    BY <1>m DEF Transmit
<1>r. PICK r : r = [from |-> m.from, via |-> m.via, ok |-> ok]
    OBVIOUS
<1>3. queue # <<>> /\ queue' = Tail(queue) /\ queue \in Seq(Messages) /\ reports \in Seq(Answers)
    BY <1>0 DEF Transmit, TopicTyped
<1>4. /\ m = queue[1] /\ m \in Messages /\ 1 \in DOMAIN queue
      /\ queue' \in Seq(Messages)
      /\ \A i \in DOMAIN queue' : i \in Nat /\ i + 1 \in DOMAIN queue /\ queue'[i] = queue[i + 1] /\ i + 1 > 1
    BY <1>3, <1>m, Rest
<1>5. r \in Answers
    BY <1>4, <1>r DEF Messages, Answers
<1>6. /\ reports' \in Seq(Answers)
      /\ \A i \in DOMAIN reports' : \/ i \in DOMAIN reports /\ reports'[i] = reports[i]
                                    \/ i = Len(reports) + 1 /\ reports'[i] = r
    BY <1>2, <1>3, <1>5, <1>r, Appended
<1>7. m.at \in Partitions /\ m.call \in Int /\ m.from \in Clients
    BY <1>4 DEF Messages
<1>8. r.from = m.from /\ r.via = m.via /\ r.ok = ok
    BY <1>r
<1>9. log[m.at] \in Seq(Int)
    BY <1>0, <1>7 DEF TopicTyped
<1>10. /\ log' \in [Partitions -> Seq(Int)]
       /\ \A p \in Partitions : \A i \in DOMAIN log[p] : i \in DOMAIN log'[p] /\ log'[p][i] = log[p][i]
       /\ \A p \in Partitions : \A i \in DOMAIN log'[p] :
             \/ i \in DOMAIN log[p] /\ log'[p][i] = log[p][i]
             \/ p = m.at /\ i = Len(log[p]) + 1 /\ log'[p][i] = m.call
       /\ ok => \E i \in DOMAIN log'[m.at] : log'[m.at][i] = m.call
    <2>1. CASE log' = [log EXCEPT ![m.at] = Append(@, m.call)]
        <3>1. log'[m.at] = Append(log[m.at], m.call) /\ \A p \in Partitions : p # m.at => log'[p] = log[p]
            BY <2>1, <1>0, <1>7 DEF TopicTyped
        <3>2. /\ Append(log[m.at], m.call) \in Seq(Int)
              /\ \A i \in DOMAIN log[m.at] : i \in DOMAIN log'[m.at] /\ log'[m.at][i] = log[m.at][i]
              /\ \A i \in DOMAIN log'[m.at] : \/ i \in DOMAIN log[m.at] /\ log'[m.at][i] = log[m.at][i]
                                              \/ i = Len(log[m.at]) + 1 /\ log'[m.at][i] = m.call
              /\ Len(log[m.at]) + 1 \in DOMAIN log'[m.at] /\ log'[m.at][Len(log[m.at]) + 1] = m.call
            BY <3>1, <1>7, <1>9, Appended
        <3>3. log' \in [Partitions -> Seq(Int)]
            BY <2>1, <3>2, <1>0 DEF TopicTyped
        <3>4. \A p \in Partitions : \A i \in DOMAIN log[p] : i \in DOMAIN log'[p] /\ log'[p][i] = log[p][i]
            BY <3>1, <3>2
        <3>5. \A p \in Partitions : \A i \in DOMAIN log'[p] :
                 \/ i \in DOMAIN log[p] /\ log'[p][i] = log[p][i]
                 \/ p = m.at /\ i = Len(log[p]) + 1 /\ log'[p][i] = m.call
            BY <3>1, <3>2
        <3>6. \E i \in DOMAIN log'[m.at] : log'[m.at][i] = m.call
            BY <3>2
        <3> QED
            BY <3>3, <3>4, <3>5, <3>6
    <2>2. CASE ~ok /\ log' = log
        BY <2>2, <1>0 DEF TopicTyped
    <2> QED
        BY <2>1, <2>2, <1>2
<1>12. /\ \A i \in DOMAIN queue : queue[i].call \in Int /\ queue[i].from \in Clients
       /\ \A i \in DOMAIN reports : reports[i].from \in Clients
       /\ \A p \in Partitions : \A i \in DOMAIN log[p] : i \in Nat /\ log[p][i] \in Int /\ i < Len(log[p]) + 1
    <2>1. ASSUME NEW p \in Partitions, NEW i \in DOMAIN log[p] PROVE i < Len(log[p]) + 1
        <3>1. log[p] \in Seq(Int)
            BY <1>0 DEF TopicTyped
        <3> QED
            BY <3>1
    <2> QED
        BY <2>1, <1>0, WhatTheyAre
<1>13. TopicTyped'
    BY <1>0, <1>1, <1>4, <1>6, <1>10 DEF TopicTyped
<1>14. CallInv'
    BY <1>0, <1>1 DEF CallInv
<1>15. SaidInv'
    BY <1>0, <1>1, <1>4, <1>10 DEF SaidInv, EventMeansWrite
<1>16. OrderInv'
    <2> SUFFICES ASSUME cfg.locked PROVE OrderInv'
        BY <1>1 DEF OrderInv
    <2>1. ASSUME NEW i \in DOMAIN queue', NEW j \in DOMAIN queue',
                 i < j, queue'[i].call > 0, queue'[j].call > 0
          PROVE  queue'[i].call < queue'[j].call
        <3>1. i + 1 < j + 1
            BY <2>1, <1>4
        <3> QED
            BY <3>1, <2>1, <1>0, <1>4 DEF OrderInv
    <2>2. \A i \in DOMAIN queue' : m.call > 0 /\ queue'[i].call > 0 => m.call < queue'[i].call
        BY <1>0, <1>4 DEF OrderInv
    <2>3. \A p \in Partitions : \A i \in DOMAIN log[p] : log[p][i] > 0 /\ m.call > 0 => log[p][i] < m.call
        BY <1>0, <1>4 DEF OrderInv
    <2>4. ASSUME NEW p \in Partitions, NEW i \in DOMAIN log'[p], NEW j \in DOMAIN queue',
                 log'[p][i] > 0, queue'[j].call > 0
          PROVE  log'[p][i] < queue'[j].call
        <3>1. i \in DOMAIN log[p] /\ log[p][i] > 0 => log[p][i] < queue'[j].call
            BY <2>4, <1>0, <1>4 DEF OrderInv
        <3> QED
            BY <3>1, <2>2, <2>4, <1>10
    <2>5. \A d \in Clients : pc[d] = "announce" /\ event[d] > 0 =>
             /\ \A i \in DOMAIN queue' : queue'[i].call < event[d]
             /\ \A p \in Partitions : \A i \in DOMAIN log'[p] : log'[p][i] < event[d]
        <3> SUFFICES ASSUME NEW d \in Clients, pc[d] = "announce", event[d] > 0
                     PROVE  /\ \A i \in DOMAIN queue' : queue'[i].call < event[d]
                            /\ \A p \in Partitions : \A i \in DOMAIN log'[p] : log'[p][i] < event[d]
            OBVIOUS
        <3>1. /\ \A i \in DOMAIN queue : queue[i].call < event[d]
              /\ \A p \in Partitions : \A i \in DOMAIN log[p] : log[p][i] < event[d]
            BY <1>0 DEF OrderInv
        <3>2. m.call < event[d]
            BY <3>1, <1>4
        <3> QED
            BY <3>1, <3>2, <1>4, <1>10
    <2>6. ASSUME NEW p \in Partitions, NEW i \in DOMAIN log'[p], NEW j \in DOMAIN log'[p],
                 i < j, log'[p][i] > 0, log'[p][j] > 0
          PROVE  log'[p][i] < log'[p][j]
        <3>1. CASE j \in DOMAIN log[p] /\ log'[p][j] = log[p][j]
            <4>1. i \in DOMAIN log[p] /\ log'[p][i] = log[p][i]
                <5>1. i # Len(log[p]) + 1
                    BY <3>1, <2>6, <1>0, <1>12 DEF TopicTyped
                <5> QED
                    BY <5>1, <1>10
            <4> QED
                BY <4>1, <3>1, <2>6, <1>0 DEF OrderInv, EventsOrdered
        <3>2. CASE j = Len(log[p]) + 1 /\ log'[p][j] = m.call
            <4>1. i \in DOMAIN log[p] /\ log'[p][i] = log[p][i]
                <5>1. Len(log[p]) \in Nat
                    BY <1>0 DEF TopicTyped
                <5> QED
                    BY <5>1, <3>2, <2>6, <1>10
            <4> QED
                BY <4>1, <3>2, <2>3, <2>6
        <3> QED
            BY <3>1, <3>2, <1>10
    <2> QED
        BY <2>1, <2>4, <2>5, <2>6, <1>0, <1>1 DEF OrderInv, EventsOrdered, InProgress
<1>17. WaitInv'
    <2>1. m.via = "own" => /\ pc[m.from] = "wait" /\ own[m.from] = "empty" /\ m.call = event[m.from]
                           /\ \A i \in DOMAIN queue' : queue'[i].via = "own" => queue'[i].from # m.from
                           /\ \A i \in DOMAIN reports : reports[i].via = "own" => reports[i].from # m.from
        BY <1>0, <1>4 DEF WaitInv
    <2>2. \A i \in DOMAIN queue' : queue'[i].via = "own" =>
             /\ pc[queue'[i].from] = "wait" /\ own[queue'[i].from] = "empty"
             /\ queue'[i].call = event[queue'[i].from]
        BY <1>0, <1>4 DEF WaitInv
    <2>3. \A i \in DOMAIN reports' : reports'[i].via = "own" =>
             /\ pc[reports'[i].from] = "wait" /\ own[reports'[i].from] = "empty"
             /\ reports'[i].ok => Logged(log', event[reports'[i].from])
        <3>1. m.via = "own" /\ ok => Logged(log', event[m.from])
            BY <2>1, <1>1, <1>7, <1>10 DEF Logged
        <3> QED
            <4> SUFFICES ASSUME NEW i \in DOMAIN reports', reports'[i].via = "own"
                         PROVE  /\ pc[reports'[i].from] = "wait" /\ own[reports'[i].from] = "empty"
                                /\ reports'[i].ok => Logged(log', event[reports'[i].from])
                OBVIOUS
            <4>1. CASE i \in DOMAIN reports /\ reports'[i] = reports[i]
                <5>1. /\ pc[reports[i].from] = "wait" /\ own[reports[i].from] = "empty"
                      /\ reports[i].ok => Logged(log, event[reports[i].from])
                    BY <4>1, <1>0 DEF WaitInv
                <5>2. reports[i].ok => Logged(log', event[reports[i].from])
                    BY <5>1, <1>1, <1>10 DEF Logged
                <5> QED
                    BY <4>1, <5>1, <5>2, <1>1
            <4>2. CASE reports'[i] = r
                BY <4>2, <3>1, <2>1, <1>1, <1>8
            <4> QED
                BY <4>1, <4>2, <1>6
    <2>4. \A i, j \in DOMAIN queue' :
             queue'[i].via = "own" /\ queue'[j].via = "own" /\ queue'[i].from = queue'[j].from => i = j
        BY <1>0, <1>4 DEF WaitInv
    <2>5. \A i, j \in DOMAIN reports' :
             reports'[i].via = "own" /\ reports'[j].via = "own" /\ reports'[i].from = reports'[j].from => i = j
        BY <2>1, <1>0, <1>6, <1>8 DEF WaitInv
    <2>6. \A i \in DOMAIN queue', j \in DOMAIN reports' :
             ~(queue'[i].via = "own" /\ reports'[j].via = "own" /\ queue'[i].from = reports'[j].from)
        BY <2>1, <1>0, <1>4, <1>6, <1>8 DEF WaitInv
    <2>7. \A d \in Clients :
             /\ pc[d] = "wait" /\ own[d] = "ok" => Logged(log', event[d])
             /\ pc[d] = "forward" => Logged(log', event[d])
             /\ cfg.wait /\ ans[d] = "nil" /\ event[d] > 0 => Logged(log', event[d])
        <3>1. \A d \in Clients : Logged(log, event[d]) => Logged(log', event[d])
            BY <1>1, <1>10 DEF Logged
        <3> QED
            BY <3>1, <1>0 DEF WaitInv
    <2> QED
        BY <2>2, <2>3, <2>4, <2>5, <2>6, <2>7, <1>1 DEF WaitInv
<1> QED
    BY <1>13, <1>14, <1>15, <1>16, <1>17 DEF TopicInv

\* The report comes to the channel it belongs to.
LEMMA ReportKeeps ==
    ASSUME TopicInv, Report
    PROVE  TopicInv'
<1>0. TopicTyped /\ CallInv /\ SaidInv /\ OrderInv /\ WaitInv
    BY DEF TopicInv
<1>1. UNCHANGED <<cfg, pc, opts, event, ans, written, queue, log>>
    BY DEF Report
<1>2. reports # <<>> /\ reports' = Tail(reports) /\ reports \in Seq(Answers)
    BY <1>0 DEF Report, TopicTyped
<1>3. PICK r : r = Head(reports)
    OBVIOUS
<1>4. /\ r = reports[1] /\ r \in Answers /\ 1 \in DOMAIN reports
      /\ reports' \in Seq(Answers)
      /\ \A i \in DOMAIN reports' : i \in Nat /\ i + 1 \in DOMAIN reports /\ reports'[i] = reports[i + 1] /\ i + 1 > 1
    BY <1>2, <1>3, Rest
<1>5. r.from \in Clients /\ r.ok \in BOOLEAN
    BY <1>4 DEF Answers
<1>6. own' = IF r.via = "own" THEN [own EXCEPT ![r.from] = IF r.ok THEN "ok" ELSE "failed"] ELSE own
    BY <1>3 DEF Report
<1>7. /\ \A i \in DOMAIN queue : queue[i].from \in Clients
      /\ \A i \in DOMAIN reports : reports[i].from \in Clients
    BY <1>0, WhatTheyAre
<1>8. r.via = "own" => /\ pc[r.from] = "wait"
                       /\ r.ok => Logged(log, event[r.from])
                       /\ \A i \in DOMAIN queue : queue[i].via = "own" => queue[i].from # r.from
                       /\ \A i \in DOMAIN reports' : reports'[i].via = "own" => reports'[i].from # r.from
    BY <1>0, <1>4 DEF WaitInv
<1>9. \A d \in Clients : own'[d] = own[d] \/ (r.via = "own" /\ d = r.from /\ (own'[d] = "ok" => r.ok))
    BY <1>0, <1>5, <1>6 DEF TopicTyped
<1>10. TopicTyped'
    BY <1>0, <1>1, <1>4, <1>5, <1>6 DEF TopicTyped
<1>11. CallInv'
    BY <1>0, <1>1, <1>8, <1>9 DEF CallInv
<1>12. SaidInv' /\ OrderInv'
    BY <1>0, <1>1 DEF SaidInv, EventMeansWrite, OrderInv, EventsOrdered, InProgress
<1>13. WaitInv'
    <2>1. \A i \in DOMAIN queue : queue[i].via = "own" =>
             /\ pc[queue[i].from] = "wait" /\ own'[queue[i].from] = "empty"
             /\ queue[i].call = event[queue[i].from]
        BY <1>0, <1>7, <1>8, <1>9 DEF WaitInv
    <2>2. \A i \in DOMAIN reports' : reports'[i].via = "own" =>
             /\ pc[reports'[i].from] = "wait" /\ own'[reports'[i].from] = "empty"
             /\ reports'[i].ok => Logged(log, event[reports'[i].from])
        BY <1>0, <1>4, <1>7, <1>8, <1>9 DEF WaitInv
    <2>3. \A i, j \in DOMAIN reports' :
             reports'[i].via = "own" /\ reports'[j].via = "own" /\ reports'[i].from = reports'[j].from => i = j
        <3> SUFFICES ASSUME NEW i \in DOMAIN reports', NEW j \in DOMAIN reports', reports'[i].via = "own",
                            reports'[j].via = "own", reports'[i].from = reports'[j].from
                     PROVE  i = j
            OBVIOUS
        <3>1. i + 1 = j + 1
            BY <1>0, <1>4 DEF WaitInv
        <3> QED
            BY <3>1, <1>4
    <2>4. \A i \in DOMAIN queue, j \in DOMAIN reports' :
             ~(queue[i].via = "own" /\ reports'[j].via = "own" /\ queue[i].from = reports'[j].from)
        BY <1>0, <1>4 DEF WaitInv
    <2>5. \A d \in Clients :
             /\ pc[d] = "wait" /\ own'[d] = "ok" => Logged(log, event[d])
             /\ pc[d] = "forward" => Logged(log, event[d])
             /\ cfg.wait /\ ans[d] = "nil" /\ event[d] > 0 => Logged(log, event[d])
        BY <1>0, <1>8, <1>9 DEF WaitInv
    <2> QED
        BY <2>1, <2>2, <2>3, <2>4, <2>5, <1>0, <1>1 DEF WaitInv
<1> QED
    BY <1>10, <1>11, <1>12, <1>13 DEF TopicInv

\* What the end drops is not said.
LEMMA CloseClientKeeps ==
    ASSUME TopicInv, CloseClient
    PROVE  TopicInv'
<1>0. TopicTyped /\ CallInv /\ SaidInv /\ OrderInv /\ WaitInv
    BY DEF TopicInv
<1>1. /\ UNCHANGED <<cfg, pc, opts, event, own, ans, written, log>>
      /\ queue' = <<>> /\ reports' = <<>> /\ DOMAIN queue' = {} /\ DOMAIN reports' = {}
    BY DEF CloseClient, callVars
<1>2. TopicTyped'
    BY <1>0, <1>1 DEF TopicTyped
<1>3. CallInv' /\ SaidInv' /\ OrderInv'
    BY <1>0, <1>1 DEF CallInv, SaidInv, EventMeansWrite, OrderInv, EventsOrdered, InProgress
<1>4. WaitInv'
    BY <1>0, <1>1 DEF WaitInv
<1> QED
    BY <1>2, <1>3, <1>4 DEF TopicInv

\* Other programs' messages are no events.
LEMMA ForeignMessageKeeps ==
    ASSUME TopicInv, NEW p \in Partitions, ForeignMessage(p)
    PROVE  TopicInv'
<1>0. TopicTyped /\ CallInv /\ SaidInv /\ OrderInv /\ WaitInv
    BY DEF TopicInv
<1>1. UNCHANGED <<cfg, pc, opts, event, own, ans, written, queue, reports>>
    BY DEF ForeignMessage, callVars
<1>2. PICK m \in {OtherMessage, EmptyMessage} : log' = [log EXCEPT ![p] = Append(@, m)]
    BY DEF ForeignMessage
<1>3. m \in Int /\ m < 0 /\ log[p] \in Seq(Int)
    BY <1>0 DEF OtherMessage, EmptyMessage, TopicTyped
<1>4. log'[p] = Append(log[p], m) /\ \A q \in Partitions : q # p => log'[q] = log[q]
    BY <1>0, <1>2 DEF TopicTyped
<1>5. /\ log'[p] \in Seq(Int)
      /\ \A i \in DOMAIN log[p] : i \in DOMAIN log'[p] /\ log'[p][i] = log[p][i]
      /\ \A i \in DOMAIN log'[p] : (i \in DOMAIN log[p] /\ log'[p][i] = log[p][i]) \/ log'[p][i] = m
    BY <1>3, <1>4, Appended
<1>6. /\ log' \in [Partitions -> Seq(Int)]
      /\ \A q \in Partitions : \A i \in DOMAIN log[q] : i \in DOMAIN log'[q] /\ log'[q][i] = log[q][i]
      /\ \A q \in Partitions : \A i \in DOMAIN log'[q] :
            (i \in DOMAIN log[q] /\ log'[q][i] = log[q][i]) \/ log'[q][i] < 0
    <2>1. log' \in [Partitions -> Seq(Int)]
        BY <1>0, <1>2, <1>4, <1>5 DEF TopicTyped
    <2> QED
        BY <2>1, <1>3, <1>4, <1>5
<1>7. \A e : Logged(log, e) => Logged(log', e)
    BY <1>6 DEF Logged
<1>8. TopicTyped'
    BY <1>0, <1>1, <1>6 DEF TopicTyped
<1>9. CallInv'
    BY <1>0, <1>1 DEF CallInv
<1>10. SaidInv'
    <2>1. \A q \in Partitions : \A i \in DOMAIN log'[q] : log'[q][i] \in Int
        BY <1>6
    <2>2. written \in Nat
        BY <1>0 DEF TopicTyped
    <2> QED
        BY <2>1, <2>2, <1>0, <1>1, <1>6 DEF SaidInv, EventMeansWrite
<1>11. OrderInv'
    <2>1. \A q \in Partitions : \A i \in DOMAIN log'[q] :
             log'[q][i] \in Int /\ (log'[q][i] > 0 => i \in DOMAIN log[q] /\ log'[q][i] = log[q][i])
        <3>1. \A q \in Partitions : \A i \in DOMAIN log'[q] : log'[q][i] \in Int
            BY <1>6
        <3> QED
            BY <3>1, <1>6
    <2>2. \A d \in Clients : event[d] \in Int
        BY <1>0 DEF TopicTyped
    <2>3. ASSUME cfg.locked, NEW d \in Clients, pc[d] = "announce", event[d] > 0,
                 NEW q \in Partitions, NEW i \in DOMAIN log'[q]
          PROVE  log'[q][i] < event[d]
        BY <2>1, <2>2, <2>3, <1>0 DEF OrderInv
    <2>4. cfg.locked => \A q \in Partitions : \A i \in DOMAIN log'[q] : \A j \in DOMAIN queue :
             log'[q][i] > 0 /\ queue[j].call > 0 => log'[q][i] < queue[j].call
        BY <2>1, <1>0 DEF OrderInv
    <2>5. cfg.locked => \A q \in Partitions : \A i, j \in DOMAIN log'[q] :
             i < j /\ log'[q][i] > 0 /\ log'[q][j] > 0 => log'[q][i] < log'[q][j]
        BY <2>1, <1>0 DEF OrderInv, EventsOrdered
    <2> QED
        BY <2>3, <2>4, <2>5, <1>0, <1>1 DEF OrderInv, EventsOrdered, InProgress
<1>12. WaitInv'
    BY <1>0, <1>1, <1>7 DEF WaitInv
<1> QED
    BY <1>8, <1>9, <1>10, <1>11, <1>12 DEF TopicInv

topicVars == <<cfg, pc, opts, event, own, ans, written, queue, reports, log>>

LEMMA TopicStutters ==
    ASSUME TopicInv, UNCHANGED topicVars
    PROVE  TopicInv'
<1>1. TopicTyped' /\ CallInv' /\ SaidInv'
    BY DEF TopicInv, topicVars, TopicTyped, CallInv, SaidInv, EventMeansWrite
<1>2. OrderInv'
    BY DEF TopicInv, topicVars, OrderInv, EventsOrdered, InProgress
<1>3. WaitInv'
    BY DEF TopicInv, topicVars, WaitInv
<1> QED
    BY <1>1, <1>2, <1>3 DEF TopicInv

LEMMA TopicStep == TopicInv /\ [Next]_vars => TopicInv'
<1> SUFFICES ASSUME TopicInv, [Next]_vars PROVE TopicInv'
    OBVIOUS
<1>1. ASSUME NEW c \in Clients, Invoke(c) \/ StoreCall(c) \/ Silent(c) \/ Produce(c) PROVE TopicInv'
    BY <1>1, InvokeKeeps, StoreCallKeeps, SilentKeeps, ProduceKeeps
<1>2. ASSUME NEW c \in Clients, Received(c) \/ Forward(c) \/ WaitTimeout(c) PROVE TopicInv'
    BY <1>2, ReceivedKeeps, ForwardKeeps, WaitTimeoutKeeps
<1>3. CASE Transmit \/ Report \/ CloseClient
    BY <1>3, TransmitKeeps, ReportKeeps, CloseClientKeeps
<1>4. ASSUME NEW p \in Partitions, ForeignMessage(p) PROVE TopicInv'
    BY <1>4, ForeignMessageKeeps
<1>5. CASE ReadReport \/ StopMonitor \/ Close \/ CloseDelivery
    <2>1. UNCHANGED topicVars
        BY <1>5 DEF ReadReport, StopMonitor, Close, CloseDelivery, callVars, busVars, topicVars
    <2> QED
        BY <2>1, TopicStutters
<1>6. CASE UNCHANGED storeVars
    <2>1. UNCHANGED topicVars
        BY <1>6 DEF storeVars, callVars, busVars, topicVars
    <2> QED
        BY <2>1, TopicStutters
<1> QED
    BY <1>1, <1>2, <1>3, <1>4, <1>5, <1>6 DEF Next, vars

\* The events of a store: under the lock of threadsafe they come in the order
\* of its writes, none is of a write it has not taken, and a write that waited
\* for its delivery and returned nil is on the topic (kafka.go:61, producer.go:131).
THEOREM TopicIsSound == Spec => []EventsSound
<1>1. TopicInv => EventsSound
    BY DEF TopicInv, TopicTyped, SaidInv, OrderInv, WaitInv, Logged, EventsSound, EventsHonest, NilMeansLogged, EventsOrdered
<1> QED
    BY TopicStarts, TopicStep, <1>1, PTL DEF Spec

-----------------------------------------------------------------------------
(* The end of a producer.                                                   *)

LEMMA EndStep == TopicInv /\ EndInv /\ [Next]_vars => EndInv'
<1> SUFFICES ASSUME TopicInv, EndInv, [Next]_vars PROVE EndInv'
    OBVIOUS
<1>0. pc \in [Clients -> {"idle", "store", "announce", "wait", "forward"}]
    BY DEF TopicInv, TopicTyped
\* No call begins after Close.
<1>1. ASSUME NEW c \in Clients, Invoke(c) PROVE EndInv'
    BY <1>1 DEF EndInv, Invoke, endVars
\* A call that goes on was in progress.
<1>2. ASSUME NEW c \in Clients, pc[c] # "idle", UNCHANGED endVars,
             \A d \in Clients : d # c => pc'[d] = pc[d]
      PROVE  EndInv'
    BY <1>2 DEF EndInv, endVars
<1>3. ASSUME NEW c \in Clients, StoreCall(c) \/ Silent(c) \/ Produce(c) \/ Received(c) \/ WaitTimeout(c)
      PROVE  EndInv'
    <2>1. pc[c] # "idle" /\ UNCHANGED endVars
        BY <1>3 DEF StoreCall, Silent, Produce, Received, WaitTimeout
    <2>2. \E s : pc' = [pc EXCEPT ![c] = s]
        BY <1>3 DEF StoreCall, Silent, Produce, Received, WaitTimeout, Goto, Reply
    <2> QED
        BY <2>1, <2>2, <1>0, <1>2
\* Only it can find the channel closed, if Close did not wait for it.
<1>4. ASSUME NEW c \in Clients, Forward(c) PROVE EndInv'
    <2>1. pc[c] # "idle" /\ UNCHANGED <<closing, clientUp, chanOpen, early>> /\ panicked' = (panicked \/ ~chanOpen)
        BY <1>4 DEF Forward
    <2>2. \A d \in Clients : pc[d] = "idle" => pc'[d] = "idle"
        BY <1>0, <1>4 DEF Forward, Reply
    <2>3. ~chanOpen => early
        BY <2>1 DEF EndInv
    <2> QED
        BY <2>1, <2>2, <2>3 DEF EndInv
\* The poller ends before the channel is closed.
<1>5. CASE Report
    BY <1>5 DEF Report, EndInv
<1>6. CASE Close
    BY <1>6 DEF Close, EndInv, callVars, InProgress
<1>7. CASE CloseClient \/ CloseDelivery
    BY <1>7 DEF CloseClient, CloseDelivery, EndInv, callVars
<1>8. CASE UNCHANGED <<pc, closing, clientUp, chanOpen, panicked, early>>
    BY <1>8 DEF EndInv
<1>9. ASSUME NEW p \in Partitions, ForeignMessage(p) PROVE EndInv'
    BY <1>9, <1>8 DEF ForeignMessage, callVars, endVars
<1>10. CASE Transmit \/ ReadReport \/ StopMonitor
    BY <1>10, <1>8 DEF Transmit, ReadReport, StopMonitor, callVars, endVars
<1>11. CASE UNCHANGED storeVars
    BY <1>11, <1>8 DEF storeVars, callVars, endVars
<1> QED
    BY <1>1, <1>3, <1>4, <1>5, <1>6, <1>7, <1>9, <1>10, <1>11 DEF Next, vars

\* A panic of the program needs a call in progress when Close is called
\* (producer.go:165, the deferred close of the delivery channel).
THEOREM PanicsOnlyIfClosedEarly == Spec => []PanicOnlyIfClosedEarly
<1>1. Init => EndInv
    BY DEF Init, StoreInit, EndInv
<1>2. EndInv => PanicOnlyIfClosedEarly
    BY DEF EndInv, PanicOnlyIfClosedEarly
<1> QED
    BY TopicStarts, TopicStep, EndStep, <1>1, <1>2, PTL DEF Spec

-----------------------------------------------------------------------------
(* The consumer.                                                            *)

\* The topic only grows.
LEMMA LogGrows ==
    ASSUME TopicTyped, [Next]_vars
    PROVE  \A p \in Partitions : \A o \in 1..Len(log[p]) : o \in 1..Len(log'[p]) /\ log'[p][o] = log[p][o]
<1>1. ASSUME NEW q, NEW e \in Int, q \in Partitions, log' = [log EXCEPT ![q] = Append(@, e)]
      PROVE  \A p \in Partitions : \A o \in 1..Len(log[p]) : o \in 1..Len(log'[p]) /\ log'[p][o] = log[p][o]
    <2>1. log[q] \in Seq(Int) /\ log'[q] = Append(log[q], e) /\ \A p \in Partitions : p # q => log'[p] = log[p]
        BY <1>1 DEF TopicTyped
    <2>2. Len(log'[q]) = Len(log[q]) + 1 /\ Len(log[q]) \in Nat
        BY <2>1
    <2>3. \A o \in 1..Len(log[q]) : log'[q][o] = log[q][o]
        BY <2>1
    <2> QED
        BY <2>1, <2>2, <2>3
<1>2. CASE log' = log
    BY <1>2
<1>3. CASE Transmit
    <2>1. Head(queue) \in Messages
        BY <1>3, Rest DEF Transmit, TopicTyped
    <2>2. Head(queue).at \in Partitions /\ Head(queue).call \in Int
        BY <2>1 DEF Messages
    <2> QED
        BY <1>1, <1>2, <1>3, <2>2 DEF Transmit
<1>4. ASSUME NEW p \in Partitions, ForeignMessage(p) PROVE \E m \in Int : log' = [log EXCEPT ![p] = Append(@, m)]
    <2>1. PICK m \in {OtherMessage, EmptyMessage} : log' = [log EXCEPT ![p] = Append(@, m)]
        BY <1>4 DEF ForeignMessage
    <2>2. m \in Int
        BY DEF OtherMessage, EmptyMessage
    <2> QED
        BY <2>1, <2>2
<1>5. ASSUME NEW c \in Clients, Invoke(c) \/ StoreCall(c) \/ Silent(c) \/ Produce(c) \/ Received(c) \/ Forward(c) \/ WaitTimeout(c)
      PROVE  log' = log
    BY <1>5 DEF Invoke, StoreCall, Silent, Produce, Received, Forward, WaitTimeout, busVars
<1>6. CASE Report \/ ReadReport \/ StopMonitor \/ Close \/ CloseClient \/ CloseDelivery
    BY <1>2, <1>6 DEF Report, ReadReport, StopMonitor, Close, CloseClient, CloseDelivery, busVars
<1>7. CASE UNCHANGED storeVars
    BY <1>2, <1>7 DEF storeVars, busVars
<1> QED
    BY <1>1, <1>2, <1>3, <1>4, <1>5, <1>6, <1>7 DEF Next, vars

LEMMA ConsumerStarts == Init => ConsumerInv
<1> SUFFICES ASSUME Init PROVE ConsumerInv
    OBVIOUS
<1> USE DEF Init, StoreInit, ConsumerInit, Start
<1>1. \A p \in Partitions : log[p] = <<>> /\ Len(log[p]) = 0
    OBVIOUS
<1>2. OffsetsTyped
    BY <1>1 DEF OffsetsTyped
<1>3. AtCur /\ ReportedInv /\ failed \subseteq Partitions \X (Nat \ {0})
    BY DEF AtCur, ReportedInv
<1>4. HandedInv
    BY <1>1 DEF HandedInv
<1> QED
    BY <1>2, <1>3, <1>4 DEF ConsumerInv

\* What others do leaves the consumer where it is.
LEMMA ConsumerWaits ==
    ASSUME TopicTyped, ConsumerInv, UNCHANGED <<step, cur, offsetVars, historyVars>>,
           \A p \in Partitions : \A o \in 1..Len(log[p]) : o \in 1..Len(log'[p]) /\ log'[p][o] = log[p][o],
           log' \in [Partitions -> Seq(Int)]
    PROVE  ConsumerInv'
<1> USE DEF offsetVars, historyVars
<1>0. OffsetsTyped /\ AtCur /\ HandedInv /\ ReportedInv
    BY DEF ConsumerInv
<1>1. \A p \in Partitions : Len(log[p]) \in Nat /\ Len(log'[p]) \in Nat /\ Len(log[p]) <= Len(log'[p])
    <2> SUFFICES ASSUME NEW p \in Partitions
                 PROVE  Len(log[p]) \in Nat /\ Len(log'[p]) \in Nat /\ Len(log[p]) <= Len(log'[p])
        OBVIOUS
    <2>1. Len(log[p]) \in Nat /\ Len(log'[p]) \in Nat
        BY DEF TopicTyped
    <2>2. Len(log[p]) = 0 \/ Len(log[p]) \in 1..Len(log[p])
        BY <2>1
    <2>3. Len(log[p]) = 0 \/ Len(log[p]) \in 1..Len(log'[p])
        BY <2>2
    <2> QED
        BY <2>1, <2>3
<1>2. OffsetsTyped'
    <2>1. ASSUME NEW p \in Partitions PROVE position[p] <= Len(log'[p]) + 1
        <3>1. position[p] \in Nat /\ position[p] <= Len(log[p]) + 1
            BY <1>0 DEF OffsetsTyped
        <3> QED
            BY <3>1, <1>1
    <2> QED
        BY <2>1, <1>0 DEF OffsetsTyped
<1>3. \A p \in Partitions : \A o \in 1..(position[p] - 1) : Done(p, o) => Done(p, o)'
    <2> SUFFICES ASSUME NEW p \in Partitions, NEW o \in 1..(position[p] - 1), Done(p, o) PROVE Done(p, o)'
        OBVIOUS
    <2>1. o \in 1..Len(log[p])
        BY <1>0, <1>1 DEF OffsetsTyped
    <2> QED
        BY <2>1 DEF Done, EmptyMessage
<1>4. HandedInv'
    <2> SUFFICES ASSUME NEW p \in Partitions
                 PROVE  /\ \A o \in 1..(position[p] - 1) : Done(p, o)' \/ (cur = <<p, o>> /\ step = "handle")
                        /\ \A o \in 1..(stored[p] - 1) : Done(p, o)'
                        /\ \A o \in 1..(committed[p] - 1) : Done(p, o)'
                        /\ stored[p] <= position[p] /\ committed[p] <= position[p]
        BY DEF HandedInv
    <2>1. position[p] \in Nat /\ stored[p] \in Nat /\ committed[p] \in Nat
        BY <1>0 DEF OffsetsTyped
    <2>2. stored[p] <= position[p] /\ committed[p] <= position[p]
        BY <1>0 DEF HandedInv
    <2>3. \A o \in 1..(stored[p] - 1) : o \in 1..(position[p] - 1)
        BY <2>1, <2>2
    <2>4. \A o \in 1..(committed[p] - 1) : o \in 1..(position[p] - 1)
        BY <2>1, <2>2
    <2> QED
        BY <2>2, <2>3, <2>4, <1>0, <1>3 DEF HandedInv
<1>5. AtCur' /\ ReportedInv' /\ failed' \subseteq Partitions \X (Nat \ {0})
    BY <1>0 DEF AtCur, ReportedInv, ConsumerInv
<1> QED
    BY <1>2, <1>4, <1>5 DEF ConsumerInv

\* The steps of the goroutine that change no offset but the one it stores.
LEMMA PollKeeps ==
    ASSUME TopicTyped, ConsumerInv, NEW p \in Partitions, Poll(p), UNCHANGED storeVars
    PROVE  ConsumerInv'
<1>0. OffsetsTyped /\ AtCur /\ HandedInv /\ ReportedInv
    BY DEF ConsumerInv
<1>1. /\ log' = log /\ step = "poll" /\ position[p] <= Len(log[p])
      /\ position' = [position EXCEPT ![p] = @ + 1]
      /\ cur' = <<p, position[p]>>
      /\ step' = IF log[p][position[p]] = EmptyMessage THEN "report" ELSE "handle"
      /\ UNCHANGED <<stored, committed, handed, failed, reported, manual>>
    BY DEF Poll, Dispatch, storeVars, busVars, historyVars
<1>2. /\ position'[p] = position[p] + 1 /\ \A q \in Partitions : q # p => position'[q] = position[q]
      /\ \A q \in Partitions : position[q] \in Nat \ {0} /\ stored[q] \in Nat \ {0} /\ committed[q] \in Nat \ {0}
      /\ Len(log[p]) \in Nat
    BY <1>0, <1>1 DEF OffsetsTyped, TopicTyped
<1>3. OffsetsTyped'
    BY <1>0, <1>1, <1>2 DEF OffsetsTyped
<1>4. AtCur'
    BY <1>1, <1>2 DEF AtCur, Nothing
<1>5. HandedInv'
    <2>1. ASSUME NEW q \in Partitions, NEW o \in 1..(position'[q] - 1)
          PROVE  Done(q, o)' \/ (cur' = <<q, o>> /\ step' = "handle")
        <3>1. o \in 1..(position[q] - 1) \/ (q = p /\ o = position[p])
            BY <1>2, <2>1
        <3> QED
            BY <3>1, <1>0, <1>1 DEF HandedInv, Done
    <2>2. \A q \in Partitions : stored[q] <= position'[q] /\ committed[q] <= position'[q]
        BY <1>0, <1>2 DEF HandedInv
    <2> QED
        BY <2>1, <2>2, <1>0, <1>1 DEF HandedInv, Done
<1>6. ReportedInv'
    <2>0. stored[p] <= position[p] /\ committed[p] <= position[p]
        BY <1>0 DEF HandedInv
    <2> SUFFICES ASSUME manual = {}, NEW m \in failed, m \notin reported
                 PROVE  \/ /\ m = cur' /\ step' \in {"handle", "report"}
                           /\ stored[m[1]] <= m[2] /\ committed[m[1]] <= m[2]
                        \/ m[2] >= position'[m[1]]
        BY <2>0, <1>1 DEF ReportedInv
    <2>1. m \in Partitions \X (Nat \ {0})
        BY DEF ConsumerInv
    <2>2. m[2] >= position[m[1]]
        BY <1>0, <1>1 DEF ReportedInv
    <2>3. CASE m = <<p, position[p]>>
        BY <2>0, <2>3, <1>1
    <2>4. CASE m # <<p, position[p]>>
        <3>1. m[1] # p \/ m[2] # position[p]
            BY <2>1, <2>4
        <3> QED
            BY <3>1, <2>1, <2>2, <1>2
    <2> QED
        BY <2>3, <2>4
<1> QED
    BY <1>1, <1>3, <1>4, <1>5, <1>6 DEF ConsumerInv

LEMMA HandleKeeps ==
    ASSUME TopicTyped, ConsumerInv, Handle, UNCHANGED storeVars
    PROVE  ConsumerInv'
<1>0. OffsetsTyped /\ AtCur /\ HandedInv /\ ReportedInv
    BY DEF ConsumerInv
<1>1. /\ log' = log /\ step = "handle" /\ handed' = handed \cup {cur}
      /\ UNCHANGED <<cur, position, stored, committed, reported, manual>>
      /\ \/ failed' = failed \ {cur} /\ step' \in {"check", "store"}
         \/ failed' = failed \cup {cur} /\ step' = "report"
    BY DEF Handle, storeVars, busVars, offsetVars
<1>2. cur \in Partitions \X (Nat \ {0}) /\ cur[2] + 1 = position[cur[1]]
    BY <1>0, <1>1 DEF AtCur, OffsetsTyped
<1>3. OffsetsTyped' /\ AtCur' /\ failed' \subseteq Partitions \X (Nat \ {0})
    BY <1>0, <1>1, <1>2 DEF OffsetsTyped, AtCur, ConsumerInv
<1>4. HandedInv'
    BY <1>0, <1>1 DEF HandedInv, Done
<1>5. ReportedInv'
    <2> SUFFICES ASSUME manual = {}, NEW m \in failed', m \notin reported
                 PROVE  \/ /\ m = cur /\ step' \in {"handle", "report"}
                           /\ stored[m[1]] <= m[2] /\ committed[m[1]] <= m[2]
                        \/ m[2] >= position[m[1]]
        BY <1>1 DEF ReportedInv
    <2>2. CASE m # cur
        BY <2>2, <1>0, <1>1 DEF ReportedInv
    <2>3. CASE m = cur
        BY <2>3, <1>0, <1>1 DEF ReportedInv
    <2> QED
        BY <2>2, <2>3
<1> QED
    BY <1>3, <1>4, <1>5 DEF ConsumerInv

\* What is stored has been handled: its function has not failed.
LEMMA StoreMessageKeeps ==
    ASSUME TopicTyped, ConsumerInv, StoreMessage, UNCHANGED storeVars
    PROVE  ConsumerInv'
<1>0. OffsetsTyped /\ AtCur /\ HandedInv /\ ReportedInv
    BY DEF ConsumerInv
<1>1. /\ log' = log /\ step = "store" /\ step' \in {"check", "report"}
      /\ stored' = [stored EXCEPT ![cur[1]] = cur[2] + 1] \/ stored' = stored
      /\ UNCHANGED <<cur, position, committed, handed, failed, reported, manual>>
    BY DEF StoreMessage, storeVars, busVars, historyVars
<1>2. cur \in Partitions \X (Nat \ {0}) /\ cur[2] + 1 = position[cur[1]] /\ cur \in handed
    BY <1>0, <1>1 DEF AtCur, OffsetsTyped
<1>3. \A p \in Partitions : stored'[p] = stored[p] \/ stored'[p] = position[p]
    BY <1>0, <1>1, <1>2 DEF OffsetsTyped
<1>4. stored' \in [Partitions -> Nat \ {0}]
    BY <1>0, <1>1, <1>2 DEF OffsetsTyped
<1>5. OffsetsTyped' /\ AtCur' /\ failed' \subseteq Partitions \X (Nat \ {0})
    BY <1>0, <1>1, <1>2, <1>4 DEF OffsetsTyped, AtCur, ConsumerInv
<1>6. HandedInv'
    <2>0. \A p \in Partitions : position[p] \in Nat
        BY <1>0 DEF OffsetsTyped
    <2>1. \A p \in Partitions : stored'[p] <= position[p]
        BY <2>0, <1>0, <1>3 DEF HandedInv
    <2>2. \A p \in Partitions : \A o \in 1..(position[p] - 1) : Done(p, o)
        BY <1>0, <1>1 DEF HandedInv
    <2>3. \A p \in Partitions : \A o \in 1..(stored'[p] - 1) : Done(p, o)
        BY <2>2, <1>0, <1>3 DEF HandedInv
    <2> QED
        BY <2>1, <2>2, <2>3, <1>0, <1>1 DEF HandedInv, Done
<1>7. ReportedInv'
    BY <1>0, <1>1 DEF ReportedInv
<1> QED
    BY <1>5, <1>6, <1>7 DEF ConsumerInv

\* Commit makes of what is stored what is committed.
LEMMA CommitKeeps ==
    ASSUME TopicTyped, ConsumerInv, Commit, UNCHANGED storeVars
    PROVE  ConsumerInv'
<1>0. OffsetsTyped /\ AtCur /\ HandedInv /\ ReportedInv
    BY DEF ConsumerInv
<1>1. /\ log' = log /\ committed' = stored
      /\ UNCHANGED <<step, cur, position, stored, handed, failed, reported, manual>>
    BY DEF Commit, storeVars, busVars, historyVars
<1>2. OffsetsTyped' /\ AtCur' /\ failed' \subseteq Partitions \X (Nat \ {0})
    BY <1>0, <1>1 DEF OffsetsTyped, AtCur, ConsumerInv
<1>3. HandedInv'
    BY <1>0, <1>1 DEF HandedInv, Done
<1>4. ReportedInv'
    BY <1>0, <1>1 DEF ReportedInv
<1> QED
    BY <1>2, <1>3, <1>4 DEF ConsumerInv

\* What the application commits is the message it has been given last, and
\* all before it.
LEMMA CommitMessageKeeps ==
    ASSUME TopicTyped, ConsumerInv, CommitMessage, UNCHANGED storeVars
    PROVE  ConsumerInv'
<1>0. OffsetsTyped /\ AtCur /\ HandedInv /\ ReportedInv
    BY DEF ConsumerInv
<1>1. /\ log' = log /\ cur # Nothing /\ manual = {} /\ manual' = {cur}
      /\ committed' = [committed EXCEPT ![cur[1]] = cur[2] + 1]
      /\ UNCHANGED <<step, cur, position, stored, handed, failed, reported>>
    BY DEF CommitMessage, storeVars, busVars
<1>2. cur \in Partitions \X (Nat \ {0}) /\ cur[2] + 1 = position[cur[1]]
    BY <1>0, <1>1 DEF AtCur, OffsetsTyped
<1>3. \A p \in Partitions : committed'[p] = committed[p] \/ (p = cur[1] /\ committed'[p] = position[p])
    BY <1>0, <1>1, <1>2 DEF OffsetsTyped
<1>4. committed' \in [Partitions -> Nat \ {0}]
    BY <1>0, <1>1, <1>2 DEF OffsetsTyped
<1>5. OffsetsTyped' /\ AtCur' /\ failed' \subseteq Partitions \X (Nat \ {0})
    BY <1>0, <1>1, <1>4 DEF OffsetsTyped, AtCur, ConsumerInv
<1>6. HandedInv'
    <2>1. \A p \in Partitions : \A o \in 1..(position[p] - 1) : Done(p, o)'
        BY <1>0, <1>1 DEF HandedInv, Done
    <2>2. \A p \in Partitions : \A o \in 1..(stored[p] - 1) : Done(p, o)'
        BY <1>0, <1>1 DEF HandedInv, Done
    <2>3. \A p \in Partitions : \A o \in 1..(committed[p] - 1) : Done(p, o)'
        BY <1>0, <1>1 DEF HandedInv, Done
    <2>4. \A p \in Partitions : stored[p] <= position[p] /\ committed'[p] <= position[p]
        BY <1>0, <1>3 DEF HandedInv, OffsetsTyped
    <2>5. \A p \in Partitions : \A o \in 1..(committed'[p] - 1) : Done(p, o)'
        BY <2>1, <2>3, <1>3
    <2> QED
        BY <2>1, <2>2, <2>4, <2>5, <1>1 DEF HandedInv
<1>7. ReportedInv'
    BY <1>1 DEF ReportedInv
<1> QED
    BY <1>5, <1>6, <1>7 DEF ConsumerInv

\* After a crash the consumer is where the committed offsets are.
LEMMA RestartKeeps ==
    ASSUME TopicTyped, ConsumerInv, Restart, UNCHANGED storeVars
    PROVE  ConsumerInv'
<1>0. OffsetsTyped /\ AtCur /\ HandedInv /\ ReportedInv
    BY DEF ConsumerInv
<1>1. /\ log' = log /\ step' = "check" /\ cur' = Nothing /\ position' = committed /\ stored' = committed
      /\ UNCHANGED <<committed, handed, failed, reported, manual>>
    BY DEF Restart, storeVars, busVars, historyVars
<1>2. OffsetsTyped'
    <2>1. ASSUME NEW p \in Partitions PROVE committed[p] <= Len(log[p]) + 1
        <3>1. committed[p] <= position[p] /\ position[p] <= Len(log[p]) + 1
            BY <1>0 DEF HandedInv, OffsetsTyped
        <3>2. committed[p] \in Nat /\ position[p] \in Nat /\ Len(log[p]) \in Nat
            BY <1>0 DEF OffsetsTyped, TopicTyped
        <3> QED
            BY <3>1, <3>2
    <2> QED
        BY <2>1, <1>0, <1>1 DEF OffsetsTyped
<1>3. AtCur' /\ failed' \subseteq Partitions \X (Nat \ {0})
    BY <1>1 DEF AtCur, ConsumerInv
<1>4. HandedInv'
    <2>1. \A p \in Partitions : committed[p] <= committed[p]
        BY <1>0 DEF OffsetsTyped
    <2> QED
        BY <2>1, <1>0, <1>1 DEF HandedInv, Done
<1>5. ReportedInv'
    <2> SUFFICES ASSUME manual = {}, NEW m \in failed, m \notin reported PROVE m[2] >= committed[m[1]]
        BY <1>1 DEF ReportedInv
    <2>1. m \in Partitions \X (Nat \ {0})
        BY DEF ConsumerInv
    <2>2. committed[m[1]] <= position[m[1]] /\ committed[m[1]] \in Nat /\ position[m[1]] \in Nat
        BY <2>1, <1>0 DEF HandedInv, OffsetsTyped
    <2> QED
        BY <2>1, <2>2, <1>0 DEF ReportedInv
<1> QED
    BY <1>2, <1>3, <1>4, <1>5 DEF ConsumerInv

LEMMA ConsumerStep == TopicInv /\ ConsumerInv /\ [Next]_vars => ConsumerInv'
<1> SUFFICES ASSUME TopicInv, ConsumerInv, [Next]_vars PROVE ConsumerInv'
    OBVIOUS
<1>0. TopicTyped /\ TopicTyped'
    BY TopicStep DEF TopicInv
<1>1. log' \in [Partitions -> Seq(Int)]
    BY <1>0 DEF TopicTyped
<1>2. CASE UNCHANGED <<step, cur, offsetVars, historyVars>>
    BY <1>0, <1>1, <1>2, LogGrows, ConsumerWaits
<1>3. CASE UNCHANGED consumerVars
    BY <1>2, <1>3 DEF consumerVars
<1>4. CASE UNCHANGED storeVars /\ (Handle \/ StoreMessage \/ Commit \/ CommitMessage \/ Restart)
    BY <1>0, <1>4, HandleKeeps, StoreMessageKeeps, CommitKeeps, CommitMessageKeeps, RestartKeeps
<1>5. ASSUME NEW p \in Partitions, Poll(p), UNCHANGED storeVars PROVE ConsumerInv'
    BY <1>0, <1>5, PollKeeps
<1>6. CASE UNCHANGED storeVars /\ (ReadError \/ Cancel)
    BY <1>2, <1>6 DEF ReadError, Cancel
<1>7. CASE UNCHANGED storeVars /\ (CheckContext \/ PollNothing)
    <2>1. /\ log' = log /\ step \notin {"handle", "store", "report"} /\ step' \notin {"handle", "store", "report"}
          /\ UNCHANGED <<cur, position, stored, committed, handed, failed, reported, manual>>
        BY <1>7 DEF CheckContext, PollNothing, storeVars, busVars, offsetVars, historyVars
    <2>2. OffsetsTyped /\ AtCur /\ HandedInv /\ ReportedInv
        BY DEF ConsumerInv
    <2>3. OffsetsTyped' /\ AtCur' /\ failed' \subseteq Partitions \X (Nat \ {0})
        BY <2>1, <2>2 DEF OffsetsTyped, AtCur, ConsumerInv
    <2>4. HandedInv'
        BY <2>1, <2>2 DEF HandedInv, Done
    <2>5. ReportedInv'
        BY <2>1, <2>2 DEF ReportedInv
    <2> QED
        BY <2>3, <2>4, <2>5 DEF ConsumerInv
<1>8. CASE UNCHANGED storeVars /\ ReportError
    <2>1. /\ log' = log /\ step = "report" /\ step' = "check" /\ reported' = reported \cup {cur}
          /\ UNCHANGED <<cur, position, stored, committed, handed, failed, manual>>
        BY <1>8 DEF ReportError, SendError, storeVars, busVars, offsetVars
    <2>2. OffsetsTyped /\ AtCur /\ HandedInv /\ ReportedInv
        BY DEF ConsumerInv
    <2>3. OffsetsTyped' /\ AtCur' /\ failed' \subseteq Partitions \X (Nat \ {0})
        BY <2>1, <2>2 DEF OffsetsTyped, AtCur, ConsumerInv
    <2>4. HandedInv'
        BY <2>1, <2>2 DEF HandedInv, Done
    <2>5. ReportedInv'
        BY <2>1, <2>2 DEF ReportedInv
    <2> QED
        BY <2>3, <2>4, <2>5 DEF ConsumerInv
<1> QED
    BY <1>3, <1>4, <1>5, <1>6, <1>7, <1>8 DEF Next, vars

\* Whatever crashes and restarts come in between: what is below a committed
\* offset has been through the application's function, and what failed there
\* has been reported, unless the application commits itself (consumer.go:139,
\* handleEvent and its StoreMessage).
THEOREM CommitsAreSound == Spec => []CommitSound
<1>1. ConsumerInv => CommitSound
    <2> SUFFICES ASSUME ConsumerInv PROVE CommitSound
        OBVIOUS
    <2>0. OffsetsTyped /\ AtCur /\ HandedInv /\ ReportedInv
        BY DEF ConsumerInv
    <2>1. HandedBeforeCommit
        BY <2>0 DEF HandedInv, HandedBeforeCommit, Done
    <2>2. SkippedIsReported
        <3> SUFFICES ASSUME NEW m \in failed, m[2] < committed[m[1]], manual = {} PROVE m \in reported
            BY DEF SkippedIsReported
        <3>1. m \in Partitions \X (Nat \ {0})
            BY DEF ConsumerInv
        <3>2. committed[m[1]] <= position[m[1]] /\ committed[m[1]] \in Nat /\ position[m[1]] \in Nat
            BY <3>1, <2>0 DEF HandedInv, OffsetsTyped
        <3> QED
            BY <3>1, <3>2, <2>0 DEF ReportedInv
    <2> QED
        BY <2>1, <2>2 DEF CommitSound
<1> QED
    BY TopicStarts, TopicStep, ConsumerStarts, ConsumerStep, <1>1, PTL DEF Spec

-----------------------------------------------------------------------------
(* The status of a client.                                                  *)

Events == [kind : {"stats"}, brokers : Reports, working : BOOLEAN] \cup [kind : {"bad", "error"}]

StatusTyped ==
    /\ statistics \in [brokers : Reports, working : BOOLEAN]
    /\ status \in [overall : {"UP", "DOWN", "UNKNOWN", "PARTIAL"}, consuming : {"UP", "DOWN"}, code : {0, 1}]
    /\ monitoring \in {"listens", "loaded", "refreshed", "failed", "ended"}
    /\ events \in Seq(Events)
    /\ errorCh \in Nat /\ dropped \in Nat /\ read \in Nat

\* The statistics hold of each broker what was last heard of it.
Latest(b, i) == i \in Told(b) /\ (\A j \in Told(b) : j <= i) /\ statistics.brokers[b] = events[i].brokers[b]
Known ==
    /\ DOMAIN statistics.brokers = Heard
    /\ \A b \in Heard : \E i \in DOMAIN events : Latest(b, i)

SomeUp == DOMAIN statistics.brokers = {} \/ \E b \in DOMAIN statistics.brokers : statistics.brokers[b] # "DOWN"
WorksNow == \E i \in DOMAIN events : LastMeant(i) /\ events[i].kind = "stats" /\ events[i].working

\* Between an event and the status it makes, the statistics are ahead.
Follows ==
    /\ monitoring \in {"loaded", "refreshed"} =>
          /\ events # <<>> /\ events[Len(events)].kind = "stats"
          /\ statistics.working = events[Len(events)].working
    /\ monitoring # "loaded" => (IsHealthy(status) <=> WorksNow /\ SomeUp)

NoStats == {i \in DOMAIN events : events[i].kind # "stats"}
Sent == read + errorCh + dropped

\* An event that is being handled will send at most one error.
Accounted ==
    LET owed == IF monitoring = "failed" THEN 1 ELSE 0
        free == IF monitoring \in {"listens", "ended"} THEN 0 ELSE 1 IN
    /\ Sent + free <= Len(events)
    /\ Sent + owed >= Cardinality(NoStats)
    /\ Settled /\ ~IsHealthy(status) /\ events # <<>> => Sent > 0

StatusInv == StatusTyped /\ Known /\ Follows /\ Accounted

\* The status is down if there are brokers and all of them are (status.go:127).
LEMMA AllDown ==
    ASSUME NEW brokers \in Reports
    PROVE  /\ ParseStatus(brokers) \in {"UP", "DOWN", "UNKNOWN", "PARTIAL"}
           /\ ParseStatus(brokers) = "DOWN" <=>
                 DOMAIN brokers # {} /\ \A b \in DOMAIN brokers : brokers[b] = "DOWN"
<1> DEFINE B == DOMAIN brokers
           In(s) == {b \in B : brokers[b] = s}
<1>1. IsFiniteSet(B)
    BY KafkaStatusAssumption, FS_Subset DEF Reports
<1>2. Cardinality(B) \in Nat /\ (Cardinality(B) = 0 <=> B = {})
    BY <1>1, FS_CardinalityType, FS_EmptySet
<1>3. ASSUME NEW s PROVE Counted(brokers, s) = Cardinality(B) <=> \A b \in B : brokers[b] = s
    <2>1. In(s) \in SUBSET B
        OBVIOUS
    <2>2. Cardinality(B) = Cardinality(In(s)) => B = In(s)
        BY <1>1, <2>1, FS_Subset
    <2>3. (\A b \in B : brokers[b] = s) <=> B = In(s)
        OBVIOUS
    <2> QED
        BY <2>2, <2>3 DEF Counted
<1>4. CASE B = {}
    BY <1>2, <1>4 DEF ParseStatus
<1>5. CASE B # {}
    <2>1. Cardinality(B) > 0 /\ Cardinality(B) # 0
        BY <1>2, <1>5
    <2>2. ParseStatus(brokers) =
             CASE \A b \in B : brokers[b] = "UP" -> "UP"
               [] \A b \in B : brokers[b] = "DOWN" -> "DOWN"
               [] \A b \in B : brokers[b] = "INIT" -> "UNKNOWN"
               [] OTHER -> "PARTIAL"
        BY <2>1, <1>3 DEF ParseStatus
    <2> QED
        BY <1>5, <2>2
<1> QED
    BY <1>4, <1>5

LEMMA StatusStarts == StatusInit => StatusInv
<1> SUFFICES ASSUME StatusInit PROVE StatusInv
    OBVIOUS
<1> USE DEF StatusInit, DefaultKafkaStatus
<1>1. DOMAIN events = {} /\ events \in Seq(Events) /\ Len(events) = 0
    OBVIOUS
<1>2. <<>> \in Reports /\ DOMAIN statistics.brokers = {}
    <2>1. <<>> \in [{} -> BrokerState]
        OBVIOUS
    <2> QED
        BY <2>1 DEF Reports
<1>3. StatusTyped
    BY <1>1, <1>2 DEF StatusTyped
<1>4. Heard = {}
    BY <1>1 DEF Heard, Told
<1>5. Known /\ Follows
    BY <1>1, <1>2, <1>4 DEF Known, Follows, IsHealthy, WorksNow
<1>6. Accounted
    <2>1. NoStats = {}
        BY <1>1 DEF NoStats
    <2>2. Cardinality(NoStats) = 0
        BY <2>1, FS_EmptySet
    <2> QED
        BY <1>1, <2>2 DEF Accounted, Sent
<1> QED
    BY <1>3, <1>5, <1>6 DEF StatusInv

LEMMA EventAdded ==
    ASSUME StatusTyped, NEW e \in Events, events' = Append(events, e)
    PROVE  /\ events' \in Seq(Events) /\ Len(events') = Len(events) + 1 /\ Len(events) \in Nat
           /\ DOMAIN events' = DOMAIN events \cup {Len(events) + 1}
           /\ \A i \in DOMAIN events : events'[i] = events[i] /\ i \in Nat /\ i < Len(events) + 1
           /\ events'[Len(events) + 1] = e /\ events' # <<>>
<1>1. events \in Seq(Events)
    BY DEF StatusTyped
<1>2. events' \in Seq(Events) /\ Len(events') = Len(events) + 1 /\ Len(events) \in Nat
    BY <1>1
<1>3. /\ \A i \in DOMAIN events : i \in DOMAIN events' /\ events'[i] = events[i]
      /\ \A i \in DOMAIN events' : i \in DOMAIN events \/ i = Len(events) + 1
      /\ Len(events) + 1 \in DOMAIN events' /\ events'[Len(events) + 1] = e
      /\ \A i \in DOMAIN events : i \in Nat /\ i < Len(events) + 1
    BY <1>1, Appended
<1>4. events' # <<>>
    BY <1>2
<1> QED
    BY <1>2, <1>3, <1>4

\* How many of the events are no statistics.
LEMMA NoStatsCounted ==
    ASSUME StatusTyped, NEW e \in Events, events' = Append(events, e)
    PROVE  /\ Cardinality(NoStats) \in Nat
           /\ Cardinality(NoStats') = Cardinality(NoStats) + IF e.kind = "stats" THEN 0 ELSE 1
<1>1. /\ DOMAIN events' = DOMAIN events \cup {Len(events) + 1}
      /\ \A i \in DOMAIN events : events'[i] = events[i] /\ i \in Nat /\ i < Len(events) + 1
      /\ events'[Len(events) + 1] = e
    BY EventAdded
<1>2. IsFiniteSet(NoStats)
    <2>1. Len(events) \in Nat /\ DOMAIN events = 1..Len(events)
        BY DEF StatusTyped
    <2>2. IsFiniteSet(1..Len(events))
        BY <2>1, FS_Interval
    <2>3. NoStats \in SUBSET (1..Len(events))
        BY <2>1 DEF NoStats
    <2> QED
        BY <2>2, <2>3, FS_Subset
<1>3. Len(events) + 1 \notin NoStats
    BY <1>1 DEF NoStats
<1>4. NoStats' = IF e.kind = "stats" THEN NoStats ELSE NoStats \cup {Len(events) + 1}
    <2>1. NoStats' = {i \in DOMAIN events' : events'[i].kind # "stats"}
        BY DEF NoStats
    <2> QED
        BY <2>1, <1>1 DEF NoStats
<1>5. Cardinality(NoStats \cup {Len(events) + 1}) = Cardinality(NoStats) + 1
    BY <1>2, <1>3, FS_AddElement
<1>6. Cardinality(NoStats) \in Nat
    BY <1>2, FS_CardinalityType
<1> QED
    BY <1>4, <1>5, <1>6

\* An event that is no report of statistics tells of no broker.
LEMMA NothingHeard ==
    ASSUME StatusTyped, Known, NEW e \in Events, e.kind # "stats", events' = Append(events, e), UNCHANGED statistics
    PROVE  Known' /\ SomeUp' = SomeUp
<1>1. /\ DOMAIN events' = DOMAIN events \cup {Len(events) + 1}
      /\ \A i \in DOMAIN events : events'[i] = events[i]
      /\ events'[Len(events) + 1] = e
    BY EventAdded
<1>2. ASSUME NEW b PROVE Told(b)' = Told(b)
    <2>1. Told(b)' = {i \in DOMAIN events' : events'[i].kind = "stats" /\ b \in DOMAIN events'[i].brokers}
        BY DEF Told
    <2> QED
        BY <2>1, <1>1 DEF Told
<1>3. Heard' = Heard
    BY <1>2 DEF Heard
<1>4. ASSUME NEW b \in Heard PROVE \E i \in DOMAIN events' : Latest(b, i)'
    <2>1. PICK i \in DOMAIN events : Latest(b, i)
        BY DEF Known
    <2>2. i \in Told(b) /\ (\A j \in Told(b) : j <= i) /\ statistics.brokers[b] = events[i].brokers[b]
        BY <2>1 DEF Latest
    <2>3. i \in DOMAIN events' /\ Latest(b, i)'
        BY <2>2, <1>1, <1>2 DEF Latest
    <2> QED
        BY <2>3
<1>5. Known'
    BY <1>3, <1>4 DEF Known
<1> QED
    BY <1>5 DEF SomeUp

LEMMA StatsEventKeeps ==
    ASSUME StatusInv, StatsEvent
    PROVE  StatusInv'
<1>0. StatusTyped /\ Known /\ Follows /\ Accounted
    BY DEF StatusInv
<1>1. PICK report \in Reports, working \in BOOLEAN :
         /\ statistics' = [brokers |-> Loaded(statistics.brokers, report), working |-> working]
         /\ events' = Append(events, [kind |-> "stats", brokers |-> report, working |-> working])
    BY DEF StatsEvent
<1>2. monitoring = "listens" /\ monitoring' = "loaded" /\ UNCHANGED <<status, errorCh, dropped, read>>
    BY DEF StatsEvent
<1>e. PICK e : e = [kind |-> "stats", brokers |-> report, working |-> working]
    OBVIOUS
<1>3. e \in Events /\ e.kind = "stats" /\ e.brokers = report /\ e.working = working /\ events' = Append(events, e)
    BY <1>1, <1>e DEF Events
<1>4. /\ events' \in Seq(Events) /\ Len(events') = Len(events) + 1 /\ Len(events) \in Nat
      /\ DOMAIN events' = DOMAIN events \cup {Len(events) + 1}
      /\ \A i \in DOMAIN events : events'[i] = events[i] /\ i \in Nat /\ i < Len(events) + 1
      /\ events'[Len(events) + 1] = e /\ events' # <<>>
    BY <1>0, <1>3, EventAdded
<1>5. /\ DOMAIN statistics'.brokers = DOMAIN statistics.brokers \cup DOMAIN report
      /\ \A b \in DOMAIN report : statistics'.brokers[b] = report[b]
      /\ \A b \in DOMAIN statistics.brokers : b \notin DOMAIN report => statistics'.brokers[b] = statistics.brokers[b]
      /\ statistics'.working = working
    BY <1>1 DEF Loaded
<1>6. statistics.brokers \in Reports
    BY <1>0 DEF StatusTyped
<1>7. statistics' \in [brokers : Reports, working : BOOLEAN]
    <2>1. PICK K \in SUBSET Brokers : statistics.brokers \in [K -> BrokerState]
        BY <1>6 DEF Reports
    <2>2. PICK R \in SUBSET Brokers : report \in [R -> BrokerState]
        BY DEF Reports
    <2>3. Loaded(statistics.brokers, report) \in [K \cup R -> BrokerState]
        BY <2>1, <2>2 DEF Loaded
    <2>4. K \cup R \in SUBSET Brokers
        OBVIOUS
    <2>5. Loaded(statistics.brokers, report) \in Reports
        BY <2>3, <2>4 DEF Reports
    <2> QED
        BY <1>1, <2>5
<1>8. StatusTyped'
    BY <1>0, <1>2, <1>4, <1>7 DEF StatusTyped
<1>9. ASSUME NEW b PROVE Told(b)' = IF b \in DOMAIN report THEN Told(b) \cup {Len(events) + 1} ELSE Told(b)
    <2>1. Told(b)' = {i \in DOMAIN events' : events'[i].kind = "stats" /\ b \in DOMAIN events'[i].brokers}
        BY DEF Told
    <2> QED
        BY <2>1, <1>3, <1>4 DEF Told
<1>10. DOMAIN report \subseteq Brokers
    BY DEF Reports
<1>11. Heard' = Heard \cup DOMAIN report
    BY <1>9, <1>10 DEF Heard
<1>12. ASSUME NEW b \in Heard \cup DOMAIN report PROVE \E i \in DOMAIN events' : Latest(b, i)'
    <2>1. CASE b \in DOMAIN report
        <3>1. Len(events) + 1 \in Told(b)'
            BY <2>1, <1>9
        <3>2. \A j \in Told(b)' : j <= Len(events) + 1
            <4>1. \A j \in Told(b) : j \in Nat /\ j < Len(events) + 1
                BY <1>4 DEF Told
            <4> QED
                BY <4>1, <1>4, <1>9
        <3>3. statistics'.brokers[b] = events'[Len(events) + 1].brokers[b]
            BY <2>1, <1>3, <1>4, <1>5
        <3>4. PICK n : n = Len(events) + 1
            OBVIOUS
        <3>5. Latest(b, n)'
            BY <3>1, <3>2, <3>3, <3>4 DEF Latest
        <3> QED
            BY <3>4, <3>5, <1>4
    <2>2. CASE b \notin DOMAIN report
        <3>1. PICK i \in DOMAIN events : Latest(b, i)
            BY <2>2, <1>0 DEF Known
        <3>2. i \in Told(b) /\ (\A j \in Told(b) : j <= i) /\ statistics.brokers[b] = events[i].brokers[b]
            BY <3>1 DEF Latest
        <3>3. b \in DOMAIN statistics.brokers
            BY <2>2, <1>0 DEF Known
        <3>4. Latest(b, i)'
            BY <2>2, <3>2, <3>3, <1>4, <1>5, <1>9 DEF Latest
        <3> QED
            BY <3>4, <1>4
    <2> QED
        BY <2>1, <2>2
<1>13. Known'
    BY <1>0, <1>5, <1>11, <1>12 DEF Known
<1>14. Follows'
    BY <1>2, <1>3, <1>4, <1>5 DEF Follows
<1>15. Accounted'
    <2>1. Cardinality(NoStats') = Cardinality(NoStats) /\ Cardinality(NoStats) \in Nat
        BY <1>0, <1>3, NoStatsCounted
    <2>2. Sent' = Sent /\ Sent \in Nat
        BY <1>0, <1>2 DEF Sent, StatusTyped
    <2> QED
        BY <2>1, <2>2, <1>0, <1>2, <1>4 DEF Accounted, Settled
<1> QED
    BY <1>8, <1>13, <1>14, <1>15 DEF StatusInv

LEMMA BadStatsEventKeeps ==
    ASSUME StatusInv, BadStatsEvent
    PROVE  StatusInv'
<1>0. StatusTyped /\ Known /\ Follows /\ Accounted
    BY DEF StatusInv
<1>1. /\ monitoring = "listens" /\ monitoring' = "failed"
      /\ UNCHANGED <<statistics, status, errorCh, dropped, read>>
    BY DEF BadStatsEvent
<1>2. PICK e : e = [kind |-> "bad"]
    OBVIOUS
<1>3. e \in Events /\ e.kind = "bad" /\ events' = Append(events, e)
    BY <1>2 DEF Events, BadStatsEvent
<1>4. /\ events' \in Seq(Events) /\ Len(events') = Len(events) + 1 /\ Len(events) \in Nat
      /\ DOMAIN events' = DOMAIN events \cup {Len(events) + 1}
      /\ \A i \in DOMAIN events : events'[i] = events[i] /\ i \in Nat /\ i < Len(events) + 1
      /\ events'[Len(events) + 1] = e /\ events' # <<>>
    BY <1>0, <1>3, EventAdded
<1>5. StatusTyped'
    BY <1>0, <1>1, <1>4 DEF StatusTyped
<1>6. Known' /\ SomeUp' = SomeUp
    BY <1>0, <1>1, <1>3, NothingHeard
<1>7. WorksNow' = WorksNow
    <2>1. \A i \in DOMAIN events' : LastMeant(i)' <=> i \in DOMAIN events /\ LastMeant(i)
        BY <1>3, <1>4 DEF LastMeant
    <2> QED
        BY <2>1, <1>4 DEF WorksNow
<1>8. Follows'
    BY <1>0, <1>1, <1>6, <1>7 DEF Follows
<1>9. Accounted'
    <2>1. Cardinality(NoStats') = Cardinality(NoStats) + 1 /\ Cardinality(NoStats) \in Nat
        BY <1>0, <1>3, NoStatsCounted
    <2>2. Sent' = Sent /\ Sent \in Nat
        BY <1>0, <1>1 DEF Sent, StatusTyped
    <2> QED
        BY <2>1, <2>2, <1>0, <1>1, <1>4 DEF Accounted, Settled
<1> QED
    BY <1>5, <1>6, <1>8, <1>9 DEF StatusInv

\* After an error the status is unhealthy whatever the statistics say.
LEMMA ErrorEventKeeps ==
    ASSUME StatusInv, ErrorEvent
    PROVE  StatusInv'
<1>0. StatusTyped /\ Known /\ Follows /\ Accounted
    BY DEF StatusInv
<1>1. /\ monitoring = "listens" /\ monitoring' = "failed" /\ status' = [status EXCEPT !.code = 1]
      /\ UNCHANGED <<statistics, errorCh, dropped, read>>
    BY DEF ErrorEvent
<1>2. PICK e : e = [kind |-> "error"]
    OBVIOUS
<1>3. e \in Events /\ e.kind = "error" /\ events' = Append(events, e)
    BY <1>2 DEF Events, ErrorEvent
<1>4. /\ events' \in Seq(Events) /\ Len(events') = Len(events) + 1 /\ Len(events) \in Nat
      /\ DOMAIN events' = DOMAIN events \cup {Len(events) + 1}
      /\ \A i \in DOMAIN events : events'[i] = events[i] /\ i \in Nat /\ i < Len(events) + 1
      /\ events'[Len(events) + 1] = e /\ events' # <<>>
    BY <1>0, <1>3, EventAdded
<1>5. StatusTyped' /\ status'.code = 1
    BY <1>0, <1>1, <1>4 DEF StatusTyped
<1>6. Known'
    BY <1>0, <1>1, <1>3, NothingHeard
<1>7. ~WorksNow'
    BY <1>3, <1>4 DEF WorksNow, LastMeant
<1>8. Follows'
    BY <1>1, <1>5, <1>7 DEF Follows, IsHealthy
<1>9. Accounted'
    <2>1. Cardinality(NoStats') = Cardinality(NoStats) + 1 /\ Cardinality(NoStats) \in Nat
        BY <1>0, <1>3, NoStatsCounted
    <2>2. Sent' = Sent /\ Sent \in Nat
        BY <1>0, <1>1 DEF Sent, StatusTyped
    <2> QED
        BY <2>1, <2>2, <1>0, <1>1, <1>4 DEF Accounted, Settled
<1> QED
    BY <1>5, <1>6, <1>8, <1>9 DEF StatusInv

\* What is read of the events does not change with them.
LEMMA EventsStay ==
    ASSUME UNCHANGED <<events, statistics>>
    PROVE  /\ Known' = Known /\ NoStats' = NoStats /\ WorksNow' = WorksNow /\ SomeUp' = SomeUp
<1>1. \A b : Told(b)' = Told(b)
    BY DEF Told
<1>2. Heard' = Heard
    BY DEF Heard, Told
<1>3. \A i \in DOMAIN events : LastMeant(i)' = LastMeant(i)
    BY DEF LastMeant
<1>4. Known' = Known
    BY <1>2 DEF Known, Latest, Told
<1>5. NoStats' = NoStats
    BY DEF NoStats
<1>6. WorksNow' = WorksNow
    BY DEF WorksNow, LastMeant
<1> QED
    BY <1>4, <1>5, <1>6 DEF SomeUp

\* The status follows the statistics, and forgets the code.
LEMMA RefreshKeeps ==
    ASSUME StatusInv, Refresh
    PROVE  StatusInv'
<1>0. StatusTyped /\ Known /\ Follows /\ Accounted
    BY DEF StatusInv
<1>1. /\ monitoring = "loaded" /\ monitoring' = "refreshed"
      /\ UNCHANGED <<statistics, events, errorCh, dropped, read>>
    BY DEF Refresh
<1>2. /\ Known' = Known /\ NoStats' = NoStats /\ WorksNow' = WorksNow /\ SomeUp' = SomeUp
    BY <1>1, EventsStay
<1>3. status' = [overall |-> ParseStatus(statistics.brokers),
                 consuming |-> IF statistics.working THEN "UP" ELSE "DOWN", code |-> 0]
    BY DEF Refresh, NewInternalStatus
<1>4. statistics.brokers \in Reports
    BY <1>0 DEF StatusTyped
<1>5. StatusTyped'
    BY <1>0, <1>1, <1>3, <1>4, AllDown DEF StatusTyped
<1>6. IsHealthy(status') <=> statistics.working /\ SomeUp
    BY <1>3, <1>4, AllDown DEF IsHealthy, SomeUp
<1>7. WorksNow <=> statistics.working
    <2>1. events # <<>> /\ events[Len(events)].kind = "stats" /\ statistics.working = events[Len(events)].working
        BY <1>0, <1>1 DEF Follows
    <2>2. Len(events) \in DOMAIN events /\ \A j \in DOMAIN events : j \in Nat /\ j <= Len(events) /\ Len(events) \in Nat
        BY <2>1, <1>0 DEF StatusTyped
    <2>3. \A i \in DOMAIN events : LastMeant(i) <=> i = Len(events)
        BY <2>1, <2>2 DEF LastMeant
    <2> QED
        BY <2>1, <2>2, <2>3 DEF WorksNow
<1>8. Follows'
    BY <1>0, <1>1, <1>2, <1>6, <1>7 DEF Follows
<1>9. Accounted'
    BY <1>0, <1>1, <1>2 DEF Accounted, Sent, Settled
<1> QED
    BY <1>0, <1>2, <1>5, <1>8, <1>9 DEF StatusInv

\* Those who handle errors, and those who look.
LEMMA OthersKeep ==
    ASSUME StatusInv, UNCHANGED <<statistics, status, events>>, StatusTyped',
           monitoring # "loaded", monitoring' # "loaded",
           monitoring' = "refreshed" => monitoring = "refreshed", Accounted'
    PROVE  StatusInv'
<1>1. /\ Known' = Known /\ WorksNow' = WorksNow /\ SomeUp' = SomeUp
    BY EventsStay
<1>2. Follows'
    BY <1>1 DEF StatusInv, Follows
<1> QED
    BY <1>1, <1>2 DEF StatusInv

LEMMA StatusStep == StatusInv /\ [StatusNext]_statusVars => StatusInv'
<1> SUFFICES ASSUME StatusInv, [StatusNext]_statusVars PROVE StatusInv'
    OBVIOUS
<1>0. StatusTyped /\ Known /\ Follows /\ Accounted
    BY DEF StatusInv
<1>c. errorCh \in Nat /\ dropped \in Nat /\ read \in Nat /\ Cardinality(NoStats) \in Nat /\ Len(events) \in Nat
    <2>1. errorCh \in Nat /\ dropped \in Nat /\ read \in Nat /\ Len(events) \in Nat /\ DOMAIN events = 1..Len(events)
        BY <1>0 DEF StatusTyped
    <2>2. IsFiniteSet(1..Len(events)) /\ NoStats \in SUBSET (1..Len(events))
        BY <2>1, FS_Interval DEF NoStats
    <2> QED
        BY <2>1, <2>2, FS_Subset, FS_CardinalityType
<1>n. UNCHANGED <<events, statistics>> => NoStats' = NoStats
    BY EventsStay
<1>1. CASE StatsEvent \/ BadStatsEvent \/ ErrorEvent \/ Refresh
    BY <1>1, StatsEventKeeps, BadStatsEventKeeps, ErrorEventKeeps, RefreshKeeps
\* A healthy status owes no error.
<1>2. CASE Judge
    <2>1. /\ monitoring = "refreshed" /\ UNCHANGED <<statistics, status, events, errorCh, dropped, read>>
          /\ monitoring' = IF IsHealthy(status) THEN "listens" ELSE "failed"
        BY <1>2 DEF Judge
    <2>2. StatusTyped'
        BY <2>1, <1>0 DEF StatusTyped
    <2>3. Accounted'
        <3>1. events # <<>> /\ events[Len(events)].kind = "stats"
            BY <2>1, <1>0 DEF Follows
        <3>2. Sent + 1 <= Len(events) /\ Sent >= Cardinality(NoStats) /\ Sent' = Sent /\ NoStats' = NoStats /\ Sent \in Nat
            BY <2>1, <1>0, <1>c, <1>n DEF Accounted, Sent
        <3> QED
            BY <2>1, <3>1, <3>2, <1>c DEF Accounted, Settled
    <2> QED
        BY <2>1, <2>2, <2>3, OthersKeep
<1>3. CASE SendStatusError
    <2>1. /\ monitoring = "failed" /\ monitoring' = "listens" /\ UNCHANGED <<statistics, status, events, read>>
          /\ \/ errorCh' = errorCh + 1 /\ dropped' = dropped
             \/ dropped' = dropped + 1 /\ errorCh' = errorCh
        BY <1>3 DEF SendStatusError
    <2>2. StatusTyped'
        BY <2>1, <1>0, <1>c DEF StatusTyped
    <2>3. Sent' = Sent + 1 /\ Sent \in Nat
        BY <2>1, <1>c DEF Sent
    <2>4. Accounted'
        BY <2>1, <2>3, <1>0, <1>c, <1>n DEF Accounted, Settled
    <2> QED
        BY <2>1, <2>2, <2>4, OthersKeep
<1>4. CASE MonitorEnds
    <2>1. /\ monitoring = "listens" /\ monitoring' = "ended"
          /\ UNCHANGED <<statistics, status, events, errorCh, dropped, read>>
        BY <1>4 DEF MonitorEnds
    <2>2. StatusTyped'
        BY <2>1, <1>0 DEF StatusTyped
    <2>3. Accounted'
        BY <2>1, <1>0, <1>n DEF Accounted, Settled, Sent
    <2> QED
        BY <2>1, <2>2, <2>3, OthersKeep
<1>5. CASE ReadStatusError
    <2>1. /\ UNCHANGED <<statistics, status, monitoring, events, dropped>>
          /\ errorCh > 0 /\ errorCh' = errorCh - 1 /\ read' = read + 1
        BY <1>5 DEF ReadStatusError
    <2>2. StatusTyped'
        BY <2>1, <1>0, <1>c DEF StatusTyped
    <2>3. Sent' = Sent
        BY <2>1, <1>c DEF Sent
    <2>4. Accounted'
        BY <2>1, <2>3, <1>0, <1>n DEF Accounted, Settled
    <2>5. Known' /\ Follows'
        BY <2>1, <1>0, EventsStay DEF Follows
    <2> QED
        BY <2>2, <2>4, <2>5 DEF StatusInv
<1>6. CASE HandleStatus \/ EncodeStatus \/ StatusAnswered \/ HandleStats \/ UNCHANGED statusVars
    <2>1. UNCHANGED <<statistics, status, monitoring, events, errorCh, dropped, read>>
        BY <1>6 DEF HandleStatus, EncodeStatus, StatusAnswered, HandleStats, statusVars
    <2>2. StatusTyped' /\ Accounted'
        BY <2>1, <1>0, <1>n DEF StatusTyped, Accounted, Settled, Sent
    <2>3. Known' /\ Follows'
        BY <2>1, <1>0, EventsStay DEF Follows
    <2> QED
        BY <2>2, <2>3 DEF StatusInv
<1> QED
    BY <1>1, <1>2, <1>3, <1>4, <1>5, <1>6 DEF StatusNext

\* Whatever librdkafka reports: the status that a program reads is healthy when
\* the statistics heard last say so and no error came after them, and no
\* unhealthy event goes by without an error (status.go:76, monitor.go:79).
THEOREM HealthIsTold == StatusSpec => []HealthTold
<1>1. StatusInv => HealthTold
    <2> SUFFICES ASSUME StatusInv PROVE HealthTold
        OBVIOUS
    <2>0. StatusTyped /\ Known /\ Follows /\ Accounted
        BY DEF StatusInv
    <2>1. \A b \in Heard : LastTold(b) = statistics.brokers[b]
        <3> SUFFICES ASSUME NEW b \in Heard PROVE LastTold(b) = statistics.brokers[b]
            OBVIOUS
        <3>1. PICK i \in DOMAIN events : Latest(b, i)
            BY <2>0 DEF Known
        <3>2. i \in Told(b) /\ (\A j \in Told(b) : j <= i) /\ statistics.brokers[b] = events[i].brokers[b]
            BY <3>1 DEF Latest
        <3>3. \A j \in Told(b) : j \in Nat
            BY <2>0 DEF Told, StatusTyped
        <3>4. \A k \in Told(b) : (\A j \in Told(b) : j <= k) => k = i
            BY <3>2, <3>3
        <3>5. (CHOOSE k \in Told(b) : \A j \in Told(b) : j <= k) = i
            BY <3>2, <3>4
        <3> QED
            BY <3>2, <3>5 DEF LastTold
    <2>2. HealthFollows
        <3>1. SomeUp <=> Heard = {} \/ \E b \in Heard : LastTold(b) # "DOWN"
            BY <2>0, <2>1 DEF Known, SomeUp
        <3>2. Settled => monitoring # "loaded"
            BY DEF Settled
        <3> QED
            BY <3>1, <3>2, <2>0 DEF Follows, HealthFollows, WorksNow
    <2>3. ErrorsTold
        <3>1. Sent \in Nat /\ Len(events) \in Nat
            BY <2>0 DEF Sent, StatusTyped
        <3> QED
            BY <3>1, <2>0 DEF Accounted, ErrorsTold, Settled, Sent, NoStats
    <2> QED
        BY <2>2, <2>3 DEF HealthTold
<1> QED
    BY StatusStarts, StatusStep, <1>1, PTL DEF StatusSpec
=============================================================================
