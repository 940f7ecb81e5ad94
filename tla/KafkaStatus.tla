----------------------------- MODULE KafkaStatus -----------------------------
(***************************************************************************)
(* pkg/kafka/stats, and the goroutine of a producer (MonitorEvents) or a   *)
(* consumer (HandleEvents) that keeps it up to date: librdkafka reports    *)
(* statistics and errors, from which the status is made that the program   *)
(* and its /status and /stats endpoints read, each on its own goroutine.   *)
(* The status is read and written under its lock, field by field           *)
(* elsewhere: ShowStatus and Stats return pointers.                        *)
(***************************************************************************)
EXTENDS Naturals, FiniteSets, Sequences

CONSTANTS
  Brokers,
  MaxEvents,  \* bound: statistics and errors
  ErrorRoom   \* capacity of the channel of errors

ASSUME KafkaStatusAssumption == IsFiniteSet(Brokers) /\ MaxEvents \in Nat /\ ErrorRoom \in Nat

VARIABLES
  statistics,  \* brokers: the state of those in its map; working: the idempotent
               \* producer has its ID, or the consumer is up and steady
  status,      \* overall, consuming, code
  monitoring,  \* the goroutine: "listens", "loaded", "refreshed", "failed", "ended"
  events,      \* (history) what it has handled
  errorCh,     \* errors in the channel
  dropped,     \* (history) errors there was no room for
  read,        \* (history) errors the program has read
  viewer,      \* a request for /status: where it is, its code, its body so far
  encoding,    \* a request for /stats walks over the map of the brokers
  fatal        \* the runtime has ended the program

statusVars ==
  <<statistics, status, monitoring, events, errorCh, dropped, read, viewer, encoding, fatal>>

\* What a broker is in is UP, DOWN, or one of the states between the two.
BrokerState == {"UP", "DOWN", "INIT"}
Reports == UNION {[B -> BrokerState] : B \in SUBSET Brokers}

Counted(brokers, state) == Cardinality({b \in DOMAIN brokers : brokers[b] = state})

ParseStatus(brokers) ==
  LET known == Cardinality(DOMAIN brokers) IN
  CASE known = 0 -> "UNKNOWN"
    [] known > 0 /\ Counted(brokers, "UP") = known -> "UP"
    [] known > 0 /\ Counted(brokers, "DOWN") = known -> "DOWN"
    [] known > 0 /\ Counted(brokers, "INIT") = known -> "UNKNOWN"
    [] OTHER -> "PARTIAL"

\* Down until proven otherwise.
DefaultKafkaStatus == [overall |-> "DOWN", consuming |-> "DOWN", code |-> 0]
IsHealthy(s) == s.overall # "DOWN" /\ s.consuming # "DOWN" /\ s.code = 0

NewInternalStatus(s) ==
  [overall |-> ParseStatus(s.brokers), consuming |-> IF s.working THEN "UP" ELSE "DOWN"]

Idle == [step |-> "idle", code |-> 0, body |-> DefaultKafkaStatus]

StatusInit ==
  /\ statistics = [brokers |-> <<>>, working |-> FALSE]
  /\ status = DefaultKafkaStatus
  /\ monitoring = "listens" /\ events = <<>>
  /\ errorCh = 0 /\ dropped = 0 /\ read = 0
  /\ viewer = Idle /\ encoding = FALSE /\ fatal = FALSE

-----------------------------------------------------------------------------
(* The goroutine that handles the events.                                   *)

\* The statistics are decoded into those there are: a broker that is not in
\* the report stays in the map.
Loaded(brokers, report) ==
  [b \in DOMAIN brokers \cup DOMAIN report |-> IF b \in DOMAIN report THEN report[b] ELSE brokers[b]]

\* A map that is written while another goroutine walks over it ends the program,
\* when the runtime notices.
StatsEvent ==
  /\ monitoring = "listens" /\ Len(events) < MaxEvents
  /\ \E report \in Reports, working \in BOOLEAN :
       /\ statistics' = [brokers |-> Loaded(statistics.brokers, report), working |-> working]
       /\ events' = Append(events, [kind |-> "stats", brokers |-> report, working |-> working])
  /\ fatal' \in IF encoding THEN BOOLEAN ELSE {fatal}
  /\ monitoring' = "loaded"
  /\ UNCHANGED <<status, errorCh, dropped, read, viewer, encoding>>

\* Statistics that cannot be decoded change nothing.
BadStatsEvent ==
  /\ monitoring = "listens" /\ Len(events) < MaxEvents
  /\ events' = Append(events, [kind |-> "bad"])
  /\ monitoring' = "failed"
  /\ UNCHANGED <<statistics, status, errorCh, dropped, read, viewer, encoding, fatal>>

\* Slip: the code of an earlier error is kept.
RefreshKeepsCode ==
  /\ monitoring = "loaded"
  /\ LET new == NewInternalStatus(statistics) IN
       status' = [overall |-> new.overall, consuming |-> new.consuming, code |-> status.code]
  /\ monitoring' = "refreshed"
  /\ UNCHANGED <<statistics, events, errorCh, dropped, read, viewer, encoding, fatal>>

\* Refresh: the status of the statistics, and no code.
Refresh ==
  /\ monitoring = "loaded"
  /\ LET new == NewInternalStatus(statistics) IN
       status' = [overall |-> new.overall, consuming |-> new.consuming, code |-> 0]
  /\ monitoring' = "refreshed"
  /\ UNCHANGED <<statistics, events, errorCh, dropped, read, viewer, encoding, fatal>>

\* An unhealthy status is an error of its own.
Judge ==
  /\ monitoring = "refreshed"
  /\ monitoring' = IF IsHealthy(status) THEN "listens" ELSE "failed"
  /\ UNCHANGED <<statistics, status, events, errorCh, dropped, read, viewer, encoding, fatal>>

\* SetCode; the error is fatal, not retriable or a broker's, and is sent on.
ErrorEvent ==
  /\ monitoring = "listens" /\ Len(events) < MaxEvents
  /\ events' = Append(events, [kind |-> "error"])
  /\ status' = [status EXCEPT !.code = 1]
  /\ monitoring' = "failed"
  /\ UNCHANGED <<statistics, errorCh, dropped, read, viewer, encoding, fatal>>

\* sendError never blocks.
SendStatusError ==
  /\ monitoring = "failed"
  /\ IF errorCh < ErrorRoom THEN errorCh' = errorCh + 1 /\ UNCHANGED dropped
     ELSE dropped' = dropped + 1 /\ UNCHANGED errorCh
  /\ monitoring' = "listens"
  /\ UNCHANGED <<statistics, status, events, read, viewer, encoding, fatal>>

\* The context is done.
MonitorEnds ==
  /\ monitoring = "listens"
  /\ monitoring' = "ended"
  /\ UNCHANGED <<statistics, status, events, errorCh, dropped, read, viewer, encoding, fatal>>

-----------------------------------------------------------------------------
(* Those who read.                                                          *)

ReadStatusError ==
  /\ errorCh > 0
  /\ errorCh' = errorCh - 1 /\ read' = read + 1
  /\ UNCHANGED <<statistics, status, monitoring, events, dropped, viewer, encoding, fatal>>

\* HandleStatus takes the pointer and asks for the health under the lock ...
HandleStatus ==
  /\ viewer.step = "idle"
  /\ viewer' = [Idle EXCEPT !.step = "overall", !.code = IF IsHealthy(status) THEN 200 ELSE 503]
  /\ UNCHANGED <<statistics, status, monitoring, events, errorCh, dropped, read, encoding, fatal>>

After(field) == CASE field = "overall" -> "code" [] field = "code" -> "consuming" [] field = "consuming" -> "answered"

\* ... and the answer is encoded from it afterwards, field by field.
EncodeStatus ==
  /\ viewer.step \in DOMAIN status
  /\ viewer' = [viewer EXCEPT !.step = After(@), !.body[viewer.step] = status[viewer.step]]
  /\ UNCHANGED <<statistics, status, monitoring, events, errorCh, dropped, read, encoding, fatal>>

StatusAnswered ==
  /\ viewer.step = "answered"
  /\ viewer' = Idle
  /\ UNCHANGED <<statistics, status, monitoring, events, errorCh, dropped, read, encoding, fatal>>

\* HandleStats returns the pointer; the walk over the map begins, and ends.
HandleStats ==
  /\ encoding' = ~encoding
  /\ UNCHANGED <<statistics, status, monitoring, events, errorCh, dropped, read, viewer, fatal>>

StatusNext ==
  /\ ~fatal
  /\ \/ StatsEvent \/ BadStatsEvent \/ Refresh \/ Judge \/ ErrorEvent \/ SendStatusError \/ MonitorEnds
     \/ ReadStatusError \/ HandleStatus \/ EncodeStatus \/ StatusAnswered \/ HandleStats

StatusSpec == StatusInit /\ [][StatusNext]_statusVars

-----------------------------------------------------------------------------
(* Properties.                                                              *)

Settled == monitoring \in {"listens", "ended"}
LastMeant(i) ==
  i \in DOMAIN events /\ events[i].kind # "bad" /\ \A j \in DOMAIN events : j > i => events[j].kind = "bad"
Told(b) == {i \in DOMAIN events : events[i].kind = "stats" /\ b \in DOMAIN events[i].brokers}
LastTold(b) == events[CHOOSE i \in Told(b) : \A j \in Told(b) : j <= i].brokers[b]
Heard == {b \in Brokers : Told(b) # {}}

\* Once an event is handled the status is healthy exactly if it were statistics
\* that said so: the client works, no error came after them, and of the brokers
\* ever heard of, one was not down when it was last heard of, or there are none
\* (status.go:52 "Default to down until proven otherwise").
HealthFollows ==
  Settled =>
    (IsHealthy(status) <=>
       /\ \E i \in DOMAIN events : LastMeant(i) /\ events[i].kind = "stats" /\ events[i].working
       /\ Heard = {} \/ \E b \in Heard : LastTold(b) # "DOWN")

\* Every event that was an error or left the client unhealthy is read, waits in
\* the channel or was dropped for want of room; a healthy one is none.
ErrorsTold ==
  Settled =>
    /\ read + errorCh + dropped <= Len(events)
    /\ read + errorCh + dropped >= Cardinality({i \in DOMAIN events : events[i].kind # "stats"})
    /\ ~IsHealthy(status) /\ events # <<>> => read + errorCh + dropped > 0

\* What the status says of librdkafka's reports, and who hears of it.
HealthTold == HealthFollows /\ ErrorsTold

-----------------------------------------------------------------------------
(* What one would expect of the endpoints, and the code does not do.        *)

\* An answer says of itself what its status line says.
AnswerAgrees == viewer.step = "answered" => (viewer.code = 200 <=> IsHealthy(viewer.body))

\* stats.go:84: the walk over the statistics holds no lock.
NeverFatal == ~fatal

\* A broker that is gone does not count any more.
OnlyReportedCount ==
  Settled /\ events # <<>> /\ events[Len(events)].kind = "stats" => statistics.brokers = events[Len(events)].brokers
=============================================================================
