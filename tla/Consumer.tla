------------------------------ MODULE Consumer ------------------------------
(***************************************************************************)
(* pkg/kafka/consumer: one goroutine polls, calls the application's         *)
(* function, and stores the offset of what was processed; librdkafka        *)
(* commits stored offsets in the background.  After a crash, or a stop and  *)
(* a new start, it goes on from the committed offsets.                      *)
(***************************************************************************)
EXTENDS EventStore

CONSTANTS
    MaxRestarts,   \* bound
    MaxLog,        \* bound: messages per partition at which others stop writing
    ErrCap         \* capacity of errCh

ASSUME ConsumerAssumption == MaxRestarts \in Nat /\ MaxLog \in Nat /\ ErrCap \in Nat

VARIABLES
    dryRun,     \* !enableAutoCommit
    ctxDone,    \* the context given to HandleEvents
    step,       \* of the goroutine ("absent": no program consumes the topic)
    cur,        \* the message it is at: its partition and offset
    position,   \* of each partition: the next offset to poll,
    stored,     \*   the offset stored,
    committed,  \*   and the one committed at the broker
    errs,       \* errors waiting in errCh
    restarts,
    handed,     \* (history) messages the application's function has ended for,
    failed,     \*   those it failed on,
    reported,   \*   those an error was sent for, or dropped because errCh was full
    manual      \* (history) messages the application called CommitMessage with

offsetVars   == <<position, stored, committed>>
historyVars  == <<handed, failed, reported, manual>>
consumerVars == <<dryRun, ctxDone, step, cur, offsetVars, errs, restarts, historyVars>>

\* Messages of other programs, with and without a value.
OtherMessage == -2
EmptyMessage == -3
Nothing == <<>>
Start   == [p \in Partitions |-> 1]

ConsumerInit ==
    /\ dryRun \in BOOLEAN /\ ctxDone = FALSE
    /\ step \in {"absent", "check"} /\ cur = Nothing
    /\ position = Start /\ stored = Start /\ committed = Start
    /\ errs = 0 /\ restarts = 0
    /\ handed = {} /\ failed = {} /\ reported = {} /\ manual = {}

\* sendError: errCh takes the error, or it is dropped.
SendError ==
    /\ errs' = IF errs < ErrCap THEN errs + 1 ELSE errs
    /\ reported' = reported \cup {cur}

\* select { case <-ctx.Done(): return; default: }
CheckContext ==
    /\ step = "check"
    /\ step' = IF ctxDone THEN "stopped" ELSE "poll"
    /\ UNCHANGED <<dryRun, ctxDone, cur, offsetVars, errs, restarts, historyVars>>

PollNothing ==
    /\ step = "poll"
    /\ step' = "check"
    /\ UNCHANGED <<dryRun, ctxDone, cur, offsetVars, errs, restarts, historyVars>>

\* handleEvent: a message without content is an error, the others go to
\* processMessageFunc.
Dispatch(m) ==
    /\ cur' = m
    /\ step' = IF log[m[1]][m[2]] = EmptyMessage THEN "report" ELSE "handle"

\* Mutant: librdkafka stores offsets itself (enable.auto.offset.store).
PollStores(p) ==
    /\ step = "poll" /\ position[p] <= Len(log[p])
    /\ position' = [position EXCEPT ![p] = @ + 1]
    /\ stored' = [stored EXCEPT ![p] = position[p] + 1]
    /\ Dispatch(<<p, position[p]>>)
    /\ UNCHANGED <<dryRun, ctxDone, committed, errs, restarts, historyVars>>

\* Poll returns the next message of p.
Poll(p) ==
    /\ step = "poll" /\ position[p] <= Len(log[p])
    /\ position' = [position EXCEPT ![p] = @ + 1]
    /\ Dispatch(<<p, position[p]>>)
    /\ UNCHANGED <<dryRun, ctxDone, stored, committed, errs, restarts, historyVars>>

\* Mutant: the offset is stored whatever the function says.
HandleStores ==
    /\ step = "handle"
    /\ \/ failed' = failed \ {cur}
       \/ failed' = failed \cup {cur}
    /\ step' = IF dryRun THEN "check" ELSE "store"
    /\ handed' = handed \cup {cur}
    /\ UNCHANGED <<dryRun, ctxDone, cur, offsetVars, errs, restarts, reported, manual>>

\* processMessageFunc(ctx, msg) ends.
Handle ==
    /\ step = "handle"
    /\ \/ /\ failed' = failed \ {cur}
          /\ step' = IF dryRun THEN "check" ELSE "store"
       \/ /\ failed' = failed \cup {cur}
          /\ step' = "report"
    /\ handed' = handed \cup {cur}
    /\ UNCHANGED <<dryRun, ctxDone, cur, offsetVars, errs, restarts, reported, manual>>

\* StoreMessage, which fails for a partition that is not assigned any more.
StoreMessage ==
    /\ step = "store"
    /\ \/ /\ stored' = [stored EXCEPT ![cur[1]] = cur[2] + 1]
          /\ step' = "check"
       \/ step' = "report" /\ UNCHANGED stored
    /\ UNCHANGED <<dryRun, ctxDone, cur, position, committed, errs, restarts, historyVars>>

ReportError ==
    /\ step = "report"
    /\ SendError
    /\ step' = "check"
    /\ UNCHANGED <<dryRun, ctxDone, cur, offsetVars, restarts, handed, failed, manual>>

\* The application reads errCh.
ReadError ==
    /\ errs > 0
    /\ errs' = errs - 1
    /\ UNCHANGED <<dryRun, ctxDone, step, cur, offsetVars, restarts, historyVars>>

\* Commit, or librdkafka's own, also in Close.
Commit ==
    /\ committed # stored
    /\ committed' = stored
    /\ UNCHANGED <<dryRun, ctxDone, step, cur, position, stored, errs, restarts, historyVars>>

\* CommitMessage, of the message the application was given last.
CommitMessage ==
    /\ cur # Nothing /\ manual = {}
    /\ log[cur[1]][cur[2]] # EmptyMessage
    /\ committed' = [committed EXCEPT ![cur[1]] = cur[2] + 1]
    /\ manual' = {cur}
    /\ UNCHANGED <<dryRun, ctxDone, step, cur, position, stored, errs, restarts, handed, failed, reported>>

Cancel ==
    /\ ~ctxDone /\ step # "absent"
    /\ ctxDone' = TRUE
    /\ UNCHANGED <<dryRun, step, cur, offsetVars, errs, restarts, historyVars>>

\* The process ends at any point, and starts again.
Restart ==
    /\ step # "absent" /\ restarts < MaxRestarts
    /\ restarts' = restarts + 1
    /\ step' = "check" /\ cur' = Nothing /\ ctxDone' = FALSE /\ errs' = 0
    /\ position' = committed /\ stored' = committed
    /\ UNCHANGED <<dryRun, committed, historyVars>>
=============================================================================
