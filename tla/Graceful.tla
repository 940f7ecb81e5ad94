------------------------------ MODULE Graceful ------------------------------
(***************************************************************************)
(* pkg/graceful: RunAllBackground (and RunAllBackgroundFunc, whose task     *)
(* reads the first value of a channel), each task inside RunT, and RunAll   *)
(* as the reader of the error channel.                                      *)
(*                                                                          *)
(* A task t is three goroutines' worth of code: the one of RunAllBackground *)
(* that calls Run (pc), the one of RunT that calls do (do), and the process *)
(* that sends it signals.  What do does is up to the user: it may end with  *)
(* or without an error, panic, ignore its context, or hang.                 *)
(***************************************************************************)
EXTENDS Integers, FiniteSets

CONSTANTS
    Tasks,          \* the functions doFn
    ZeroTimeout     \* ShutdownTimeout was left zero in the options given

ASSUME TasksAssumption == IsFiniteSet(Tasks) /\ ZeroTimeout \in BOOLEAN

VARIABLES
    failFast,    \* o.FailFast
    parentDone,  \* the context of the caller is done
    cancelled,   \* cancel() of RunAllBackground's context was called
    signalled,   \* the process has received SIGINT or SIGTERM
    notified,    \* tasks whose NotifyContext was registered at a signal
    stopped,     \* tasks whose RunT has called stop()
    pc,          \* the goroutine of a task
    do,          \* its do function
    err,         \* the variable err of RunT, shared with the do goroutine
    res,         \* what Run returned
    errChan,     \* tasks whose error is in the channel
    closer,      \* the goroutine that closes the channel
    received,    \* tasks whose error RunAll has received
    reader       \* RunAll

ctxVars  == <<parentDone, cancelled, signalled, notified, stopped>>
taskVars == <<pc, do, err, res>>
chanVars == <<errChan, closer, received, reader>>
vars == <<failFast, ctxVars, taskVars, chanVars>>

Ended == {"nil", "error", "panicked"}   \* do has ended: shutdownCh is closed

TypeOK ==
    /\ failFast \in BOOLEAN /\ parentDone \in BOOLEAN
    /\ cancelled \in BOOLEAN /\ signalled \in BOOLEAN
    /\ notified \subseteq Tasks /\ stopped \subseteq Tasks
    /\ pc \in [Tasks -> {"start", "running", "stopping", "returning",
                         "failed", "sending", "done"}]
    /\ do \in [Tasks -> {"idle", "running", "recovering"} \cup Ended]
    /\ err \in [Tasks -> {"nil", "panic", "deadline"}]
    /\ res \in [Tasks -> {"none", "nil", "error", "panic", "deadline", "canceled"}]
    /\ errChan \subseteq Tasks /\ received \subseteq Tasks
    /\ closer \in {"waiting", "closed", "done"}
    /\ reader \in {"reading", "returned"}

Init ==
    /\ failFast \in BOOLEAN /\ parentDone \in BOOLEAN
    /\ cancelled = FALSE /\ signalled = FALSE
    /\ notified = {} /\ stopped = {}
    /\ pc = [t \in Tasks |-> "start"]
    /\ do = [t \in Tasks |-> "idle"]
    /\ err = [t \in Tasks |-> "nil"]
    /\ res = [t \in Tasks |-> "none"]
    /\ errChan = {} /\ received = {}
    /\ closer = "waiting" /\ reader = "reading"

\* The context RunAllBackground made, and the one RunT gave to do.
SharedDone  == parentDone \/ cancelled
CtxDone(t)  == SharedDone \/ t \in notified \/ t \in stopped
Cap         == Cardinality(Tasks)     \* make(chan error, len(doFn))
Closed      == closer # "waiting"

-----------------------------------------------------------------------------
(* The outside.                                                             *)

ParentCancel ==
    /\ ~parentDone
    /\ parentDone' = TRUE
    /\ UNCHANGED <<failFast, cancelled, signalled, notified, stopped, taskVars, chanVars>>

\* A signal reaches the contexts that are registered for it at that time;
\* were none, it would end the process.
Signal ==
    /\ ~signalled
    /\ \E t \in Tasks : pc[t] = "running"
    /\ signalled' = TRUE
    /\ notified' = {t \in Tasks : pc[t] = "running"}
    /\ UNCHANGED <<failFast, parentDone, cancelled, stopped, taskVars, chanVars>>

-----------------------------------------------------------------------------
(* RunT.                                                                    *)

\* A context that is already done ends it at once; otherwise do is started
\* under a context that is registered for signals.
Start(t) ==
    /\ pc[t] = "start"
    /\ IF SharedDone
       THEN /\ res' = [res EXCEPT ![t] = "canceled"]
            /\ pc' = [pc EXCEPT ![t] = "failed"]
            /\ UNCHANGED do
       ELSE /\ pc' = [pc EXCEPT ![t] = "running"]
            /\ do' = [do EXCEPT ![t] = "running"]
            /\ UNCHANGED res
    /\ UNCHANGED <<failFast, ctxVars, err, chanVars>>

\* The do function ends, which closes shutdownCh; a panic is first recovered
\* into err, whoever else may be writing err.
DoEnd(t) ==
    /\ do[t] = "running"
    /\ \/ \E out \in {"nil", "error"} : do' = [do EXCEPT ![t] = out] /\ UNCHANGED err
       \/ /\ do' = [do EXCEPT ![t] = "recovering"]
          /\ err' = [err EXCEPT ![t] = "panic"]
    /\ UNCHANGED <<failFast, ctxVars, pc, res, chanVars>>
Recovered(t) ==
    /\ do[t] = "recovering"
    /\ do' = [do EXCEPT ![t] = "panicked"]
    /\ UNCHANGED <<failFast, ctxVars, pc, err, res, chanVars>>

\* The first select, and stop().
FirstSelect(t) ==
    /\ pc[t] = "running"
    /\ CtxDone(t) \/ do[t] \in Ended
    /\ stopped' = stopped \cup {t}
    /\ pc' = [pc EXCEPT ![t] = "stopping"]
    /\ UNCHANGED <<failFast, parentDone, cancelled, signalled, notified,
                   do, err, res, chanVars>>

\* Mutant: it does not wait for do after its context was cancelled.
DoFinishedNoWait(t) ==
    /\ pc[t] = "stopping"
    /\ pc' = [pc EXCEPT ![t] = "returning"]
    /\ UNCHANGED <<failFast, ctxVars, do, err, res, chanVars>>

\* The second select: do has ended ...
DoFinished(t) ==
    /\ pc[t] = "stopping"
    /\ do[t] \in Ended
    /\ pc' = [pc EXCEPT ![t] = "returning"]
    /\ UNCHANGED <<failFast, ctxVars, do, err, res, chanVars>>

\* Mutant: there is no shutdown timeout.
NoShutdownTimeout(t) == FALSE /\ UNCHANGED vars

\* ... or ShutdownTimeout has passed.  A timer that is due when it is made is
\* ready with shutdownCh, and the select may choose either.
ShutdownTimeout(t) ==
    /\ pc[t] = "stopping"
    /\ do[t] \notin Ended \/ ZeroTimeout
    /\ err' = [err EXCEPT ![t] = "deadline"]
    /\ pc' = [pc EXCEPT ![t] = "returning"]
    /\ UNCHANGED <<failFast, ctxVars, do, res, chanVars>>

\* RunT returns, and Run with it: err if it is set, else do's result.
Return(t) ==
    /\ pc[t] = "returning"
    /\ res' = [res EXCEPT ![t] = IF err[t] # "nil" THEN err[t] ELSE do[t]]
    /\ pc' = [pc EXCEPT ![t] = IF res'[t] = "nil" THEN "done" ELSE "failed"]
    /\ UNCHANGED <<failFast, ctxVars, do, err, chanVars>>

-----------------------------------------------------------------------------
(* RunAllBackground.                                                        *)

\* Mutants: the siblings are cancelled whatever the option; they never are.
CancelAlways(t) ==
    /\ pc[t] = "failed"
    /\ cancelled' = TRUE
    /\ pc' = [pc EXCEPT ![t] = "sending"]
    /\ UNCHANGED <<failFast, parentDone, signalled, notified, stopped,
                   do, err, res, chanVars>>
CancelNever(t) ==
    /\ pc[t] = "failed"
    /\ pc' = [pc EXCEPT ![t] = "sending"]
    /\ UNCHANGED <<failFast, ctxVars, do, err, res, chanVars>>

\* An error cancels the siblings if FailFast is set ...
CancelSiblings(t) ==
    /\ pc[t] = "failed"
    /\ cancelled' = (cancelled \/ failFast)
    /\ pc' = [pc EXCEPT ![t] = "sending"]
    /\ UNCHANGED <<failFast, parentDone, signalled, notified, stopped,
                   do, err, res, chanVars>>

\* ... and is then sent.
Send(t) ==
    /\ pc[t] = "sending"
    /\ Cardinality(errChan) < Cap
    /\ errChan' = errChan \cup {t}
    /\ pc' = [pc EXCEPT ![t] = "done"]
    /\ UNCHANGED <<failFast, ctxVars, do, err, res, closer, received, reader>>

\* Mutant: the channel is closed once some task is done.
CloseEarly ==
    /\ closer = "waiting"
    /\ \E t \in Tasks : pc[t] = "done"
    /\ closer' = "closed"
    /\ UNCHANGED <<failFast, ctxVars, taskVars, errChan, received, reader>>

\* wg.Wait(); close(errChan)
Close ==
    /\ closer = "waiting"
    /\ \A t \in Tasks : pc[t] = "done"
    /\ closer' = "closed"
    /\ UNCHANGED <<failFast, ctxVars, taskVars, errChan, received, reader>>

\* cancel()
CloseCancel ==
    /\ closer = "closed"
    /\ closer' = "done" /\ cancelled' = TRUE
    /\ UNCHANGED <<failFast, parentDone, signalled, notified, stopped,
                   taskVars, errChan, received, reader>>

-----------------------------------------------------------------------------
(* RunAll: for errCh := range RunAllBackground(...).                         *)

Receive(t) ==
    /\ reader = "reading" /\ t \in errChan
    /\ errChan' = errChan \ {t}
    /\ received' = received \cup {t}
    /\ UNCHANGED <<failFast, ctxVars, taskVars, closer, reader>>

\* Mutant: the loop ends at the close, whatever is still in the channel.
ReaderDoneAtClose ==
    /\ reader = "reading" /\ Closed
    /\ reader' = "returned"
    /\ UNCHANGED <<failFast, ctxVars, taskVars, errChan, closer, received>>

\* The channel is closed and drained: RunAll returns errors.Join of received.
ReaderDone ==
    /\ reader = "reading" /\ Closed /\ errChan = {}
    /\ reader' = "returned"
    /\ UNCHANGED <<failFast, ctxVars, taskVars, errChan, closer, received>>

\* RunAll has returned, and nothing it started is left.
Terminated ==
    /\ reader = "returned" /\ closer = "done"
    /\ \A t \in Tasks : do[t] \notin {"running", "recovering"}
    /\ UNCHANGED vars

Next ==
    \/ ParentCancel \/ Signal
    \/ \E t \in Tasks :
        \/ Start(t) \/ DoEnd(t) \/ Recovered(t) \/ FirstSelect(t)
        \/ DoFinished(t) \/ ShutdownTimeout(t) \/ Return(t)
        \/ CancelSiblings(t) \/ Send(t) \/ Receive(t)
    \/ Close \/ CloseCancel \/ ReaderDone \/ Terminated

Spec == Init /\ [][Next]_vars

\* The scheduler runs every goroutine that can go on, and time passes.  The
\* do functions get no fairness: they may hang.
Fairness ==
    /\ \A t \in Tasks :
        /\ WF_vars(Start(t)) /\ WF_vars(Recovered(t)) /\ WF_vars(FirstSelect(t))
        /\ WF_vars(DoFinished(t) \/ ShutdownTimeout(t))
        /\ WF_vars(Return(t)) /\ WF_vars(CancelSiblings(t))
        /\ WF_vars(Send(t)) /\ WF_vars(Receive(t))
    /\ WF_vars(Close) /\ WF_vars(CloseCancel) /\ WF_vars(ReaderDone)

FairSpec == Spec /\ Fairness

-----------------------------------------------------------------------------
(* Properties.                                                              *)

\* A task that sends its error finds the channel open and with room, even if
\* nobody ever reads it: no panic, and no goroutine held up.
SendIsSafe ==
    \A t \in Tasks : pc[t] = "sending" => ~Closed /\ Cardinality(errChan) < Cap

\* RunAll returns exactly the errors of the tasks that failed.
ErrorsDelivered ==
    reader = "returned" => received = {t \in Tasks : res[t] # "nil"}

\* Package doc, FailFast true: who can see an error can rely on the others
\* having been cancelled.
FirstErrorCancels ==
    failFast /\ errChan \cup received # {} => cancelled

\* Package doc, FailFast false: all functions run to completion.  No one's
\* error, return or panic ends the context of another.
RunToCompletion ==
    \A t \in Tasks :
        ~failFast /\ ~parentDone /\ ~signalled /\ do[t] = "running" => ~CtxDone(t)

\* What FailFast promises, set or not.
FailFastHolds == FirstErrorCancels /\ RunToCompletion

\* Run's doc: it times out on a function that does not exit after its context
\* was ended from outside, and on no other.
TimeoutHasCause ==
    \A t \in Tasks : res[t] = "deadline" => SharedDone \/ t \in notified

\* When RunAll returns no function is still running, but for those it has
\* given up on, whose timeout is among the errors.
RunAllWaits ==
    \A t \in Tasks : reader = "returned" /\ do[t] = "running" =>
        res[t] = "deadline" /\ t \in received

\* A function that hangs cannot hold up RunAll once the context is done, nor
\* once another has failed with FailFast set.
StopsOnCancel == parentDone ~> (reader = "returned")
StopsOnError ==
    (failFast /\ \E t \in Tasks : res[t] \notin {"none", "nil"}) ~> (reader = "returned")
StopsInTime == StopsOnCancel /\ StopsOnError

-----------------------------------------------------------------------------
(* What the package doc says and the code does not do.                      *)

\* graceful.go:23-24 "When an OS signal (SIGINT/SIGTERM) is received: 1. The
\* context passed to the function is cancelled".
SignalCancelsAll ==
    \A t \in Tasks : signalled /\ do[t] = "running" => CtxDone(t)

\* graceful.go:33-34 "All Run functions recover from panics within the executed
\* function and return an ErrPanicRecovered error".
PanicsReturned ==
    [][\A t \in Tasks : Return(t) /\ do[t] = "panicked" => res'[t] = "panic"]_vars
=============================================================================
