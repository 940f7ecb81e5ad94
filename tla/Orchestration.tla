---------------------------- MODULE Orchestration ----------------------------
(***************************************************************************)
(* pkg/orchestration and pkg/task/runnable: one call of CallStagedServices. *)
(* CallServices is the case NStages = 1.                                    *)
(*                                                                          *)
(* RunServiceAction(stage, action) starts one goroutine per service of the  *)
(* stage.  The goroutine that runs the service's own code is "inner"; the   *)
(* one that waits for it, or for the context, writes taskErrors ("report"). *)
(* An abandoned inner goroutine keeps running after its report is "timeout".*)
(* Every action runs at most once per service in a call, so both are        *)
(* indexed by action and service.                                           *)
(***************************************************************************)
EXTENDS Integers, FiniteSets

CONSTANTS
    Services,       \* the services of all stages
    NStages,        \* len(stages)
    StageOf,        \* the stage of a service, counted from 1
    Recoverables,   \* services whose Recoverable has its Recovery func set
    DryRunServices  \* services wrapped by MakeDryRun

ASSUME OrchestrationAssumption ==
    /\ NStages \in Nat
    /\ StageOf \in [Services -> 1..NStages]
    /\ Recoverables \subseteq Services
    /\ DryRunServices \subseteq Services

VARIABLES
    dryRun,        \* ctx.Value("dryRun") # nil
    recover,       \* ctx.Value("recover") # nil
    skipRollback,  \* opts.SkipRollback
    ctxDone,       \* the caller's context is cancelled or past its deadline
    pc,            \* what CallStagedServices waits for
    stage,         \* its loop variable i, counted from 1
    result,        \* the error it returned
    inner,         \* inner[a][s]: the goroutine that runs action a of s
    report,        \* report[a][s]: taskErrors entry of s, once written
    rb,            \* rb[k]: RunServiceAction(stages[k], ROLLBACK)
    reported,      \* stages RollbackErrorReporter was called for
    effect,        \* services whose Run has changed the outside world
    response       \* the HTTP reply built by GenerateStagedResponse

callVars == <<dryRun, recover, skipRollback>>
mainVars == <<pc, stage, result, response>>
rbVars   == <<rb, reported>>
vars == <<callVars, ctxDone, mainVars, inner, report, rbVars, effect>>

Stages  == 1..NStages
Actions == {"CHECK", "RECOVER", "RUN", "ROLLBACK"}
InStage(k) == {s \in Services : StageOf[s] = k}

NoResponse == [status |-> 0, failed |-> {}]

TypeOK ==
    /\ dryRun \in BOOLEAN /\ recover \in BOOLEAN /\ skipRollback \in BOOLEAN
    /\ ctxDone \in BOOLEAN
    /\ pc \in {"stage", "CHECK", "RECOVER", "RUN", "returned", "replied"}
    /\ stage \in 1..(NStages + 1)
    /\ result \in {"none", "nil", "checksFailed", "unrecovered", "runsFailed"}
    /\ inner \in [Actions -> [Services -> {"idle", "running", "ok", "failed"}]]
    /\ report \in [Actions -> [Services -> {"unset", "nil", "error", "timeout"}]]
    /\ rb \in [Stages -> {"off", "spawned", "running", "done"}]
    /\ reported \subseteq Stages
    /\ effect \subseteq Services
    /\ response \in [status : {0, 200, 500}, failed : SUBSET Services]

Init ==
    /\ dryRun \in BOOLEAN /\ recover \in BOOLEAN /\ skipRollback \in BOOLEAN
    /\ ctxDone = FALSE
    /\ pc = "stage" /\ stage = 1 /\ result = "none"
    /\ inner = [a \in Actions |-> [s \in Services |-> "idle"]]
    /\ report = [a \in Actions |-> [s \in Services |-> "unset"]]
    /\ rb = [k \in Stages |-> "off"]
    /\ reported = {} /\ effect = {}
    /\ response = NoResponse

-----------------------------------------------------------------------------
(* task.Run: start the goroutines, collect their errors, wait for all.      *)

\* RunServiceAction(stages[k], a) up to g.Wait: every task gets its goroutine.
StartAction(a, k) ==
    inner' = [inner EXCEPT ![a] =
                [s \in Services |-> IF s \in InStage(k) THEN "running" ELSE @[s]]]

\* Mutant: the wait ends at the first error, as errgroup's Wait would with
\* tasks that return theirs.
WaitedFailFast(a, k) ==
    \/ \A s \in InStage(k) : report[a][s] # "unset"
    \/ \E s \in InStage(k) : report[a][s] = "error"

\* g.Wait has returned: every task of stage k has its taskErrors entry.
Waited(a, k) == \A s \in InStage(k) : report[a][s] # "unset"

\* Mutant: a task that timed out is taken for one without error.
AnyErrorNoTimeout(a, k) == \E s \in InStage(k) : report[a][s] = "error"

AnyError(a, k) == \E s \in InStage(k) : report[a][s] # "nil"

\* What the service's own code may do (a panic is recovered into an error).
\* A DryRunService neither runs nor rolls back; Recover without a Recovery
\* func is an error.
CanSucceed(a, s) == a = "RECOVER" => s \in Recoverables
CanFail(a, s)    == a \in {"RUN", "ROLLBACK"} => s \notin DryRunServices

\* A Run that fails may already have had its effect.
EffectsAfter(a, s, out) ==
    CASE a = "RUN" /\ s \notin DryRunServices ->
            IF out = "ok" THEN {effect \cup {s}} ELSE {effect, effect \cup {s}}
      [] a = "ROLLBACK" /\ s \notin DryRunServices /\ out = "ok" -> {effect \ {s}}
      [] OTHER -> {effect}

\* The inner goroutine of service s ends (also long after its report timed out).
Finish(a, s) ==
    /\ inner[a][s] = "running"
    /\ \E out \in {"ok", "failed"} :
        /\ out = "ok" => CanSucceed(a, s)
        /\ out = "failed" => CanFail(a, s)
        /\ inner' = [inner EXCEPT ![a][s] = out]
        /\ effect' \in EffectsAfter(a, s, out)
    /\ UNCHANGED <<callVars, ctxDone, mainVars, report, rbVars>>

\* select: case err := <-errCh
Collect(a, s) ==
    /\ inner[a][s] \in {"ok", "failed"}
    /\ report[a][s] = "unset"
    /\ report' = [report EXCEPT ![a][s] = IF inner[a][s] = "ok" THEN "nil" ELSE "error"]
    /\ UNCHANGED <<callVars, ctxDone, mainVars, inner, rbVars, effect>>

\* Mutant: the select has no ctx.Done branch.
NoTimeout(a, s) == FALSE /\ UNCHANGED vars

\* select: case <-ctx.Done(), also when the task's error is ready.
Timeout(a, s) ==
    /\ ctxDone
    /\ inner[a][s] # "idle"
    /\ report[a][s] = "unset"
    /\ report' = [report EXCEPT ![a][s] = "timeout"]
    /\ UNCHANGED <<callVars, ctxDone, mainVars, inner, rbVars, effect>>

\* The caller cancels the context, or its deadline passes.
CtxCancel ==
    /\ ~ctxDone
    /\ ctxDone' = TRUE
    /\ UNCHANGED <<callVars, mainVars, inner, report, rbVars, effect>>

-----------------------------------------------------------------------------
(* CallServices and CallStagedServices.                                     *)

\* Head of the loop: start the checks of the next stage, or return success.
StartStage ==
    /\ pc = "stage"
    /\ IF stage \in Stages
       THEN /\ StartAction("CHECK", stage)
            /\ pc' = "CHECK"
            /\ UNCHANGED result
       ELSE /\ pc' = "returned" /\ result' = "nil"
            /\ UNCHANGED inner
    /\ UNCHANGED <<callVars, ctxDone, stage, response, report, rbVars, effect>>

\* The stage has passed.
NextStage ==
    /\ pc' = "stage" /\ stage' = stage + 1
    /\ UNCHANGED <<result, inner, rb>>

\* Start the Run functions of the stage.
StartRuns ==
    /\ StartAction("RUN", stage)
    /\ pc' = "RUN"
    /\ UNCHANGED <<stage, result, rb>>

\* Mutants: the failed stage is rolled back whatever failed; the earlier
\* stages all at once; the loop stops before the first stage (j > 0).
RollbacksAlwaysOwn(err) ==
    IF skipRollback THEN {} ELSE {k \in Stages : k \in {stage, stage - 1}}
RollbacksAtOnce(err) ==
    IF skipRollback THEN {}
    ELSE {k \in Stages : k < stage \/ (k = stage /\ err = "runsFailed")}
RollbacksNotFirst(err) ==
    IF skipRollback THEN {}
    ELSE {k \in Stages : \/ k = stage /\ err = "runsFailed"
                         \/ k = stage - 1 /\ k > 1}

\* The failing stage's own rollback (only after a failed Run), and the
\* goroutine that walks the earlier stages, whose first stop is stage - 1.
RollbacksOf(err) ==
    IF skipRollback THEN {}
    ELSE {k \in Stages : \/ k = stage /\ err = "runsFailed"
                         \/ k = stage - 1}

\* CallServices returned an error and CallStagedServices returns it.
Fail(err) ==
    /\ pc' = "returned" /\ result' = err
    /\ rb' = [k \in Stages |-> IF k \in RollbacksOf(err) THEN "spawned" ELSE rb[k]]
    /\ UNCHANGED <<stage, inner>>

AfterCheck ==
    /\ pc = "CHECK" /\ Waited("CHECK", stage)
    /\ \/ /\ AnyError("CHECK", stage) /\ ~dryRun /\ recover
          /\ StartAction("RECOVER", stage)
          /\ pc' = "RECOVER"
          /\ UNCHANGED <<stage, result, rb>>
       \/ /\ AnyError("CHECK", stage) /\ (dryRun \/ ~recover)
          /\ Fail("checksFailed")
       \/ /\ ~AnyError("CHECK", stage) /\ ~dryRun
          /\ StartRuns
       \/ /\ ~AnyError("CHECK", stage) /\ dryRun
          /\ NextStage
    /\ UNCHANGED <<callVars, ctxDone, response, report, reported, effect>>

\* Mutant: a failed recovery is ignored.
AfterRecoverAlways ==
    /\ pc = "RECOVER" /\ Waited("RECOVER", stage)
    /\ StartRuns
    /\ UNCHANGED <<callVars, ctxDone, response, report, reported, effect>>

AfterRecover ==
    /\ pc = "RECOVER" /\ Waited("RECOVER", stage)
    /\ IF AnyError("RECOVER", stage) THEN Fail("unrecovered") ELSE StartRuns
    /\ UNCHANGED <<callVars, ctxDone, response, report, reported, effect>>

AfterRun ==
    /\ pc = "RUN" /\ Waited("RUN", stage)
    /\ IF AnyError("RUN", stage) THEN Fail("runsFailed") ELSE NextStage
    /\ UNCHANGED <<callVars, ctxDone, response, report, reported, effect>>

\* A rollback goroutine calls RunServiceAction(stages[k], ROLLBACK).
StartRollback(k) ==
    /\ rb[k] = "spawned"
    /\ rb' = [rb EXCEPT ![k] = "running"]
    /\ StartAction("ROLLBACK", k)
    /\ UNCHANGED <<callVars, ctxDone, mainVars, report, reported, effect>>

\* It returns: the reporter is called, and the goroutine that walks the
\* earlier stages goes on with the one before.
EndRollback(k) ==
    /\ rb[k] = "running" /\ Waited("ROLLBACK", k)
    /\ rb' = [j \in Stages |-> CASE j = k -> "done"
                                 [] j = k - 1 /\ k < stage -> "spawned"
                                 [] OTHER -> rb[j]]
    /\ reported' = reported \cup {k}
    /\ UNCHANGED <<callVars, ctxDone, mainVars, inner, report, effect>>

-----------------------------------------------------------------------------
(* GenerateStagedResponse.                                                  *)

\* Mutant: the errors of the checks are returned whatever failed.
ErrsOfCheck == "CHECK"

\* The action whose errors CallStagedServices returned for the failed stage.
ErrsOf == IF result = "runsFailed" THEN "RUN" ELSE "CHECK"

GenerateStagedResponse ==
    IF result = "nil"
    THEN [status |-> 200, failed |-> {}]
    ELSE [status |-> 500,
          failed |-> {s \in InStage(stage) : report[ErrsOf][s] # "nil"}]

\* CallStagedServicesAndReply, after the call.
Reply ==
    /\ pc = "returned"
    /\ pc' = "replied"
    /\ response' = GenerateStagedResponse
    /\ UNCHANGED <<callVars, ctxDone, stage, result, inner, report, rbVars, effect>>

\* The reply is sent and every goroutine of the call has ended.
Ended ==
    /\ pc = "replied"
    /\ \A a \in Actions, s \in Services : inner[a][s] # "running"
    /\ \A k \in Stages : rb[k] \in {"off", "done"}
    /\ UNCHANGED vars

Next ==
    \/ Ended
    \/ \E a \in Actions, s \in Services :
            Finish(a, s) \/ Collect(a, s) \/ Timeout(a, s)
    \/ CtxCancel
    \/ StartStage \/ AfterCheck \/ AfterRecover \/ AfterRun \/ Reply
    \/ \E k \in Stages : StartRollback(k) \/ EndRollback(k)

Spec == Init /\ [][Next]_vars

\* The Go scheduler runs every goroutine that can go on, and the context the
\* caller passes ends at some time (a deadline, or the end of its request).
\* A service's own code may hang: Finish is not fair.
Main == StartStage \/ AfterCheck \/ AfterRecover \/ AfterRun \/ Reply

Fairness ==
    /\ WF_vars(CtxCancel)
    /\ WF_vars(Main)
    /\ \A s \in Services : WF_vars(\E a \in Actions : Collect(a, s) \/ Timeout(a, s))
    /\ \A k \in Stages : WF_vars(StartRollback(k) \/ EndRollback(k))

FairSpec == Spec /\ Fairness

-----------------------------------------------------------------------------
(* Properties.                                                              *)

Started(a, s) == inner[a][s] # "idle"
Reported(a, k, err) == \A s \in InStage(k) : report[a][s] = err

\* readme.md: a Service's Run starts only when all services of its stage have
\* passed their Check, or all have been recovered, and never in a dry run.
RunAfterCheck ==
    \A s \in Services : Started("RUN", s) =>
        /\ ~dryRun
        /\ \/ Reported("CHECK", StageOf[s], "nil")
           \/ recover /\ Reported("RECOVER", StageOf[s], "nil")

\* CallStagedServices touches a stage only when every earlier stage passed:
\* all its runs without error, or all its checks in a dry run.
StageOrder ==
    \A s \in Services : Started("CHECK", s) =>
        \A k \in 1..(StageOf[s] - 1) :
            Reported(IF dryRun THEN "CHECK" ELSE "RUN", k, "nil")

\* Outside dry runs, Rollback is for services whose Run was called and whose
\* Run report is in, of a call that has failed without opts.SkipRollback.
RollbackAfterRun ==
    \A s \in Services : Started("ROLLBACK", s) =>
        /\ ~skipRollback
        /\ result \in {"checksFailed", "unrecovered", "runsFailed"}
        /\ dryRun \/ report["RUN"][s] # "unset"

\* The order in which the services of a call are checked, run and rolled back.
CallOrder == RunAfterCheck /\ StageOrder /\ RollbackAfterRun

\* A service rolled back successfully has no effect left, unless its Run was
\* abandoned at the context's end and is still going on beside the rollback.
RollbackUndoes ==
    \A s \in Services :
        inner["ROLLBACK"][s] = "ok" /\ s \in effect => report["RUN"][s] = "timeout"

\* A 200 reply means every service of every stage did its work (its Check, in
\* a dry run); a 500 reply names at least one service that failed.
ResponseSound ==
    /\ response.status = 200 =>
        \A s \in Services : report[IF dryRun THEN "CHECK" ELSE "RUN"][s] = "nil"
    /\ response.status = 500 => response.failed # {}

\* The goroutine that walks the earlier stages goes backwards: a stage before
\* the failed one rolls back only after the next one of them has.
EarlierStagesReversed ==
    \A j, k \in Stages :
        j < k /\ k < stage /\ rb[j] # "off" => rb[k] = "done"

\* A service that hangs cannot hang the call: it replies.
CallReplies == <>(pc = "replied")

\* When a stage fails, every service of the call whose Run was called gets its
\* Rollback called, whatever the other services and their rollbacks do.
RollbackReachesAll ==
    \A s \in Services :
        (result \notin {"none", "nil"} /\ ~skipRollback /\ Started("RUN", s))
            ~> Started("ROLLBACK", s)

\* The call ends, and what it leaves to the background is done.
CallEnds == CallReplies /\ RollbackReachesAll

\* The abstract call: a stage has committed when the loop went past it, and is
\* being undone from the start of its rollback to its end.
SagaOutcome == CASE result = "none" -> "running"
                 [] result = "nil"  -> "succeeded"
                 [] OTHER           -> "failed"
SagaUndo == [k \in Stages |-> CASE rb[k] = "running" -> "started"
                               [] rb[k] = "done"    -> "done"
                               [] OTHER             -> "no"]
AbstractSaga == INSTANCE Saga WITH
    N <- NStages, committed <- stage - 1, outcome <- SagaOutcome, undo <- SagaUndo

\* CallStagedServices is a saga: it decides once, at the first stage that
\* fails, and undoes the stages before it in reverse, each at most once.
ImplementsSaga == AbstractSaga!Spec

-----------------------------------------------------------------------------
(* What comments of the code say and the code does not do.                  *)

\* api_service.go:59 "Recovery ... is called when recover is set and there is
\* an error during the check stage of this specific Service".
RecoverOnlyFailed ==
    \A s \in Services : Started("RECOVER", s) => report["CHECK"][s] # "nil"

\* api_service.go:151 "Stage failed. Rollback all stages that ran in reversed
\* order": no stage is rolled back before a later stage that ran.
AllStagesReversed ==
    \A j, k \in Stages :
        /\ j < k
        /\ \E s \in InStage(k) : Started("RUN", s)
        /\ rb[j] \in {"running", "done"}
        => rb[k] = "done"

\* api_service.go:151 "Rollback all stages that ran": a stage whose services
\* were never run is not rolled back.
OnlyRunStagesRolledBack ==
    \A s \in Services : Started("ROLLBACK", s) => Started("RUN", s)

\* api_service.go:77 "RollbackErrorReporter is called when a SERVICE_ROLLBACK
\* action results in one or more errors".
ReporterOnlyOnErrors == \A k \in reported : AnyError("ROLLBACK", k)
=============================================================================
