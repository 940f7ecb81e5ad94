------------------------- MODULE OrchestrationProofs -------------------------
(***************************************************************************)
(* Proofs about Orchestration, for any number of stages and services, which *)
(* use OrchestrationAssumption only; and, in the last part, about the REST  *)
(* services of RestApiService, for which RestAssumption is used as well.    *)
(***************************************************************************)
EXTENDS RestApiService, TLAPS

-----------------------------------------------------------------------------
(* The inductive invariant.                                                 *)

Failures == {"checksFailed", "unrecovered", "runsFailed"}

\* The main goroutine: where it is, against what it has returned.
MainInv ==
    /\ pc \in {"CHECK", "RECOVER", "RUN"} => stage \in Stages
    /\ pc \in {"stage", "CHECK", "RECOVER", "RUN"} <=> result = "none"
    /\ result = "nil" => stage = NStages + 1
    /\ result \in Failures => stage \in Stages
    /\ pc = "RECOVER" => recover /\ ~dryRun
    /\ pc = "RUN" => ~dryRun

\* A stage that has not been reached by an action has no goroutine for it.
Reach(s) ==
    /\ Started("CHECK", s) =>
          StageOf[s] <= stage /\ (pc = "stage" => StageOf[s] < stage)
    /\ Started("RECOVER", s) =>
          StageOf[s] <= stage /\ (pc \in {"stage", "CHECK"} => StageOf[s] < stage)
    /\ Started("RUN", s) =>
          StageOf[s] <= stage
          /\ (pc \in {"stage", "CHECK", "RECOVER"} => StageOf[s] < stage)
    /\ Started("ROLLBACK", s) => rb[StageOf[s]] \in {"running", "done"}
ReachInv == \A s \in Services : Reach(s)

\* taskErrors entries are written for started tasks, and only the timeout
\* branch writes one while the inner goroutine is still running.
ReportOK(a, s) ==
    /\ report[a][s] # "unset" => inner[a][s] # "idle"
    /\ report[a][s] = "nil" => inner[a][s] = "ok"
    /\ report[a][s] = "error" => inner[a][s] = "failed"
ReportInv == \A a \in Actions, s \in Services : ReportOK(a, s)

\* The stages the loop has left behind have passed.
PassedInv ==
    \A s \in Services : StageOf[s] < stage =>
        report[IF dryRun THEN "CHECK" ELSE "RUN"][s] = "nil"

FailedIn(a, k) == \E s \in InStage(k) : report[a][s] \in {"error", "timeout"}

\* A returned failure is backed by reports that are in.
OutcomeInv ==
    /\ pc = "RECOVER" \/ result \in {"checksFailed", "unrecovered"} =>
            FailedIn("CHECK", stage)
    /\ result = "runsFailed" =>
            Waited("RUN", stage) /\ FailedIn("RUN", stage) /\ ~dryRun
    /\ response.status = 200 => result = "nil"
    /\ response.status = 500 => response.failed # {}

\* Rollbacks: only of stages that were left or whose runs failed.
RollbackInv ==
    \A k \in Stages : rb[k] # "off" =>
        /\ ~skipRollback
        /\ result \in Failures
        /\ k < stage \/ (k = stage /\ result = "runsFailed")

\* A DryRunService has no effect.
EffectInv == effect \cap DryRunServices = {}

Inv == /\ TypeOK /\ MainInv /\ ReachInv /\ ReportInv /\ PassedInv
       /\ RunAfterCheck /\ OutcomeInv /\ RollbackInv /\ EarlierStagesReversed
       /\ EffectInv /\ RollbackUndoes

-----------------------------------------------------------------------------
(* What starting an action on a stage does to the goroutines.               *)

LEMMA StartActionFacts ==
    ASSUME TypeOK, NEW a \in Actions, NEW k \in Stages, StartAction(a, k)
    PROVE  /\ inner' \in [Actions -> [Services -> {"idle", "running", "ok", "failed"}]]
           /\ \A b \in Actions, s \in Services :
                inner'[b][s] = IF b = a /\ StageOf[s] = k THEN "running" ELSE inner[b][s]
  BY DEF TypeOK, StartAction, InStage

LEMMA FailFacts ==
    ASSUME TypeOK, NEW err \in Failures, Fail(err)
    PROVE  /\ pc' = "returned" /\ result' = err
           /\ stage' = stage /\ inner' = inner
           /\ rb' \in [Stages -> {"off", "spawned", "running", "done"}]
           /\ \A k \in Stages :
                rb'[k] = IF k \in RollbacksOf(err) THEN "spawned" ELSE rb[k]
  BY DEF TypeOK, Fail

-----------------------------------------------------------------------------
(* The ways AfterCheck, AfterRecover and AfterRun may end.                  *)

AfterUnchanged == UNCHANGED <<callVars, ctxDone, response, report, reported, effect>>

ToRecover ==
    /\ pc = "CHECK" /\ stage \in Stages /\ result = "none"
    /\ recover /\ ~dryRun /\ FailedIn("CHECK", stage)
    /\ StartAction("RECOVER", stage)
    /\ pc' = "RECOVER"
    /\ UNCHANGED <<stage, result, rb>> /\ AfterUnchanged

ToRun ==
    /\ pc \in {"CHECK", "RECOVER"} /\ stage \in Stages /\ result = "none"
    /\ ~dryRun
    /\ \/ Reported("CHECK", stage, "nil")
       \/ recover /\ Reported("RECOVER", stage, "nil")
    /\ StartAction("RUN", stage)
    /\ pc' = "RUN"
    /\ UNCHANGED <<stage, result, rb>> /\ AfterUnchanged

ToNext ==
    /\ pc \in {"CHECK", "RUN"} /\ stage \in Stages /\ result = "none"
    /\ Reported(IF dryRun THEN "CHECK" ELSE "RUN", stage, "nil")
    /\ pc' = "stage" /\ stage' = stage + 1
    /\ UNCHANGED <<result, inner, rb>> /\ AfterUnchanged

ToFail(err) ==
    /\ pc \in {"CHECK", "RECOVER", "RUN"} /\ stage \in Stages /\ result = "none"
    /\ IF err = "runsFailed"
       THEN ~dryRun /\ Waited("RUN", stage) /\ FailedIn("RUN", stage)
       ELSE FailedIn("CHECK", stage)
    /\ Fail(err) /\ AfterUnchanged

LEMMA AnyErrorFacts ==
    ASSUME TypeOK, NEW a \in Actions, NEW k \in Stages, Waited(a, k)
    PROVE  /\ AnyError(a, k) => FailedIn(a, k)
           /\ ~AnyError(a, k) => Reported(a, k, "nil")
  BY DEF TypeOK, Waited, AnyError, FailedIn, Reported, InStage

LEMMA AfterCases ==
    ASSUME TypeOK, MainInv, OutcomeInv, AfterCheck \/ AfterRecover \/ AfterRun
    PROVE  ToRecover \/ ToRun \/ ToNext \/ \E err \in Failures : ToFail(err)
<1>1. CASE AfterCheck
  <2>1. Waited("CHECK", stage) /\ stage \in Stages /\ result = "none" /\ pc = "CHECK"
    BY <1>1 DEF AfterCheck, MainInv
  <2>2. /\ AnyError("CHECK", stage) => FailedIn("CHECK", stage)
        /\ ~AnyError("CHECK", stage) => Reported("CHECK", stage, "nil")
    BY <2>1, AnyErrorFacts DEF Actions
  <2>3. QED
    BY <1>1, <2>1, <2>2, Zenon
    DEF AfterCheck, ToRecover, ToRun, ToNext, ToFail, StartRuns, NextStage, Failures, AfterUnchanged
<1>2. CASE AfterRecover
  <2>1. /\ Waited("RECOVER", stage) /\ stage \in Stages /\ result = "none"
        /\ pc = "RECOVER" /\ recover /\ ~dryRun /\ FailedIn("CHECK", stage)
    BY <1>2 DEF AfterRecover, MainInv, OutcomeInv
  <2>2. ~AnyError("RECOVER", stage) => Reported("RECOVER", stage, "nil")
    BY <2>1, AnyErrorFacts DEF Actions
  <2>3. QED
    BY <1>2, <2>1, <2>2
    DEF AfterRecover, ToRun, ToFail, StartRuns, Failures, AfterUnchanged
<1>3. CASE AfterRun
  <2>1. /\ Waited("RUN", stage) /\ stage \in Stages /\ result = "none"
        /\ pc = "RUN" /\ ~dryRun
    BY <1>3 DEF AfterRun, MainInv
  <2>2. /\ AnyError("RUN", stage) => FailedIn("RUN", stage)
        /\ ~AnyError("RUN", stage) => Reported("RUN", stage, "nil")
    BY <2>1, AnyErrorFacts DEF Actions
  <2>3. QED
    BY <1>3, <2>1, <2>2
    DEF AfterRun, ToNext, ToFail, NextStage, Failures, AfterUnchanged
<1>4. QED
  BY <1>1, <1>2, <1>3

\* A step, by cases.
GoroutineStep(a, s) == Finish(a, s) \/ Collect(a, s) \/ Timeout(a, s)

LEMMA StepCases ==
    ASSUME TypeOK, MainInv, OutcomeInv, [Next]_vars
    PROVE  \/ UNCHANGED vars
           \/ \E a \in Actions, s \in Services : GoroutineStep(a, s)
           \/ CtxCancel \/ StartStage \/ Reply
           \/ ToRecover \/ ToRun \/ ToNext \/ \E err \in Failures : ToFail(err)
           \/ \E k \in Stages : StartRollback(k) \/ EndRollback(k)
  BY AfterCases DEF Next, GoroutineStep, Ended

LEMMA TypeStep ==
    ASSUME TypeOK, MainInv, OutcomeInv, [Next]_vars
    PROVE  TypeOK'
<1> USE DEF Stages, Actions
<1>1. CASE UNCHANGED vars
  BY <1>1 DEF TypeOK, vars, callVars, mainVars, rbVars
<1>2. ASSUME NEW a \in Actions, NEW s \in Services, GoroutineStep(a, s)
      PROVE  TypeOK'
  <2>1. CASE Finish(a, s)
    BY <2>1 DEF TypeOK, Finish, EffectsAfter, callVars, mainVars, rbVars
  <2>2. CASE Collect(a, s)
    BY <2>2 DEF TypeOK, Collect, callVars, mainVars, rbVars
  <2>3. CASE Timeout(a, s)
    BY <2>3 DEF TypeOK, Timeout, callVars, mainVars, rbVars
  <2>4. QED
    BY <1>2, <2>1, <2>2, <2>3 DEF GoroutineStep
<1>3. CASE CtxCancel
  BY <1>3 DEF TypeOK, CtxCancel, callVars, mainVars, rbVars
<1>4. CASE StartStage
  BY <1>4, StartActionFacts DEF TypeOK, StartStage, callVars, mainVars, rbVars
<1>5. CASE Reply
  BY <1>5 DEF TypeOK, Reply, GenerateStagedResponse, InStage, callVars, mainVars, rbVars
<1>6. CASE ToRecover
  BY <1>6, StartActionFacts DEF TypeOK, ToRecover, AfterUnchanged, callVars
<1>7. CASE ToRun
  BY <1>7, StartActionFacts DEF TypeOK, ToRun, AfterUnchanged, callVars
<1>8. CASE ToNext
  BY <1>8, OrchestrationAssumption DEF TypeOK, ToNext, AfterUnchanged, callVars
<1>9. ASSUME NEW err \in Failures, ToFail(err)
      PROVE  TypeOK'
  BY <1>9, FailFacts DEF TypeOK, ToFail, AfterUnchanged, callVars, Failures
<1>10. ASSUME NEW k \in Stages, StartRollback(k)
       PROVE  TypeOK'
  BY <1>10, StartActionFacts DEF TypeOK, StartRollback, callVars, mainVars, rbVars
<1>11. ASSUME NEW k \in Stages, EndRollback(k)
       PROVE  TypeOK'
  BY <1>11 DEF TypeOK, EndRollback, callVars, mainVars, rbVars
<1>12. QED
  BY <1>1, <1>2, <1>3, <1>4, <1>5, <1>6, <1>7, <1>8, <1>9, <1>10, <1>11, StepCases

-----------------------------------------------------------------------------
(* The main goroutine's part of the invariant.                              *)

LEMMA MainStep ==
    ASSUME Inv, TypeOK', [Next]_vars
    PROVE  MainInv'
<1> USE DEF Inv, MainInv, Stages, Failures
<1>1. CASE UNCHANGED <<callVars, pc, stage, result>>
  BY <1>1 DEF callVars
<1>2. CASE StartStage
  BY <1>2, OrchestrationAssumption DEF StartStage, TypeOK, callVars
<1>3. CASE Reply
  BY <1>3 DEF Reply, callVars
<1>4. CASE ToRecover \/ ToRun \/ ToNext
  BY <1>4 DEF ToRecover, ToRun, ToNext, AfterUnchanged, callVars
<1>5. ASSUME NEW err \in Failures, ToFail(err)
      PROVE  MainInv'
  BY <1>5, FailFacts DEF ToFail, AfterUnchanged, callVars
<1>6. QED
  BY <1>1, <1>2, <1>3, <1>4, <1>5, StepCases
  DEF vars, GoroutineStep, Finish, Collect, Timeout, CtxCancel, mainVars,
      StartRollback, EndRollback

LEMMA ReachStep ==
    ASSUME Inv, TypeOK', [Next]_vars
    PROVE  ReachInv'
<1> SUFFICES ASSUME NEW s \in Services
             PROVE  Reach(s)'
  BY DEF ReachInv
<1> USE DEF Reach, Started, Actions
<1>0. /\ Reach(s) /\ stage \in Int /\ StageOf[s] \in Int /\ StageOf[s] \in Stages
      /\ TypeOK
  BY OrchestrationAssumption DEF Inv, ReachInv, TypeOK, Stages
<1>1. CASE UNCHANGED vars \/ CtxCancel
  BY <1>0, <1>1 DEF CtxCancel, vars, callVars, mainVars, rbVars
<1>2. ASSUME NEW a \in Actions, NEW t \in Services, GoroutineStep(a, t)
      PROVE  Reach(s)'
  <2>1. \A b \in Actions : inner[b][s] = "idle" => inner'[b][s] = "idle"
    BY <1>0, <1>2 DEF GoroutineStep, Finish, Collect, Timeout, TypeOK
  <2>2. UNCHANGED <<stage, pc, rb>>
    BY <1>2 DEF GoroutineStep, Finish, Collect, Timeout, mainVars, rbVars
  <2>3. QED
    BY <1>0, <2>1, <2>2
<1>3. CASE StartStage
  <2>1. CASE stage \in Stages
    <3>1. \A b \in Actions : inner'[b][s] =
              IF b = "CHECK" /\ StageOf[s] = stage THEN "running" ELSE inner[b][s]
      BY <1>0, <1>3, <2>1, StartActionFacts DEF StartStage
    <3>2. QED
      BY <1>0, <1>3, <2>1, <3>1 DEF StartStage, rbVars
  <2>2. CASE stage \notin Stages
    BY <1>0, <1>3, <2>2 DEF StartStage, rbVars
  <2>3. QED
    BY <2>1, <2>2
<1>4. CASE Reply
  BY <1>0, <1>4 DEF Reply, rbVars
<1>5. CASE ToRecover
  <2>1. \A b \in Actions : inner'[b][s] =
            IF b = "RECOVER" /\ StageOf[s] = stage THEN "running" ELSE inner[b][s]
    BY <1>0, <1>5, StartActionFacts DEF ToRecover
  <2>2. QED
    BY <1>0, <1>5, <2>1 DEF ToRecover
<1>6. CASE ToRun
  <2>1. \A b \in Actions : inner'[b][s] =
            IF b = "RUN" /\ StageOf[s] = stage THEN "running" ELSE inner[b][s]
    BY <1>0, <1>6, StartActionFacts DEF ToRun
  <2>2. QED
    BY <1>0, <1>6, <2>1 DEF ToRun
<1>7. CASE ToNext
  BY <1>0, <1>7 DEF ToNext
<1>8. ASSUME NEW err \in Failures, ToFail(err)
      PROVE  Reach(s)'
  <2>1. ~Started("ROLLBACK", s)
    BY <1>0, <1>8 DEF ToFail, Inv, RollbackInv, Failures
  <2>2. stage' = stage /\ inner' = inner /\ pc' = "returned"
    BY <1>0, <1>8, FailFacts DEF ToFail
  <2>3. QED
    BY <1>0, <2>1, <2>2
<1>9. ASSUME NEW k \in Stages, StartRollback(k)
      PROVE  Reach(s)'
  <2>1. \A b \in Actions : inner'[b][s] =
            IF b = "ROLLBACK" /\ StageOf[s] = k THEN "running" ELSE inner[b][s]
    BY <1>0, <1>9, StartActionFacts DEF StartRollback
  <2>2. rb' = [rb EXCEPT ![k] = "running"] /\ rb[k] = "spawned" /\ UNCHANGED <<stage, pc>>
    BY <1>9 DEF StartRollback, mainVars
  <2>3. QED
    BY <1>0, <2>1, <2>2 DEF TypeOK
<1>10. ASSUME NEW k \in Stages, EndRollback(k)
       PROVE  Reach(s)'
  <2>1. k - 1 \in Stages /\ k < stage => rb[k - 1] = "off"
    BY <1>0, <1>10 DEF EndRollback, Inv, EarlierStagesReversed, Stages
  <2>2. \A j \in Stages : rb[j] \in {"running", "done"} => rb'[j] \in {"running", "done"}
    BY <1>0, <1>10, <2>1 DEF EndRollback, TypeOK
  <2>3. QED
    BY <1>0, <1>10, <2>2 DEF EndRollback, mainVars
<1>11. QED
  BY <1>1, <1>2, <1>3, <1>4, <1>5, <1>6, <1>7, <1>8, <1>9, <1>10, StepCases DEF Inv

LEMMA ReportStep ==
    ASSUME Inv, TypeOK', [Next]_vars
    PROVE  ReportInv'
<1> SUFFICES ASSUME NEW a \in Actions, NEW s \in Services
             PROVE  ReportOK(a, s)'
  BY DEF ReportInv
<1> USE DEF ReportOK
<1>0. /\ ReportOK(a, s) /\ Reach(s) /\ TypeOK /\ StageOf[s] \in Int
  BY OrchestrationAssumption DEF Inv, ReportInv, ReachInv
\* An action is only ever started on a stage where it has no goroutine yet.
<1>s. ASSUME NEW b \in Actions, NEW k \in Stages, StartAction(b, k), report' = report,
             StageOf[s] = k => ~Started(b, s)
      PROVE  ReportOK(a, s)'
  <2>1. inner'[a][s] = IF a = b /\ StageOf[s] = k THEN "running" ELSE inner[a][s]
    BY <1>0, <1>s, StartActionFacts
  <2>2. QED
    BY <1>0, <1>s, <2>1 DEF Started
<1>1. CASE UNCHANGED <<inner, report>>
  BY <1>0, <1>1
<1>2. ASSUME NEW b \in Actions, NEW t \in Services, GoroutineStep(b, t)
      PROVE  ReportOK(a, s)'
  BY <1>0, <1>2 DEF GoroutineStep, Finish, Collect, Timeout, TypeOK
<1>3. CASE StartStage
  <2>1. CASE stage \in Stages
    <3>1. StageOf[s] = stage => ~Started("CHECK", s)
      BY <1>0, <1>3 DEF StartStage, Reach
    <3>2. QED
      BY <1>3, <2>1, <3>1, <1>s DEF StartStage, Actions
  <2>2. CASE stage \notin Stages
    BY <1>1, <1>3, <2>2 DEF StartStage
  <2>3. QED
    BY <2>1, <2>2
<1>4. CASE ToRecover
  <2>1. StageOf[s] = stage => ~Started("RECOVER", s)
    BY <1>0, <1>4 DEF ToRecover, Reach
  <2>2. QED
    BY <1>4, <2>1, <1>s DEF ToRecover, AfterUnchanged, Actions
<1>5. CASE ToRun
  <2>1. StageOf[s] = stage => ~Started("RUN", s)
    BY <1>0, <1>5 DEF ToRun, Reach
  <2>2. QED
    BY <1>5, <2>1, <1>s DEF ToRun, AfterUnchanged, Actions
<1>6. ASSUME NEW k \in Stages, StartRollback(k)
      PROVE  ReportOK(a, s)'
  <2>1. StageOf[s] = k => ~Started("ROLLBACK", s)
    BY <1>0, <1>6 DEF StartRollback, Reach
  <2>2. QED
    BY <1>6, <2>1, <1>s DEF StartRollback, Actions
<1>7. CASE ToNext \/ \E err \in Failures : ToFail(err)
  BY <1>1, <1>7 DEF ToNext, ToFail, Fail, AfterUnchanged
<1>8. QED
  BY <1>1, <1>2, <1>3, <1>4, <1>5, <1>6, <1>7, StepCases
  DEF Inv, vars, CtxCancel, Reply, EndRollback

-----------------------------------------------------------------------------
(* Reports that are in do not change, so what was concluded from them stays. *)

LEMMA ReportsStay ==
    ASSUME Inv, [Next]_vars
    PROVE  /\ dryRun' = dryRun /\ recover' = recover /\ skipRollback' = skipRollback
           /\ \A a \in Actions, s \in Services :
                report[a][s] # "unset" => report'[a][s] = report[a][s]
<1> USE DEF Inv, callVars
<1>1. ASSUME NEW b \in Actions, NEW t \in Services, GoroutineStep(b, t)
      PROVE  /\ UNCHANGED callVars
             /\ \A a \in Actions, s \in Services :
                  report[a][s] # "unset" => report'[a][s] = report[a][s]
  BY <1>1 DEF GoroutineStep, Finish, Collect, Timeout, TypeOK
<1>2. QED
  BY <1>1, StepCases
  DEF vars, CtxCancel, StartStage, Reply, ToRecover, ToRun, ToNext, ToFail,
      AfterUnchanged, StartRollback, EndRollback

LEMMA StableFacts ==
    ASSUME Inv, [Next]_vars, NEW a \in Actions, NEW k \in Nat
    PROVE  /\ Reported(a, k, "nil") => Reported(a, k, "nil")'
           /\ Waited(a, k) => Waited(a, k)'
           /\ FailedIn(a, k) => FailedIn(a, k)'
  BY ReportsStay DEF Reported, Waited, FailedIn, InStage

LEMMA PassedStep ==
    ASSUME Inv, TypeOK', [Next]_vars
    PROVE  PassedInv'
<1> SUFFICES ASSUME NEW s \in Services, StageOf[s] < stage'
             PROVE  report'[IF dryRun THEN "CHECK" ELSE "RUN"][s] = "nil"
  BY ReportsStay DEF PassedInv
<1> DEFINE A == IF dryRun THEN "CHECK" ELSE "RUN"
<1>0. A \in Actions /\ StageOf[s] \in Int /\ stage \in Int
  BY OrchestrationAssumption DEF Actions, Inv, TypeOK
<1>1. CASE StageOf[s] < stage
  BY <1>0, <1>1, ReportsStay DEF Inv, PassedInv
<1>2. CASE ~(StageOf[s] < stage)
  <2>1. ToNext
    BY <1>2, StepCases, FailFacts
    DEF Inv, vars, GoroutineStep, Finish, Collect, Timeout, CtxCancel, StartStage, Reply,
        ToRecover, ToRun, ToFail, StartRollback, EndRollback, mainVars
  <2>2. StageOf[s] = stage
    BY <1>0, <1>2, <2>1 DEF ToNext
  <2>3. report[A][s] = "nil"
    BY <2>1, <2>2 DEF ToNext, Reported, InStage
  <2>4. QED
    BY <1>0, <2>3, ReportsStay
<1>3. QED
  BY <1>1, <1>2

LEMMA RunAfterCheckStep ==
    ASSUME Inv, TypeOK', [Next]_vars
    PROVE  RunAfterCheck'
<1> SUFFICES ASSUME NEW s \in Services, Started("RUN", s)'
             PROVE  /\ ~dryRun
                    /\ \/ Reported("CHECK", StageOf[s], "nil")'
                       \/ recover /\ Reported("RECOVER", StageOf[s], "nil")'
  BY ReportsStay DEF RunAfterCheck
<1>0. StageOf[s] \in Nat /\ TypeOK
  BY OrchestrationAssumption DEF Inv
<1>1. CASE Started("RUN", s)
  BY <1>0, <1>1, StableFacts DEF Inv, RunAfterCheck, Actions
<1>2. CASE ~Started("RUN", s)
  <2>1. ToRun /\ StageOf[s] = stage
    <3>1. ASSUME NEW b \in Actions, NEW t \in Services, GoroutineStep(b, t)
          PROVE  inner'["RUN"][s] = inner["RUN"][s] \/ Started("RUN", s)
      BY <1>0, <3>1 DEF GoroutineStep, Finish, Collect, Timeout, TypeOK, Actions, Started
    <3>2. ASSUME NEW b \in Actions, NEW k \in Stages, StartAction(b, k), b # "RUN"
          PROVE  inner'["RUN"][s] = inner["RUN"][s]
      BY <1>0, <3>2, StartActionFacts DEF Actions
    <3>3. ToRun
      BY <1>2, <3>1, <3>2, StepCases, FailFacts
      DEF Inv, vars, CtxCancel, StartStage, Reply, ToRecover, ToNext, ToFail,
          StartRollback, EndRollback, Started, Actions
    <3>4. inner'["RUN"][s] = IF StageOf[s] = stage THEN "running" ELSE inner["RUN"][s]
      BY <1>0, <3>3, StartActionFacts DEF ToRun, Actions
    <3>5. QED
      BY <1>2, <3>3, <3>4 DEF Started
  <2>2. QED
    BY <1>0, <2>1, StableFacts DEF ToRun, Actions
<1>3. QED
  BY <1>1, <1>2

LEMMA OutcomeStep ==
    ASSUME Inv, TypeOK', [Next]_vars
    PROVE  OutcomeInv'
<1>0. stage \in Nat /\ TypeOK /\ OutcomeInv /\ MainInv /\ Actions = {"CHECK", "RECOVER", "RUN", "ROLLBACK"}
  BY DEF Inv, TypeOK, Actions
<1>r. ASSUME stage' = stage
      PROVE  /\ FailedIn("CHECK", stage) => FailedIn("CHECK", stage)'
             /\ FailedIn("RUN", stage) => FailedIn("RUN", stage)'
             /\ Waited("RUN", stage) => Waited("RUN", stage)'
             /\ dryRun' = dryRun
  BY <1>0, <1>r, ReportsStay DEF FailedIn, Waited, InStage
<1>1. CASE UNCHANGED <<pc, stage, result, response>>
  BY <1>0, <1>1, <1>r DEF OutcomeInv
<1>2. CASE StartStage
  BY <1>0, <1>2, <1>r DEF OutcomeInv, MainInv, StartStage
<1>3. CASE Reply
  <2>1. /\ UNCHANGED <<stage, result, report>> /\ pc' = "replied"
        /\ response' = GenerateStagedResponse
    BY <1>3 DEF Reply
  <2>2. result \in Failures \cup {"nil"}
    BY <1>0, <1>3 DEF Reply, MainInv, TypeOK, Failures
  <2>3. response'.status = 200 => result' = "nil"
    BY <2>1, <2>2 DEF GenerateStagedResponse
  <2>4. response'.status = 500 => response'.failed # {}
    BY <1>0, <2>1, <2>2 DEF GenerateStagedResponse, OutcomeInv, ErrsOf, FailedIn, Failures
  <2>5. QED
    BY <1>0, <2>1, <2>3, <2>4, <1>r DEF OutcomeInv
<1>4. CASE ToRecover \/ ToRun \/ ToNext
  BY <1>0, <1>4, <1>r
  DEF OutcomeInv, MainInv, ToRecover, ToRun, ToNext, AfterUnchanged
<1>5. ASSUME NEW err \in Failures, ToFail(err)
      PROVE  OutcomeInv'
  BY <1>0, <1>5, <1>r, FailFacts
  DEF OutcomeInv, ToFail, Failures, AfterUnchanged
<1>6. QED
  BY <1>1, <1>2, <1>3, <1>4, <1>5, StepCases
  DEF Inv, vars, GoroutineStep, Finish, Collect, Timeout, CtxCancel, mainVars,
      StartRollback, EndRollback

LEMMA RollbackStep ==
    ASSUME Inv, TypeOK', [Next]_vars
    PROVE  RollbackInv' /\ EarlierStagesReversed'
<1> USE DEF RollbackInv, EarlierStagesReversed
<1>0. /\ TypeOK /\ MainInv /\ RollbackInv /\ EarlierStagesReversed
      /\ NStages \in Nat /\ stage \in Int /\ Stages = 1..NStages
      /\ skipRollback' = skipRollback
  BY ReportsStay, OrchestrationAssumption DEF Inv, TypeOK, Stages
<1>1. CASE UNCHANGED <<stage, result, rb>>
  BY <1>0, <1>1
<1>2. CASE result = "none" /\ UNCHANGED rb
  <2>1. \A k \in Stages : rb[k] = "off"
    BY <1>0, <1>2 DEF Failures
  <2>2. QED
    BY <1>0, <1>2, <2>1
<1>3. ASSUME NEW err \in Failures, ToFail(err)
      PROVE  RollbackInv' /\ EarlierStagesReversed'
  <2>1. \A k \in Stages : rb[k] = "off"
    BY <1>0, <1>3 DEF ToFail, Failures
  <2>2. /\ result' = err /\ stage' = stage /\ stage \in Stages
        /\ \A k \in Stages :
             rb'[k] = IF k \in RollbacksOf(err) THEN "spawned" ELSE rb[k]
    BY <1>0, <1>3, FailFacts DEF ToFail
  <2>3. \A k \in Stages : rb'[k] # "off" =>
             ~skipRollback /\ (k = stage - 1 \/ (k = stage /\ err = "runsFailed"))
    BY <2>1, <2>2 DEF RollbacksOf
  <2>4. QED
    BY <1>0, <2>2, <2>3
<1>4. ASSUME NEW k \in Stages, StartRollback(k)
      PROVE  RollbackInv' /\ EarlierStagesReversed'
  BY <1>0, <1>4 DEF StartRollback, TypeOK, mainVars
<1>5. ASSUME NEW k \in Stages, EndRollback(k)
      PROVE  RollbackInv' /\ EarlierStagesReversed'
  <2>1. /\ rb[k] = "running" /\ UNCHANGED <<stage, result>>
        /\ \A j \in Stages : rb'[j] = IF j = k THEN "done"
                                     ELSE IF j = k - 1 /\ k < stage THEN "spawned" ELSE rb[j]
    BY <1>0, <1>5 DEF EndRollback, mainVars
  <2>2. RollbackInv'
    BY <1>0, <2>1
  <2>3. \A j \in Stages : k < j /\ j < stage => rb[j] = "done"
    BY <1>0, <2>1
  <2>4. EarlierStagesReversed'
    BY <1>0, <2>1, <2>3
  <2>5. QED
    BY <2>2, <2>4
<1>6. CASE StartStage \/ ToRecover \/ ToRun \/ ToNext
  BY <1>0, <1>2, <1>6 DEF StartStage, ToRecover, ToRun, ToNext, MainInv, rbVars
<1>7. QED
  BY <1>1, <1>3, <1>4, <1>5, <1>6, StepCases
  DEF Inv, vars, GoroutineStep, Finish, Collect, Timeout, CtxCancel, Reply, mainVars, rbVars

-----------------------------------------------------------------------------
(* Effects: only a Run that was abandoned can outlive its rollback.         *)

\* Outside dry runs a service that is rolled back has its Run report in.
LEMMA RolledBackHasRun ==
    ASSUME Inv, NEW s \in Services, Started("ROLLBACK", s)
    PROVE  /\ ~skipRollback /\ result \in Failures
           /\ dryRun \/ report["RUN"][s] # "unset"
<1>1. StageOf[s] \in Stages /\ rb[StageOf[s]] # "off"
  BY OrchestrationAssumption DEF Inv, ReachInv, Reach, Stages
<1>2. QED
  BY <1>1 DEF Inv, RollbackInv, PassedInv, OutcomeInv, Waited, InStage

LEMMA EffectStep ==
    ASSUME Inv, TypeOK', [Next]_vars
    PROVE  EffectInv' /\ RollbackUndoes'
<1>0. TypeOK /\ EffectInv /\ RollbackUndoes
  BY DEF Inv
<1>1. ASSUME NEW a \in Actions, NEW t \in Services, Finish(a, t)
      PROVE  EffectInv' /\ RollbackUndoes'
  <2>1. PICK out \in {"ok", "failed"} :
            /\ inner' = [inner EXCEPT ![a][t] = out]
            /\ effect' \in EffectsAfter(a, t, out)
    BY <1>1 DEF Finish
  <2>2. report' = report /\ inner[a][t] = "running"
    BY <1>1 DEF Finish
  <2>3. EffectInv'
    BY <1>0, <2>1 DEF EffectInv, EffectsAfter
  <2>4. ASSUME NEW s \in Services, inner'["ROLLBACK"][s] = "ok", s \in effect'
        PROVE  report["RUN"][s] = "timeout"
    <3>1. CASE a = "RUN" /\ s = t
      <4>1. Started("ROLLBACK", s) /\ Started("RUN", s)
        BY <1>0, <2>1, <2>2, <2>4, <3>1 DEF Started, TypeOK, Actions
      <4>2. report["RUN"][s] # "unset" /\ ReportOK("RUN", s)
        BY <4>1, RolledBackHasRun DEF Inv, RunAfterCheck, ReportInv, Actions
      <4>3. QED
        BY <1>0, <2>2, <3>1, <4>2 DEF ReportOK, TypeOK, Actions
    <3>2. CASE a = "ROLLBACK" /\ s = t
      <4>1. out = "ok"
        BY <1>0, <2>1, <2>4, <3>2 DEF TypeOK, Actions
      <4>2. QED
        BY <1>0, <2>1, <2>4, <3>2, <4>1 DEF EffectsAfter, EffectInv
    <3>3. CASE ~(s = t /\ a \in {"RUN", "ROLLBACK"})
      <4>1. inner["ROLLBACK"][s] = "ok" /\ s \in effect
        BY <1>0, <2>1, <2>4, <3>3 DEF TypeOK, Actions, EffectsAfter
      <4>2. QED
        BY <1>0, <4>1 DEF RollbackUndoes
    <3>4. QED
      BY <3>1, <3>2, <3>3
  <2>5. QED
    BY <2>2, <2>3, <2>4 DEF RollbackUndoes
<1>2. ASSUME effect' = effect,
             \A s \in Services : inner'["ROLLBACK"][s] = "ok" => inner["ROLLBACK"][s] = "ok"
      PROVE  EffectInv' /\ RollbackUndoes'
  BY <1>0, <1>2, ReportsStay DEF EffectInv, RollbackUndoes, Actions
<1>3. ASSUME NEW a \in Actions, NEW k \in Stages, StartAction(a, k), effect' = effect
      PROVE  EffectInv' /\ RollbackUndoes'
  <2>1. \A s \in Services : inner'["ROLLBACK"][s] = "ok" => inner["ROLLBACK"][s] = "ok"
    BY <1>0, <1>3, StartActionFacts DEF Actions
  <2>2. QED
    BY <1>2, <1>3, <2>1
<1>4. CASE StartStage \/ ToRecover \/ ToRun \/ \E k \in Stages : StartRollback(k)
  BY <1>2, <1>3, <1>4 DEF StartStage, ToRecover, ToRun, StartRollback, AfterUnchanged, Actions
<1>5. CASE \E a \in Actions, t \in Services : Collect(a, t) \/ Timeout(a, t)
  BY <1>2, <1>5 DEF Collect, Timeout
<1>6. CASE ToNext \/ \E err \in Failures : ToFail(err)
  BY <1>2, <1>6 DEF ToNext, ToFail, Fail, AfterUnchanged
<1>7. QED
  BY <1>1, <1>2, <1>4, <1>5, <1>6, StepCases
  DEF Inv, vars, GoroutineStep, CtxCancel, Reply, EndRollback

-----------------------------------------------------------------------------
(* The theorems.                                                            *)

LEMMA InitInv == Init => Inv
<1> SUFFICES ASSUME Init PROVE Inv
  OBVIOUS
<1> USE OrchestrationAssumption DEF Init, Stages, Actions
<1>1. TypeOK
  <2>1. NoResponse \in [status : {0, 200, 500}, failed : SUBSET Services]
    BY DEF NoResponse
  <2>2. [a \in Actions |-> [s \in Services |-> "idle"]]
            \in [Actions -> [Services -> {"idle", "running", "ok", "failed"}]]
    OBVIOUS
  <2>3. [a \in Actions |-> [s \in Services |-> "unset"]]
            \in [Actions -> [Services -> {"unset", "nil", "error", "timeout"}]]
    OBVIOUS
  <2>4. 1 \in 1..(NStages + 1) /\ [k \in Stages |-> "off"]
            \in [Stages -> {"off", "spawned", "running", "done"}]
    OBVIOUS
  <2>5. QED
    BY <2>1, <2>2, <2>3, <2>4, Zenon DEF TypeOK
<1>2. MainInv /\ EffectInv /\ OutcomeInv
  BY DEF MainInv, EffectInv, OutcomeInv, Failures, NoResponse
<1>3. ReachInv /\ ReportInv /\ PassedInv /\ RunAfterCheck /\ RollbackUndoes
  BY DEF ReachInv, Reach, ReportInv, ReportOK, PassedInv, RunAfterCheck, RollbackUndoes, Started
<1>4. RollbackInv /\ EarlierStagesReversed
  BY DEF RollbackInv, EarlierStagesReversed
<1>5. QED
  BY <1>1, <1>2, <1>3, <1>4 DEF Inv

LEMMA InvStep ==
    ASSUME Inv, [Next]_vars
    PROVE  Inv'
<1>1. TypeOK'
  BY TypeStep DEF Inv
<1>2. MainInv' /\ ReachInv' /\ ReportInv' /\ PassedInv'
  BY <1>1, MainStep, ReachStep, ReportStep, PassedStep
<1>3. RunAfterCheck' /\ OutcomeInv' /\ RollbackInv' /\ EarlierStagesReversed'
  BY <1>1, RunAfterCheckStep, OutcomeStep, RollbackStep
<1>4. EffectInv' /\ RollbackUndoes'
  BY <1>1, EffectStep
<1>5. QED
  BY <1>1, <1>2, <1>3, <1>4 DEF Inv

\* Inv holds in every state of a staged call, whatever its stages, services,
\* options and the moment its context ends.
THEOREM Invariance == Spec => []Inv
<1>1. Inv /\ [Next]_vars => Inv'
  BY InvStep
<1>2. QED
  BY <1>1, InitInv, PTL DEF Spec

\* Every variable keeps its type.
THEOREM TypeCorrect == Spec => []TypeOK
<1>1. Inv => TypeOK
  BY DEF Inv
<1>2. QED
  BY <1>1, Invariance, PTL

\* No Run without passed checks or a full recovery (CallServices).
THEOREM RunsOnlyAfterChecks == Spec => []RunAfterCheck
<1>1. Inv => RunAfterCheck
  BY DEF Inv
<1>2. QED
  BY <1>1, Invariance, PTL

\* No stage is touched before all earlier ones have passed (CallStagedServices).
THEOREM StagesInOrder == Spec => []StageOrder
<1>1. Inv => StageOrder
  <2> SUFFICES ASSUME Inv, NEW s \in Services, Started("CHECK", s),
                      NEW k \in 1..(StageOf[s] - 1)
               PROVE  Reported(IF dryRun THEN "CHECK" ELSE "RUN", k, "nil")
    BY DEF StageOrder
  <2>1. StageOf[s] <= stage /\ StageOf[s] \in Int /\ stage \in Int
    BY OrchestrationAssumption DEF Inv, ReachInv, Reach, TypeOK
  <2>2. QED
    BY <2>1 DEF Inv, PassedInv, Reported, InStage
<1>2. QED
  BY <1>1, Invariance, PTL

\* Rollback only after a failure, without SkipRollback, and of what was run.
THEOREM RollbacksOnlyAfterRuns == Spec => []RollbackAfterRun
<1>1. Inv => RollbackAfterRun
  BY RolledBackHasRun DEF RollbackAfterRun, Failures
<1>2. QED
  BY <1>1, Invariance, PTL

\* Checks, recoveries, runs and rollbacks of a call come in their order.
THEOREM CallsInOrder == Spec => []CallOrder
<1>1. QED
  BY RunsOnlyAfterChecks, StagesInOrder, RollbacksOnlyAfterRuns, PTL DEF CallOrder

\* A successful rollback leaves no effect but that of an abandoned Run.
THEOREM RollbacksUndo == Spec => []RollbackUndoes
<1>1. Inv => RollbackUndoes
  BY DEF Inv
<1>2. QED
  BY <1>1, Invariance, PTL

\* The reply is 200 only when everything was done, and a 500 says what failed.
THEOREM RepliesAreSound == Spec => []ResponseSound
<1>1. Inv => ResponseSound
  <2> SUFFICES ASSUME Inv PROVE ResponseSound
    OBVIOUS
  <2>1. response.status = 200 => stage = NStages + 1
    BY DEF Inv, OutcomeInv, MainInv
  <2>2. \A s \in Services : StageOf[s] < NStages + 1
    BY OrchestrationAssumption
  <2>3. QED
    BY <2>1, <2>2 DEF Inv, OutcomeInv, PassedInv, ResponseSound
<1>2. QED
  BY <1>1, Invariance, PTL

-----------------------------------------------------------------------------
(* CallStagedServices implements the abstract saga.                         *)

LEMMA SagaInit == Init => AbstractSaga!Init
  BY DEF Init, AbstractSaga!Init, SagaOutcome, SagaUndo, Stages

LEMMA SagaStep ==
    ASSUME Inv, [Next]_vars
    PROVE  [AbstractSaga!Next]_(AbstractSaga!vars)
<1>0. /\ TypeOK /\ MainInv /\ RollbackInv /\ EarlierStagesReversed
      /\ NStages \in Nat /\ stage \in Int /\ Stages = 1..NStages
  BY OrchestrationAssumption DEF Inv, TypeOK, Stages
<1>1. CASE UNCHANGED <<stage, result, rb>>
  BY <1>1 DEF AbstractSaga!vars, SagaOutcome, SagaUndo
<1>2. CASE StartStage
  <2>1. CASE stage \in Stages
    BY <1>1, <1>2, <2>1 DEF StartStage, rbVars
  <2>2. CASE stage \notin Stages
    <3>1. stage - 1 = NStages /\ result = "none"
      BY <1>0, <1>2, <2>2 DEF StartStage, MainInv, TypeOK
    <3>2. AbstractSaga!Succeed
      BY <1>2, <2>2, <3>1 DEF StartStage, AbstractSaga!Succeed, SagaOutcome, SagaUndo, rbVars
    <3>3. QED
      BY <3>2 DEF AbstractSaga!Next
  <2>3. QED
    BY <2>1, <2>2
<1>3. CASE ToNext
  <2>1. AbstractSaga!Commit
    BY <1>0, <1>3 DEF ToNext, AbstractSaga!Commit, SagaOutcome, SagaUndo
  <2>2. QED
    BY <2>1 DEF AbstractSaga!Next
<1>4. ASSUME NEW err \in Failures, ToFail(err)
      PROVE  AbstractSaga!Next
  <2>1. /\ result = "none" /\ result' = err /\ stage' = stage /\ stage \in Stages
    BY <1>0, <1>4, FailFacts DEF ToFail
  <2>2. \A k \in Stages : rb[k] = "off" /\ rb'[k] \in {"off", "spawned"}
    BY <1>0, <1>4, <2>1, FailFacts DEF RollbackInv, ToFail, Failures
  <2>3. SagaUndo' = SagaUndo
    BY <2>2 DEF SagaUndo
  <2>4. AbstractSaga!Abort
    BY <1>0, <2>1, <2>3 DEF AbstractSaga!Abort, SagaOutcome, Failures
  <2>5. QED
    BY <2>4 DEF AbstractSaga!Next
<1>5. ASSUME NEW k \in Stages, StartRollback(k)
      PROVE  AbstractSaga!Next
  <2>1. /\ rb[k] = "spawned" /\ UNCHANGED <<stage, result>>
        /\ rb' = [rb EXCEPT ![k] = "running"]
    BY <1>5 DEF StartRollback, mainVars
  <2>2. SagaOutcome = "failed" /\ SagaUndo[k] = "no" /\ SagaOutcome' = SagaOutcome
    BY <1>0, <2>1 DEF RollbackInv, SagaOutcome, SagaUndo, Failures
  <2>3. SagaUndo' = [SagaUndo EXCEPT ![k] = "started"]
    BY <1>0, <2>1 DEF SagaUndo, TypeOK
  <2>4. AbstractSaga!MayUndo(k)
    <3>1. k = stage \/ k < stage
      BY <1>0, <2>1 DEF RollbackInv
    <3>2. ASSUME NEW j \in (k + 1)..(stage - 1), k < stage
          PROVE  SagaUndo[j] = "done"
      BY <1>0, <2>1, <3>2 DEF EarlierStagesReversed, SagaUndo, TypeOK
    <3>3. QED
      BY <1>0, <3>1, <3>2 DEF AbstractSaga!MayUndo
  <2>5. AbstractSaga!StartUndo(k)
    BY <2>1, <2>2, <2>3, <2>4 DEF AbstractSaga!StartUndo
  <2>6. QED
    BY <1>0, <2>5 DEF AbstractSaga!Next
<1>6. ASSUME NEW k \in Stages, EndRollback(k)
      PROVE  AbstractSaga!Next
  <2>1. /\ rb[k] = "running" /\ UNCHANGED <<stage, result>>
        /\ \A j \in Stages : rb'[j] = IF j = k THEN "done"
                                     ELSE IF j = k - 1 /\ k < stage THEN "spawned" ELSE rb[j]
    BY <1>0, <1>6 DEF EndRollback, mainVars
  <2>2. k - 1 \in Stages /\ k < stage => rb[k - 1] = "off"
    BY <1>0, <2>1 DEF EarlierStagesReversed
  <2>3. SagaUndo' = [SagaUndo EXCEPT ![k] = "done"] /\ SagaUndo[k] = "started"
    BY <1>0, <2>1, <2>2 DEF SagaUndo
  <2>4. AbstractSaga!EndUndo(k)
    BY <2>1, <2>3 DEF AbstractSaga!EndUndo, SagaOutcome
  <2>5. QED
    BY <1>0, <2>4 DEF AbstractSaga!Next
<1>7. QED
  BY <1>1, <1>2, <1>3, <1>4, <1>5, <1>6, StepCases
  DEF Inv, vars, GoroutineStep, Finish, Collect, Timeout, CtxCancel, Reply,
      ToRecover, ToRun, mainVars, rbVars

\* Every behaviour of a staged call is one of the saga.
THEOREM RefinesSaga == Spec => ImplementsSaga
<1>1. QED
  BY SagaInit, SagaStep, Invariance, PTL DEF Spec, ImplementsSaga, AbstractSaga!Spec
-----------------------------------------------------------------------------
(* RestApiService: what a failed call leaves of the API.                    *)

\* A recovery succeeds only where there is one.
RecoveredInv ==
    \A s \in Services : inner["RECOVER"][s] = "ok" => s \in Recoverables

\* A task is abandoned only at the end of the context.
TimeoutInv ==
    \A a \in Actions, s \in Services : report[a][s] = "timeout" => ctxDone

\* The rollbacks of a failed call: of the failed stage, if it ran; and of each
\* earlier one, which has been started unless a later one is still under way.
UnderWay(k) == \E j \in Stages : k < j /\ j < stage /\ rb[j] \in {"spawned", "running"}
WalkInv ==
    result \in Failures /\ ~skipRollback =>
        /\ result = "runsFailed" => rb[stage] # "off"
        /\ \A k \in Stages : k < stage /\ rb[k] = "off" => UnderWay(k)
RolledInv ==
    \A s \in Services : rb[StageOf[s]] \in {"running", "done"} => Started("ROLLBACK", s)

CallInv == RecoveredInv /\ TimeoutInv /\ WalkInv /\ RolledInv

HasEnded(a, s) == inner[a][s] \in {"ok", "failed"}
Changed(s) == IF Method[s] = "DELETE" THEN Absent ELSE Payload[s]

\* What a Check that has passed knows of the object of its service.
CheckedInv ==
    \A s \in Writers : inner["CHECK"][s] = "ok" =>
        IF Method[s] = "POST" THEN api0[RequestName[s]] = Absent
        ELSE backup[s] = api0[RequestName[s]] /\ backup[s] # Absent

\* The object of a service is as the call found it or as its Run leaves it: the
\* former before Run and Rollback have ended and after Rollback, unless the Run
\* was abandoned.
ObjectOK(s, now, was) ==
    /\ now \in {was, Changed(s)}
    /\ ~HasEnded("RUN", s) /\ ~HasEnded("ROLLBACK", s) => now = was
    /\ HasEnded("ROLLBACK", s) /\ report["RUN"][s] # "timeout" => now = was
ObjectInv == \A s \in Writers : ObjectOK(s, api[RequestName[s]], api0[RequestName[s]])

\* Nobody writes to the objects of no service.
OthersInv ==
    \A n \in Names : api[n] # api0[n] => \E s \in Writers : RequestName[s] = n

RestInv == Inv /\ CallInv /\ RestTypeOK /\ CheckedInv /\ ObjectInv /\ OthersInv

-----------------------------------------------------------------------------
(* The part of it about the call.                                           *)

LEMMA RecoveredStep ==
    ASSUME Inv, RecoveredInv, TimeoutInv, [Next]_vars
    PROVE  RecoveredInv' /\ TimeoutInv'
<1> USE DEF RecoveredInv, TimeoutInv, Actions
<1>0. TypeOK
  BY DEF Inv
\* Starting goroutines ends none.
<1>s. ASSUME NEW b \in Actions, NEW k \in Stages, StartAction(b, k),
             UNCHANGED <<ctxDone, report>>
      PROVE  RecoveredInv' /\ TimeoutInv'
  <2>1. \A s \in Services : inner'["RECOVER"][s] \in {"running", inner["RECOVER"][s]}
    BY <1>0, <1>s, StartActionFacts
  <2>2. QED
    BY <1>s, <2>1
<1>1. CASE UNCHANGED <<inner, report>> /\ (ctxDone => ctxDone')
  BY <1>1
<1>2. ASSUME NEW a \in Actions, NEW t \in Services, GoroutineStep(a, t)
      PROVE  RecoveredInv' /\ TimeoutInv'
  BY <1>0, <1>2 DEF GoroutineStep, Finish, Collect, Timeout, TypeOK, CanSucceed
<1>3. CASE StartStage
  BY <1>1, <1>3, <1>s DEF StartStage
<1>4. CASE ToRecover \/ ToRun
  BY <1>4, <1>s DEF ToRecover, ToRun, AfterUnchanged
<1>5. ASSUME NEW k \in Stages, StartRollback(k)
      PROVE  RecoveredInv' /\ TimeoutInv'
  BY <1>5, <1>s DEF StartRollback
<1>6. CASE ToNext \/ \E err \in Failures : ToFail(err)
  BY <1>1, <1>6 DEF ToNext, ToFail, Fail, AfterUnchanged
<1>7. CASE UNCHANGED vars \/ CtxCancel \/ Reply \/ \E k \in Stages : EndRollback(k)
  BY <1>1, <1>7 DEF vars, CtxCancel, Reply, EndRollback
<1>8. QED
  BY <1>1, <1>2, <1>3, <1>4, <1>5, <1>6, <1>7, StepCases DEF Inv

LEMMA WalkStep ==
    ASSUME Inv, WalkInv, TypeOK', [Next]_vars
    PROVE  WalkInv'
<1> USE DEF WalkInv, UnderWay
<1>0. /\ TypeOK /\ MainInv /\ NStages \in Nat /\ stage \in Int /\ Stages = 1..NStages
      /\ skipRollback' = skipRollback
  BY ReportsStay, OrchestrationAssumption DEF Inv, TypeOK, Stages
<1>1. CASE UNCHANGED <<stage, result, rb>>
  BY <1>0, <1>1
<1>2. ASSUME NEW err \in Failures, ToFail(err)
      PROVE  WalkInv'
  <2>1. /\ result' = err /\ stage' = stage /\ stage \in Stages
        /\ \A k \in Stages :
             rb'[k] = IF k \in RollbacksOf(err) THEN "spawned" ELSE rb[k]
    BY <1>0, <1>2, FailFacts DEF ToFail
  <2>2. CASE skipRollback
    BY <1>0, <2>2
  <2>3. CASE ~skipRollback
    <3>1. \A k \in Stages :
             k = stage - 1 \/ (k = stage /\ err = "runsFailed") => rb'[k] = "spawned"
      BY <2>1, <2>3 DEF RollbacksOf
    <3>2. \A k \in Stages : k < stage /\ rb'[k] = "off" => k < stage - 1 /\ stage - 1 \in Stages
      BY <1>0, <2>1, <3>1
    <3>3. QED
      BY <1>0, <2>1, <3>1, <3>2
  <2>4. QED
    BY <2>2, <2>3
<1>3. ASSUME NEW j \in Stages, StartRollback(j)
      PROVE  WalkInv'
  <2>1. UNCHANGED <<stage, result>> /\ \A k \in Stages :
            rb'[k] = IF k = j THEN "running" ELSE rb[k]
    BY <1>0, <1>3 DEF StartRollback, TypeOK, mainVars
  <2>2. result \in Failures => stage \in Stages
    BY <1>0 DEF MainInv
  <2>3. QED
    BY <1>0, <2>1, <2>2
<1>4. ASSUME NEW j \in Stages, EndRollback(j)
      PROVE  WalkInv'
  <2>1. /\ rb[j] = "running" /\ UNCHANGED <<stage, result>>
        /\ \A k \in Stages : rb'[k] = IF k = j THEN "done"
                                     ELSE IF k = j - 1 /\ j < stage THEN "spawned" ELSE rb[k]
    BY <1>0, <1>4 DEF EndRollback, TypeOK, mainVars
  <2>2. SUFFICES ASSUME result \in Failures, ~skipRollback
                 PROVE  /\ result = "runsFailed" => rb'[stage] # "off"
                        /\ \A k \in Stages : k < stage /\ rb'[k] = "off" => UnderWay(k)'
    BY <1>0, <2>1
  <2>3. stage \in Stages
    BY <1>0, <2>2 DEF MainInv
  <2>4. result = "runsFailed" => rb'[stage] # "off"
    BY <1>0, <2>1, <2>2, <2>3
  <2>5. ASSUME NEW k \in Stages, k < stage, rb'[k] = "off"
        PROVE  UnderWay(k)'
    <3>1. rb[k] = "off" /\ ~(k = j - 1 /\ j < stage)
      BY <2>1, <2>5
    <3>2. PICK i \in Stages : k < i /\ i < stage /\ rb[i] \in {"spawned", "running"}
      BY <2>2, <2>5, <3>1
    <3>3. CASE i = j
      <4>1. j - 1 \in Stages /\ k < j - 1 /\ rb'[j - 1] = "spawned"
        BY <1>0, <2>1, <3>1, <3>2, <3>3
      <4>2. QED
        BY <1>0, <2>1, <3>2, <3>3, <4>1
    <3>4. CASE i # j
      <4>1. rb'[i] \in {"spawned", "running"}
        BY <2>1, <3>2, <3>4
      <4>2. QED
        BY <2>1, <3>2, <4>1
    <3>5. QED
      BY <3>3, <3>4
  <2>6. QED
    BY <2>4, <2>5
<1>5. CASE StartStage \/ ToRecover \/ ToRun \/ ToNext
  BY <1>0, <1>5 DEF StartStage, ToRecover, ToRun, ToNext, MainInv, Failures
<1>6. QED
  BY <1>1, <1>2, <1>3, <1>4, <1>5, StepCases
  DEF Inv, vars, GoroutineStep, Finish, Collect, Timeout, CtxCancel, Reply, mainVars, rbVars

LEMMA RolledStep ==
    ASSUME Inv, RolledInv, TypeOK', [Next]_vars
    PROVE  RolledInv'
<1> USE DEF RolledInv, Started, Actions
<1>0. /\ TypeOK /\ \A s \in Services : StageOf[s] \in Stages
  BY OrchestrationAssumption DEF Inv, Stages
<1>s. ASSUME NEW b \in Actions, NEW k \in Stages, StartAction(b, k), rb' = rb
      PROVE  RolledInv'
  <2>1. \A s \in Services : inner'["ROLLBACK"][s] \in {"running", inner["ROLLBACK"][s]}
    BY <1>0, <1>s, StartActionFacts
  <2>2. QED
    BY <1>s, <2>1
<1>1. CASE UNCHANGED <<inner, rb>>
  BY <1>1
<1>2. ASSUME NEW a \in Actions, NEW t \in Services, GoroutineStep(a, t)
      PROVE  RolledInv'
  BY <1>0, <1>2 DEF GoroutineStep, Finish, Collect, Timeout, TypeOK, rbVars
<1>3. CASE StartStage
  BY <1>1, <1>3, <1>s DEF StartStage, rbVars
<1>4. CASE ToRecover \/ ToRun
  BY <1>4, <1>s DEF ToRecover, ToRun
<1>5. ASSUME NEW err \in Failures, ToFail(err)
      PROVE  RolledInv'
  <2>1. inner' = inner /\ \A k \in Stages : rb'[k] \in {"spawned", rb[k]}
    BY <1>0, <1>5, FailFacts DEF ToFail
  <2>2. QED
    BY <1>0, <2>1
<1>6. ASSUME NEW k \in Stages, StartRollback(k)
      PROVE  RolledInv'
  <2>1. \A s \in Services : inner'["ROLLBACK"][s] =
            IF StageOf[s] = k THEN "running" ELSE inner["ROLLBACK"][s]
    BY <1>0, <1>6, StartActionFacts DEF StartRollback
  <2>2. \A j \in Stages : rb'[j] = IF j = k THEN "running" ELSE rb[j]
    BY <1>0, <1>6 DEF StartRollback, TypeOK
  <2>3. QED
    BY <1>0, <2>1, <2>2
<1>7. ASSUME NEW k \in Stages, EndRollback(k)
      PROVE  RolledInv'
  <2>1. /\ inner' = inner /\ rb[k] = "running"
        /\ \A j \in Stages : rb'[j] \in {"done", "spawned", rb[j]}
        /\ \A j \in Stages : rb'[j] = "done" => j = k \/ rb[j] = "done"
    BY <1>0, <1>7 DEF EndRollback, TypeOK
  <2>2. QED
    BY <1>0, <2>1
<1>8. CASE ToNext
  BY <1>1, <1>8 DEF ToNext
<1>9. CASE UNCHANGED vars \/ CtxCancel \/ Reply
  BY <1>1, <1>9 DEF vars, CtxCancel, Reply, rbVars
<1>10. QED
  BY <1>2, <1>3, <1>4, <1>5, <1>6, <1>7, <1>8, <1>9, StepCases DEF Inv

LEMMA CallStep ==
    ASSUME Inv, CallInv, TypeOK', [Next]_vars
    PROVE  CallInv'
  BY RecoveredStep, WalkStep, RolledStep DEF CallInv

-----------------------------------------------------------------------------
(* What is known of a service when its actions start and end.               *)

\* A service that runs or is rolled back has passed its Check: RestApiAsService
\* sets no Recovery, so nothing else lets a stage run.
LEMMA TouchedFacts ==
    ASSUME Inv, CallInv, RestAssumption, NEW s \in Services,
           Started("RUN", s) \/ Started("ROLLBACK", s)
    PROVE  inner["CHECK"][s] = "ok"
<1> USE DEF Inv, Actions, Started
<1>1. s \in InStage(StageOf[s]) /\ StageOf[s] \in Stages /\ stage \in Int /\ StageOf[s] \in Int
  BY OrchestrationAssumption DEF InStage, Stages, TypeOK
<1>2. report["RECOVER"][s] # "nil"
  BY DEF ReportInv, ReportOK, CallInv, RecoveredInv, RestAssumption
<1>3. report["CHECK"][s] = "nil" => inner["CHECK"][s] = "ok"
  BY DEF ReportInv, ReportOK
<1>4. CASE Started("RUN", s)
  BY <1>1, <1>2, <1>3, <1>4 DEF RunAfterCheck, Reported
<1>5. CASE Started("ROLLBACK", s)
  <2>1. rb[StageOf[s]] # "off"
    BY <1>5 DEF ReachInv, Reach
  <2>2. CASE dryRun
    <3>1. StageOf[s] < stage
      BY <1>1, <2>1, <2>2 DEF RollbackInv, OutcomeInv
    <3>2. QED
      BY <1>3, <2>2, <3>1 DEF PassedInv
  <2>3. CASE ~dryRun
    <3>1. report["RUN"][s] # "unset"
      BY <1>5, <2>3, RolledBackHasRun
    <3>2. Started("RUN", s)
      BY <3>1 DEF ReportInv, ReportOK
    <3>3. QED
      BY <1>4, <3>2
  <2>4. QED
    BY <2>2, <2>3
<1>6. QED
  BY <1>4, <1>5

\* Beside a rollback, a Run goes on only when it was abandoned.
LEMMA NoRunBeside ==
    ASSUME Inv, NEW s \in Services,
           Started("ROLLBACK", s), report["RUN"][s] # "timeout"
    PROVE  inner["RUN"][s] # "running"
<1> USE DEF Inv, Actions
<1>1. CASE dryRun
  BY <1>1 DEF RunAfterCheck, Started
<1>2. CASE ~dryRun
  <2>1. report["RUN"][s] \in {"nil", "error"}
    BY <1>2, RolledBackHasRun DEF TypeOK
  <2>2. QED
    BY <2>1 DEF ReportInv, ReportOK
<1>3. QED
  BY <1>1, <1>2

\* No other step ends a goroutine, or starts one a second time.
LEMMA ControlCases ==
    ASSUME Inv, ControlStep
    PROVE  \/ UNCHANGED inner
           \/ \E b \in Actions, k \in Stages :
                 StartAction(b, k) /\ \A s \in Services : StageOf[s] = k => ~Started(b, s)
<1> USE DEF Actions
<1>0. TypeOK /\ MainInv /\ OutcomeInv /\ ReachInv /\ stage \in Int
  BY DEF Inv, TypeOK
<1>1. CASE StartStage
  <2>1. stage \in Stages => StartAction("CHECK", stage)
                            /\ \A s \in Services : StageOf[s] = stage => ~Started("CHECK", s)
    BY <1>0, <1>1 DEF StartStage, ReachInv, Reach
  <2>2. stage \notin Stages => UNCHANGED inner
    BY <1>1 DEF StartStage
  <2>3. QED
    BY <2>1, <2>2
<1>2. CASE ToRecover
  <2>1. \A s \in Services : StageOf[s] = stage => ~Started("RECOVER", s)
    BY <1>0, <1>2 DEF ToRecover, ReachInv, Reach
  <2>2. QED
    BY <1>2, <2>1 DEF ToRecover
<1>3. CASE ToRun
  <2>1. \A s \in Services : StageOf[s] = stage => ~Started("RUN", s)
    BY <1>0, <1>3 DEF ToRun, ReachInv, Reach
  <2>2. QED
    BY <1>3, <2>1 DEF ToRun
<1>4. CASE ToNext \/ \E err \in Failures : ToFail(err)
  BY <1>4 DEF ToNext, ToFail, Fail
<1>5. ASSUME NEW k \in Stages, StartRollback(k)
      PROVE  StartAction("ROLLBACK", k)
             /\ \A s \in Services : StageOf[s] = k => ~Started("ROLLBACK", s)
  BY <1>0, <1>5 DEF StartRollback, ReachInv, Reach
<1>6. CASE \/ \E a \in Actions, s \in Services : Collect(a, s) \/ Timeout(a, s)
           \/ CtxCancel \/ Ended \/ Reply
           \/ \E k \in Stages : EndRollback(k)
  BY <1>6 DEF Collect, Timeout, CtxCancel, Ended, Reply, EndRollback, vars
<1>7. QED
  BY <1>0, <1>1, <1>2, <1>3, <1>4, <1>5, <1>6, AfterCases DEF ControlStep

LEMMA EndedStay ==
    ASSUME Inv, ControlStep, NEW a \in Actions, NEW s \in Services
    PROVE  /\ HasEnded(a, s)' <=> HasEnded(a, s)
           /\ inner[a][s] = "ok" <=> inner'[a][s] = "ok"
<1>1. CASE UNCHANGED inner
  BY <1>1 DEF HasEnded
<1>2. ASSUME NEW b \in Actions, NEW k \in Stages, StartAction(b, k),
             StageOf[s] = k => ~Started(b, s)
      PROVE  /\ HasEnded(a, s)' <=> HasEnded(a, s)
             /\ inner[a][s] = "ok" <=> inner'[a][s] = "ok"
  <2>1. inner'[a][s] = IF a = b /\ StageOf[s] = k THEN "running" ELSE inner[a][s]
    BY <1>2, StartActionFacts DEF Inv
  <2>2. QED
    BY <1>2, <2>1 DEF HasEnded, Started
<1>3. QED
  BY <1>1, <1>2, ControlCases

\* RestFinish ends one goroutine.
LEMMA FinishFacts ==
    ASSUME TypeOK, NEW a \in Actions, NEW s \in Services, Finish(a, s)
    PROVE  /\ inner[a][s] = "running" /\ inner'[a][s] \in {"ok", "failed"}
           /\ \A b \in Actions, t \in Services :
                b # a \/ t # s => inner'[b][t] = inner[b][t]
           /\ report' = report
  BY DEF Finish, TypeOK

-----------------------------------------------------------------------------
(* What Check, Run and Rollback do to the object of the service.            *)

OtherNamesKept(s, after) == \A n \in Names : n # RequestName[s] => after[n] = api[n]

LEMMA WriterFacts ==
    ASSUME OwnObjects, RestAssumption, NEW s \in Writers
    PROVE  /\ s \in Services /\ Method[s] \in {"POST", "PUT", "DELETE"}
           /\ RequestName[s] \in Names
           /\ Method[s] \in {"POST", "PUT"} => PayloadName[s] = RequestName[s]
           /\ \A t \in Writers : RequestName[t] = RequestName[s] => t = s
           /\ Payload[s] \in Contents /\ Absent \notin Contents
  BY DEF OwnObjects, RestAssumption, Writers, Target

LEMMA ReaderFacts ==
    ASSUME RestAssumption, NEW s \in Services, s \notin Writers
    PROVE  /\ Method[s] \in {"GET", "LIST"}
           /\ \A ans \in RunAnswers(s) : ans.api = api
           /\ \A ans \in RollbackAnswers(s) : ans.api = api
<1>1. Method[s] \in {"GET", "LIST"}
  BY DEF RestAssumption, Writers
<1>2. \A ans \in RunAnswers(s) : ans.api = api
  BY <1>1 DEF RunAnswers, Get, Read, WithFaults, Answer
<1>3. \A ans \in RollbackAnswers(s) : ans.api = api
  BY <1>1 DEF RollbackAnswers, Answer
<1>4. QED
  BY <1>1, <1>2, <1>3

LEMMA CheckFacts ==
    ASSUME OwnObjects, RestAssumption, FaultyCalls \subseteq {"RUN"}, RestTypeOK,
           NEW s \in Services, NEW failed \in BOOLEAN, RestCheck(s, failed)
    PROVE  /\ api' = api /\ \A t \in Services : t # s => backup'[t] = backup[t]
           /\ backup' \in [Services -> Contents \cup {Absent}]
           /\ s \in Writers /\ ~failed =>
                IF Method[s] = "POST" THEN api[RequestName[s]] = Absent
                ELSE backup'[s] = api[RequestName[s]] /\ backup'[s] # Absent
<1>1. Get("CHECK", RequestName[s]) =
         {Answer(api, RequestName[s] \notin Names \/ api[RequestName[s]] = Absent)}
  BY DEF Get, WithFaults
<1>2. CASE s \notin Writers
  BY <1>2, ReaderFacts DEF RestCheck, RestTypeOK
<1>3. CASE s \in Writers
  BY <1>1, <1>3, WriterFacts DEF RestCheck, Answer, RestTypeOK
<1>4. QED
  BY <1>2, <1>3

LEMMA RunFacts ==
    ASSUME OwnObjects, RestAssumption, RestTypeOK,
           NEW s \in Writers, NEW ans \in RunAnswers(s)
    PROVE  /\ ans.api \in [Names -> Contents \cup {Absent}]
           /\ OtherNamesKept(s, ans.api)
           /\ ans.api[RequestName[s]] \in {api[RequestName[s]], Changed(s)}
<1> USE WriterFacts DEF RunAnswers, WithFaults, Answer, OtherNamesKept, Changed, RestTypeOK
<1>1. CASE Method[s] = "POST"
  BY <1>1 DEF Post
<1>2. CASE Method[s] = "PUT"
  BY <1>2 DEF Put
<1>3. CASE Method[s] = "DELETE"
  BY <1>3 DEF Delete
<1>4. QED
  BY <1>1, <1>2, <1>3

\* A rollback after a Check that has passed and whatever Run has done.
LEMMA RollbackFacts ==
    ASSUME OwnObjects, RestAssumption, FaultyCalls \subseteq {"RUN"}, RestTypeOK,
           NEW s \in Writers, NEW ans \in RollbackAnswers(s),
           NEW was \in Contents \cup {Absent},
           IF Method[s] = "POST" THEN was = Absent ELSE backup[s] = was /\ backup[s] # Absent,
           api[RequestName[s]] \in {was, Changed(s)}
    PROVE  /\ ans.api \in [Names -> Contents \cup {Absent}]
           /\ OtherNamesKept(s, ans.api)
           /\ ans.api[RequestName[s]] = was
<1> USE WriterFacts DEF RollbackAnswers, WithFaults, Answer, OtherNamesKept, Changed, RestTypeOK
<1>1. CASE Method[s] = "POST"
  BY <1>1 DEF Delete
<1>2. CASE Method[s] = "PUT"
  BY <1>2 DEF Put
<1>3. CASE Method[s] = "DELETE"
  BY <1>3 DEF Post
<1>4. QED
  BY <1>1, <1>2, <1>3

-----------------------------------------------------------------------------
(* Steps of the call, with what they do to the API.                         *)

NoOtherFaults == FaultyCalls \subseteq {"RUN"}

LEMMA RestNextIsNext == [RestNext]_restVars => [Next]_vars
  BY DEF RestNext, RestFinish, ControlStep, Next, restVars

\* A Check that passes has read the object as the call found it.
LEMMA CheckDone ==
    ASSUME RestInv, RestAssumption, OwnObjects, NoOtherFaults,
           NEW s \in Services, RestFinish("CHECK", s)
    PROVE  /\ CheckedInv' /\ api' = api
           /\ backup' \in [Services -> Contents \cup {Absent}]
<1> USE DEF Actions
<1>0. TypeOK /\ Inv /\ CallInv /\ ObjectInv /\ CheckedInv /\ RestTypeOK /\ api0' = api0
  BY DEF RestInv, Inv, RestFinish
<1>1. /\ inner["CHECK"][s] = "running" /\ inner'["CHECK"][s] \in {"ok", "failed"}
      /\ \A t \in Services : t # s => inner'["CHECK"][t] = inner["CHECK"][t]
  BY <1>0, FinishFacts DEF RestFinish
<1> DEFINE failed == inner'["CHECK"][s] = "failed"
<1>2. RestCheck(s, failed) /\ failed \in BOOLEAN
  BY DEF RestFinish
<1> HIDE DEF failed
<1>3. /\ api' = api /\ \A t \in Services : t # s => backup'[t] = backup[t]
      /\ backup' \in [Services -> Contents \cup {Absent}]
      /\ s \in Writers /\ ~failed =>
           IF Method[s] = "POST" THEN api[RequestName[s]] = Absent
           ELSE backup'[s] = api[RequestName[s]] /\ backup'[s] # Absent
  BY <1>0, <1>2, CheckFacts DEF NoOtherFaults
<1>4. s \in Writers => api[RequestName[s]] = api0[RequestName[s]]
  <2>1. ~Started("RUN", s) /\ ~Started("ROLLBACK", s)
    BY <1>0, <1>1, TouchedFacts
  <2>2. QED
    BY <1>0, <2>1 DEF ObjectInv, ObjectOK, HasEnded, Started
<1>5. ASSUME NEW t \in Writers, inner'["CHECK"][t] = "ok"
      PROVE  IF Method[t] = "POST" THEN api0[RequestName[t]] = Absent
             ELSE backup'[t] = api0[RequestName[t]] /\ backup'[t] # Absent
  <2>1. CASE t = s
    BY <1>3, <1>4, <1>5, <2>1 DEF failed
  <2>2. CASE t # s
    <3>1. t \in Services
      BY DEF Writers
    <3>2. QED
      BY <1>0, <1>1, <1>3, <1>5, <2>2, <3>1 DEF CheckedInv
  <2>3. QED
    BY <2>1, <2>2
<1>6. CheckedInv'
  BY <1>0, <1>5 DEF CheckedInv
<1>7. QED
  BY <1>3, <1>6

\* A step that changes at most the object of s keeps what is known of the others.
LEMMA OthersKept ==
    ASSUME RestInv, RestAssumption, OwnObjects, NEW s \in Writers, OtherNamesKept(s, api'),
           api0' = api0, report' = report,
           \A a \in {"RUN", "ROLLBACK"}, t \in Services : t # s => inner'[a][t] = inner[a][t],
           ObjectOK(s, api[RequestName[s]], api0[RequestName[s]])'
    PROVE  ObjectInv' /\ OthersInv'
<1>1. ASSUME NEW t \in Writers, t # s
      PROVE  ObjectOK(t, api[RequestName[t]], api0[RequestName[t]])'
  <2>1. t \in Services /\ RequestName[t] \in Names /\ RequestName[t] # RequestName[s]
    BY <1>1, WriterFacts
  <2>2. api'[RequestName[t]] = api[RequestName[t]]
    BY <2>1 DEF OtherNamesKept
  <2>3. QED
    BY <1>1, <2>1, <2>2 DEF RestInv, ObjectInv, ObjectOK, HasEnded, Changed
<1>2. ObjectInv'
  BY <1>1 DEF ObjectInv
<1>3. OthersInv'
  BY DEF RestInv, OthersInv, OtherNamesKept
<1>4. QED
  BY <1>2, <1>3

\* A Run ends.
LEMMA RunDone ==
    ASSUME RestInv, RestAssumption, OwnObjects, NoOtherFaults,
           NEW s \in Services, RestFinish("RUN", s)
    PROVE  ObjectInv' /\ OthersInv' /\ api' \in [Names -> Contents \cup {Absent}]
<1> USE DEF Actions
<1>0. TypeOK /\ Inv /\ CallInv /\ ObjectInv /\ OthersInv /\ RestTypeOK /\ api0' = api0
  BY DEF RestInv, Inv, RestFinish
<1>1. /\ inner["RUN"][s] = "running" /\ inner'["RUN"][s] \in {"ok", "failed"}
      /\ \A b \in Actions, t \in Services : b # "RUN" \/ t # s => inner'[b][t] = inner[b][t]
      /\ report' = report
  BY <1>0, FinishFacts DEF RestFinish
<1>2. PICK ans \in RunAnswers(s) : api' = ans.api
  BY DEF RestFinish
<1>3. CASE s \in Writers
  <2>1. /\ api' \in [Names -> Contents \cup {Absent}]
        /\ OtherNamesKept(s, api')
        /\ api'[RequestName[s]] \in {api[RequestName[s]], Changed(s)}
    BY <1>0, <1>2, <1>3, RunFacts
  <2>2. HasEnded("ROLLBACK", s)' => report'["RUN"][s] = "timeout"
    BY <1>0, <1>1, NoRunBeside DEF HasEnded, Started
  <2>3. HasEnded("RUN", s)'
    BY <1>1 DEF HasEnded
  <2>4. api'[RequestName[s]] \in {api0[RequestName[s]], Changed(s)}
    BY <1>0, <1>3, <2>1 DEF ObjectInv, ObjectOK
  <2>5. ObjectOK(s, api[RequestName[s]], api0[RequestName[s]])'
    BY <1>0, <2>2, <2>3, <2>4 DEF ObjectOK, Changed
  <2>6. QED
    BY <1>0, <1>1, <1>3, <2>1, <2>5, OthersKept
<1>4. CASE s \notin Writers
  <2>1. api' = api
    BY <1>2, <1>4, ReaderFacts
  <2>2. ASSUME NEW t \in Writers
        PROVE  ObjectOK(t, api[RequestName[t]], api0[RequestName[t]])'
    <3>1. t \in Services /\ t # s
      BY <1>4 DEF Writers
    <3>2. QED
      BY <1>0, <1>1, <2>1, <3>1 DEF ObjectInv, ObjectOK, HasEnded, Changed
  <2>3. ObjectInv' /\ OthersInv'
    BY <1>0, <2>1, <2>2 DEF ObjectInv, OthersInv
  <2>4. QED
    BY <1>0, <2>1, <2>3 DEF RestTypeOK
<1>5. QED
  BY <1>3, <1>4

\* A Rollback ends: whatever Run has done, the object is as the call found it.
LEMMA RollbackDone ==
    ASSUME RestInv, RestAssumption, OwnObjects, NoOtherFaults,
           NEW s \in Services, RestFinish("ROLLBACK", s)
    PROVE  ObjectInv' /\ OthersInv' /\ api' \in [Names -> Contents \cup {Absent}]
<1> USE DEF Actions
<1>0. TypeOK /\ Inv /\ CallInv /\ ObjectInv /\ OthersInv /\ CheckedInv /\ RestTypeOK
      /\ api0' = api0
  BY DEF RestInv, Inv, RestFinish
<1>1. /\ inner["ROLLBACK"][s] = "running" /\ inner'["ROLLBACK"][s] \in {"ok", "failed"}
      /\ \A b \in Actions, t \in Services :
           b # "ROLLBACK" \/ t # s => inner'[b][t] = inner[b][t]
      /\ report' = report
  BY <1>0, FinishFacts DEF RestFinish
<1>2. PICK ans \in RollbackAnswers(s) : api' = ans.api
  BY DEF RestFinish
<1>3. CASE s \in Writers
  <2> DEFINE was == api0[RequestName[s]]
  <2>1. inner["CHECK"][s] = "ok"
    BY <1>0, <1>1, TouchedFacts DEF Started
  <2>2. IF Method[s] = "POST" THEN was = Absent ELSE backup[s] = was /\ backup[s] # Absent
    BY <1>0, <1>3, <2>1 DEF CheckedInv
  <2>3. api[RequestName[s]] \in {was, Changed(s)}
    BY <1>0, <1>3 DEF ObjectInv, ObjectOK
  <2>4. was \in Contents \cup {Absent}
    BY <1>0, <1>3, WriterFacts DEF RestTypeOK
  <2>5. /\ api' \in [Names -> Contents \cup {Absent}]
        /\ OtherNamesKept(s, api')
        /\ api'[RequestName[s]] = was
    <3> HIDE DEF was
    <3>1. QED
      BY <1>0, <1>2, <1>3, <2>2, <2>3, <2>4, RollbackFacts DEF NoOtherFaults
  <2>6. ObjectOK(s, api[RequestName[s]], api0[RequestName[s]])'
    BY <1>0, <2>5 DEF ObjectOK, Changed
  <2>7. QED
    BY <1>0, <1>1, <1>3, <2>5, <2>6, OthersKept
<1>4. CASE s \notin Writers
  <2>1. api' = api
    BY <1>2, <1>4, ReaderFacts
  <2>2. ASSUME NEW t \in Writers
        PROVE  ObjectOK(t, api[RequestName[t]], api0[RequestName[t]])'
    <3>1. t \in Services /\ t # s
      BY <1>4 DEF Writers
    <3>2. QED
      BY <1>0, <1>1, <2>1, <3>1 DEF ObjectInv, ObjectOK, HasEnded, Changed
  <2>3. ObjectInv' /\ OthersInv'
    BY <1>0, <2>1, <2>2 DEF ObjectInv, OthersInv
  <2>4. QED
    BY <1>0, <2>1, <2>3 DEF RestTypeOK
<1>5. QED
  BY <1>3, <1>4

LEMMA RestStep ==
    ASSUME RestInv, RestAssumption, OwnObjects, NoOtherFaults, [RestNext]_restVars
    PROVE  RestInv'
<1> USE DEF Actions
<1>0. /\ TypeOK /\ Inv /\ CallInv /\ RestTypeOK /\ CheckedInv /\ ObjectInv /\ OthersInv
      /\ [Next]_vars
  BY RestNextIsNext DEF RestInv, Inv
<1>1. Inv' /\ TypeOK'
  BY <1>0, InvStep DEF Inv
<1>2. CallInv'
  BY <1>0, <1>1, CallStep
<1>3. ASSUME NEW s \in Services, RestFinish("CHECK", s)
      PROVE  RestInv'
  <2>1. /\ CheckedInv' /\ api' = api /\ api0' = api0
        /\ backup' \in [Services -> Contents \cup {Absent}]
    BY <1>0, <1>3, CheckDone DEF RestFinish
  <2>2. /\ report' = report
        /\ \A a \in {"RUN", "ROLLBACK"}, t \in Services : inner'[a][t] = inner[a][t]
    BY <1>0, <1>3, FinishFacts DEF RestFinish
  <2>3. ObjectInv' /\ OthersInv'
    BY <1>0, <2>1, <2>2 DEF ObjectInv, ObjectOK, OthersInv, HasEnded, Changed, Writers
  <2>4. QED
    BY <1>0, <1>1, <1>2, <2>1, <2>3 DEF RestInv, RestTypeOK
<1>4. ASSUME NEW s \in Services, RestFinish("RECOVER", s)
      PROVE  RestInv'
  <2>1. UNCHANGED <<api, backup, api0>>
    BY <1>4 DEF RestFinish
  <2>2. /\ report' = report
        /\ \A a \in {"CHECK", "RUN", "ROLLBACK"}, t \in Services : inner'[a][t] = inner[a][t]
    BY <1>0, <1>4, FinishFacts DEF RestFinish
  <2>3. ObjectInv' /\ OthersInv' /\ CheckedInv'
    BY <1>0, <2>1, <2>2
    DEF ObjectInv, ObjectOK, OthersInv, CheckedInv, HasEnded, Changed, Writers
  <2>4. QED
    BY <1>0, <1>1, <1>2, <2>1, <2>3 DEF RestInv, RestTypeOK
<1>5. ASSUME NEW a \in {"RUN", "ROLLBACK"}, NEW s \in Services, RestFinish(a, s)
      PROVE  RestInv'
  <2>1. ObjectInv' /\ OthersInv' /\ api' \in [Names -> Contents \cup {Absent}]
    BY <1>5, RunDone, RollbackDone
  <2>2. UNCHANGED <<backup, api0>>
    BY <1>5 DEF RestFinish
  <2>3. \A t \in Services : inner'["CHECK"][t] = inner["CHECK"][t]
    BY <1>0, <1>5, FinishFacts DEF RestFinish
  <2>4. CheckedInv'
    BY <1>0, <2>2, <2>3 DEF CheckedInv, Writers
  <2>5. QED
    BY <1>0, <1>1, <1>2, <2>1, <2>2, <2>4 DEF RestInv, RestTypeOK
<1>6. ASSUME ControlStep \/ UNCHANGED vars, UNCHANGED <<api, backup, api0>>
      PROVE  RestInv'
  <2>1. ASSUME NEW a \in Actions, NEW t \in Services
        PROVE  /\ HasEnded(a, t)' <=> HasEnded(a, t)
               /\ inner[a][t] = "ok" <=> inner'[a][t] = "ok"
    BY <1>0, <1>6, EndedStay DEF HasEnded, vars
  <2>2. \A t \in Services : report["RUN"][t] = "timeout" => report'["RUN"][t] = "timeout"
    BY <1>0, ReportsStay
  <2>3. ASSUME NEW t \in Writers
        PROVE  ObjectOK(t, api[RequestName[t]], api0[RequestName[t]])'
    <3>1. t \in Services
      BY DEF Writers
    <3>2. ObjectOK(t, api[RequestName[t]], api0[RequestName[t]])
      BY <1>0 DEF ObjectInv
    <3>3. QED
      BY <1>6, <2>1, <2>2, <3>1, <3>2 DEF ObjectOK, Changed
  <2>4. CheckedInv'
    BY <1>0, <1>6, <2>1 DEF CheckedInv, Writers
  <2>5. ObjectInv' /\ OthersInv' /\ RestTypeOK'
    BY <1>0, <1>1, <1>6, <2>3 DEF ObjectInv, OthersInv, RestTypeOK
  <2>6. QED
    BY <1>1, <1>2, <2>4, <2>5 DEF RestInv
<1>7. QED
  BY <1>3, <1>4, <1>5, <1>6 DEF RestNext, restVars

LEMMA RestInitInv ==
    ASSUME RestInit
    PROVE  RestInv
<1>1. Inv
  BY InitInv DEF RestInit
<1>2. CallInv
  <2>1. \A s \in Services : StageOf[s] \in Stages
    BY OrchestrationAssumption DEF Stages
  <2>2. QED
    BY <2>1 DEF RestInit, Init, CallInv, RecoveredInv, TimeoutInv, WalkInv, RolledInv,
                Failures, Actions
<1>3. RestTypeOK
  BY <1>1 DEF RestInit, RestTypeOK, Inv
<1>4. CheckedInv /\ ObjectInv /\ OthersInv
  BY DEF RestInit, Init, CheckedInv, ObjectInv, ObjectOK, OthersInv, HasEnded, Writers, Actions
<1>5. QED
  BY <1>1, <1>2, <1>3, <1>4 DEF RestInv

\* At the end of a failed call the API is as the call found it: of each stage
\* that ran, the walk or the failed stage's own rollback has come by.
LEMMA EndRestored ==
    ASSUME RestInv, RestAssumption, OwnObjects
    PROVE  RestoredAtEnd
<1> USE DEF Actions
<1>0. /\ TypeOK /\ Inv /\ CallInv /\ RestTypeOK /\ ObjectInv /\ OthersInv
      /\ MainInv /\ ReachInv /\ OutcomeInv /\ RunAfterCheck /\ ReportInv
      /\ stage \in Int /\ \A s \in Services : StageOf[s] \in Stages /\ StageOf[s] \in Int
  BY OrchestrationAssumption DEF RestInv, Inv, TypeOK, Stages
<1>1. SUFFICES ASSUME pc = "replied", result # "nil", ~skipRollback, ~ctxDone,
                      \A a \in Actions, s \in Services : inner[a][s] # "running",
                      \A k \in Stages : rb[k] \in {"off", "done"}
               PROVE  api = api0
  BY DEF RestoredAtEnd
<1>2. result \in Failures
  BY <1>0, <1>1 DEF MainInv, TypeOK, Failures
<1>3. \A k \in Stages : k < stage => rb[k] = "done"
  BY <1>0, <1>1, <1>2 DEF CallInv, WalkInv, UnderWay
<1>4. ASSUME NEW s \in Services, Started("RUN", s)
      PROVE  Started("ROLLBACK", s)
  <2>1. StageOf[s] <= stage
    BY <1>0, <1>4 DEF ReachInv, Reach
  <2>2. StageOf[s] = stage => result = "runsFailed"
    <3>1. SUFFICES ASSUME StageOf[s] = stage, result # "runsFailed"
                   PROVE  FALSE
      OBVIOUS
    <3>2. FailedIn("CHECK", stage) /\ s \in InStage(stage)
      BY <1>0, <1>2, <3>1 DEF OutcomeInv, Failures, InStage
    <3>3. report["RECOVER"][s] # "nil"
      BY <1>0 DEF ReportInv, ReportOK, CallInv, RecoveredInv, RestAssumption
    <3>4. QED
      BY <1>0, <1>4, <3>1, <3>2, <3>3 DEF RunAfterCheck, FailedIn, Reported
  <2>3. rb[StageOf[s]] = "done"
    BY <1>0, <1>1, <1>2, <1>3, <2>1, <2>2 DEF CallInv, WalkInv
  <2>4. QED
    BY <1>0, <2>3 DEF CallInv, RolledInv
<1>5. ASSUME NEW s \in Writers
      PROVE  api[RequestName[s]] = api0[RequestName[s]]
  <2>1. s \in Services
    BY DEF Writers
  <2>2. /\ HasEnded("RUN", s) <=> Started("RUN", s)
        /\ HasEnded("ROLLBACK", s) <=> Started("ROLLBACK", s)
    BY <1>0, <1>1, <2>1 DEF HasEnded, Started, TypeOK
  <2>3. report["RUN"][s] # "timeout"
    BY <1>0, <1>1, <2>1 DEF CallInv, TimeoutInv
  <2>4. QED
    BY <1>0, <1>4, <2>1, <2>2, <2>3 DEF ObjectInv, ObjectOK
<1>6. \A n \in Names : api[n] = api0[n]
  BY <1>0, <1>5 DEF OthersInv
<1>7. QED
  BY <1>0, <1>6 DEF RestTypeOK

LEMMA RollbackRestored ==
    ASSUME RestInv, OwnObjects
    PROVE  RollbackRestores
  BY DEF RestInv, ObjectInv, ObjectOK, HasEnded, RollbackRestores, Writers, OwnObjects

\* Services that each write an object of their own (OwnObjects), over an API whose
\* answers to Run may get lost but not those to Check and Rollback, leave nothing
\* of a failed call, and a service that was rolled back nothing of its own
\* (api_rest.go: Check's backup, Run and Rollback together).
THEOREM ApiIsRestored ==
    ASSUME OwnObjects, FaultyCalls \subseteq {"RUN"}
    PROVE  RestSpec => []ApiRestored
<1>1. RestInit => RestInv
  BY RestInitInv
<1>2. RestInv /\ [RestNext]_restVars => RestInv'
  BY RestStep, RestAssumption DEF NoOtherFaults
<1>3. RestInv => ApiRestored
  BY EndRestored, RollbackRestored, RestAssumption DEF ApiRestored
<1>4. QED
  BY <1>1, <1>2, <1>3, PTL DEF RestSpec
=============================================================================
