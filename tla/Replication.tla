----------------------------- MODULE Replication -----------------------------
(***************************************************************************)
(* pkg/store/backends/replicate over pkg/task/workflow and pkg/retry: one   *)
(* Create, Update, Apply or Delete of one key on several stores at once.    *)
(*                                                                          *)
(* ExecuteConcurrent runs an activity per store, under task.Run; an         *)
(* activity makes attempts, each in a worker goroutine of its own, until    *)
(* one succeeds, its backoff has no step left or the context is done.  A    *)
(* worker that is abandoned at the context's end keeps running.  V is not   *)
(* an interface type: any(backup) == nil does not hold for any backup.      *)
(***************************************************************************)
EXTENDS Integers, FiniteSets

CONSTANTS
    Stores,
    Values,
    Zero,           \* the zero value of V
    New,            \* the value the call writes
    Absent,         \* no value under the key
    DoSteps,        \* RetryOnce.Steps
    RollbackSteps,  \* DefaultBackoff.Steps
    Capacity        \* of the channel given to WithRollback

ASSUME ReplicationAssumption ==
    /\ Zero \in Values /\ New \in Values /\ Absent \notin Values
    /\ DoSteps \in Nat /\ RollbackSteps \in Nat /\ Capacity \in Nat

VARIABLES
    op,           \* which call it is
    useRollback,  \* WithRollback was among its options
    ctxDone,      \* the caller's context has ended
    pc,           \* where Execute is
    val,          \* what each store holds under the key
    steps,        \* steps[w][s]: attempts left of the activity of s in workflow w
    worker,       \* worker[w][s]: its latest attempt
    report,       \* report[w][s]: errs or rollbackErrs, once written
    didLock,      \* the stores an attempt of the call has failed on
    sent,         \* rollback errors sent to the channel
    rolledBack    \* (history) the stores rollback was called on

callVars == <<op, useRollback>>
vars == <<callVars, ctxDone, pc, val, steps, worker, report, didLock, sent, rolledBack>>

Workflows == {"do", "rollback"}

TypeOK ==
    /\ op \in {"Create", "Update", "Apply", "Delete"}
    /\ useRollback \in BOOLEAN /\ ctxDone \in BOOLEAN
    /\ pc \in {"do", "rollback", "send", "returned"}
    /\ val \in [Stores -> Values \cup {Absent}]
    /\ steps \in [Workflows -> [Stores -> 0..(DoSteps + RollbackSteps)]]
    /\ worker \in [Workflows -> [Stores -> {"idle", "running", "ok", "failed"}]]
    /\ report \in [Workflows -> [Stores -> {"unset", "nil", "error"}]]
    /\ didLock \subseteq Stores /\ rolledBack \subseteq Stores
    /\ sent \in 0..Cardinality(Stores)

Init ==
    /\ op \in {"Create", "Update", "Apply", "Delete"}
    /\ useRollback \in BOOLEAN /\ ctxDone = FALSE
    /\ pc = "do"
    /\ val \in [Stores -> Values \cup {Absent}]
    /\ steps = [w \in Workflows |->
                  [s \in Stores |-> IF w = "do" THEN DoSteps ELSE RollbackSteps]]
    /\ worker = [w \in Workflows |-> [s \in Stores |-> "idle"]]
    /\ report = [w \in Workflows |-> [s \in Stores |-> "unset"]]
    /\ didLock = {} /\ rolledBack = {} /\ sent = 0

-----------------------------------------------------------------------------
(* A store, from outside: the outcomes of a call, which may fail before or  *)
(* after its effect.                                                        *)

Outcomes(s, refused, after) ==
    {[val |-> IF refused THEN val[s] ELSE after, err |-> refused],
     [val |-> val[s], err |-> TRUE]}
        \cup (IF refused THEN {} ELSE {[val |-> after, err |-> TRUE]})

\* What the call leaves under the key.
Target == IF op = "Delete" THEN Absent ELSE New

\* do: matchWithRollback has consumed the option before, so no backup is read.
DoOutcomes(s) ==
    Outcomes(s, \/ op = "Create" /\ val[s] # Absent
                \/ op \in {"Update", "Delete"} /\ val[s] = Absent, Target)

\* rollback, with the zero value for a backup.
UndoOutcomes(s) ==
    CASE op = "Create"             -> Outcomes(s, val[s] = Absent, Absent)
      [] op \in {"Update", "Apply"} -> Outcomes(s, val[s] = Absent, Zero)
      [] op = "Delete"             -> {[val |-> val[s], err |-> FALSE]}

-----------------------------------------------------------------------------
(* The activities of the two workflows.                                     *)

\* OnError: a first attempt, or another after one that failed.
Attempt(w, s) ==
    /\ pc = w /\ ~ctxDone
    /\ report[w][s] = "unset" /\ steps[w][s] > 0
    /\ worker[w][s] \in {"idle", "failed"}
    /\ worker' = [worker EXCEPT ![w][s] = "running"]
    /\ steps' = [steps EXCEPT ![w][s] = @ - 1]
    /\ UNCHANGED <<callVars, ctxDone, pc, val, report, didLock, sent, rolledBack>>

\* The worker makes its call and reports to workerChan.
Ends(w, s, o) ==
    /\ worker[w][s] = "running"
    /\ worker' = [worker EXCEPT ![w][s] = IF o.err THEN "failed" ELSE "ok"]
    /\ val' = [val EXCEPT ![s] = o.val]
    /\ UNCHANGED <<callVars, ctxDone, pc, steps, report, sent>>

Do(s) ==
    /\ \E o \in DoOutcomes(s) :
        /\ Ends("do", s, o)
        /\ didLock' = IF o.err THEN didLock \cup {s} ELSE didLock
    /\ UNCHANGED rolledBack

\* A store that is not in didLock has nothing to roll back.
Undo(s) ==
    /\ \E o \in IF s \in didLock THEN UndoOutcomes(s)
                ELSE {[val |-> val[s], err |-> FALSE]} : Ends("rollback", s, o)
    /\ rolledBack' = IF s \in didLock THEN rolledBack \cup {s} ELSE rolledBack
    /\ UNCHANGED didLock

\* Mutant: the last error is forgotten when the steps are used up.
CollectLastNil(w, s) ==
    /\ pc = w /\ report[w][s] = "unset"
    /\ \/ worker[w][s] = "ok"
       \/ worker[w][s] = "failed" /\ (steps[w][s] = 0 \/ ctxDone)
    /\ report' = [report EXCEPT ![w][s] =
                    IF worker[w][s] = "ok" \/ steps[w][s] = 0 THEN "nil" ELSE "error"]
    /\ UNCHANGED <<callVars, ctxDone, pc, val, steps, worker, didLock, sent, rolledBack>>

\* The activity ends with its last attempt.
Collect(w, s) ==
    /\ pc = w /\ report[w][s] = "unset"
    /\ \/ worker[w][s] = "ok"
       \/ worker[w][s] = "failed" /\ (steps[w][s] = 0 \/ ctxDone)
    /\ report' = [report EXCEPT ![w][s] = IF worker[w][s] = "ok" THEN "nil" ELSE "error"]
    /\ UNCHANGED <<callVars, ctxDone, pc, val, steps, worker, didLock, sent, rolledBack>>

\* Mutant: the context is watched between attempts only.
TimeoutBetweenAttempts(w, s) ==
    /\ pc = w /\ report[w][s] = "unset" /\ ctxDone
    /\ worker[w][s] # "running"
    /\ report' = [report EXCEPT ![w][s] = "error"]
    /\ UNCHANGED <<callVars, ctxDone, pc, val, steps, worker, didLock, sent, rolledBack>>

\* The context has ended, whatever the activity is doing.
Timeout(w, s) ==
    /\ pc = w /\ report[w][s] = "unset" /\ ctxDone
    /\ report' = [report EXCEPT ![w][s] = "error"]
    /\ UNCHANGED <<callVars, ctxDone, pc, val, steps, worker, didLock, sent, rolledBack>>

CtxCancel ==
    /\ ~ctxDone
    /\ ctxDone' = TRUE
    /\ UNCHANGED <<callVars, pc, val, steps, worker, report, didLock, sent, rolledBack>>

-----------------------------------------------------------------------------
(* Execute.                                                                 *)

\* Mutant: the workflow ends with its first error.
WaitedFailFast(w) ==
    \/ \A s \in Stores : report[w][s] # "unset"
    \/ \E s \in Stores : report[w][s] = "error"

Waited(w) == \A s \in Stores : report[w][s] # "unset"

Errors(w) == {s \in Stores : report[w][s] = "error"}

AfterDo ==
    /\ pc = "do" /\ Waited("do")
    /\ pc' = IF useRollback /\ Errors("do") # {} THEN "rollback" ELSE "returned"
    /\ UNCHANGED <<callVars, ctxDone, val, steps, worker, report, didLock, sent, rolledBack>>

AfterRollback ==
    /\ pc = "rollback" /\ Waited("rollback")
    /\ pc' = "send"
    /\ UNCHANGED <<callVars, ctxDone, val, steps, worker, report, didLock, sent, rolledBack>>

\* errCh <- rollback error, which blocks when the channel is full.
Send ==
    /\ pc = "send"
    /\ IF sent < Cardinality(Errors("rollback"))
       THEN /\ sent < Capacity
            /\ sent' = sent + 1 /\ UNCHANGED pc
       ELSE pc' = "returned" /\ UNCHANGED sent
    /\ UNCHANGED <<callVars, ctxDone, val, steps, worker, report, didLock, rolledBack>>

\* Execute has returned and no worker is left.
Ended ==
    /\ pc = "returned"
    /\ \A w \in Workflows, s \in Stores : worker[w][s] # "running"
    /\ UNCHANGED vars

Next ==
    \/ \E w \in Workflows, s \in Stores :
            Attempt(w, s) \/ Collect(w, s) \/ Timeout(w, s)
    \/ \E s \in Stores : Do(s) \/ Undo(s)
    \/ CtxCancel
    \/ AfterDo \/ AfterRollback \/ Send
    \/ Ended

Spec == Init /\ [][Next]_vars

\* Goroutines that can go on do, and the caller's context ends at some time.
\* A store's call may hang: Do and Undo are not fair.
Main == AfterDo \/ AfterRollback \/ Send

Fairness ==
    /\ WF_vars(CtxCancel) /\ WF_vars(Main)
    /\ \A w \in Workflows, s \in Stores :
            WF_vars(Attempt(w, s) \/ Collect(w, s) \/ Timeout(w, s))

FairSpec == Spec /\ Fairness

-----------------------------------------------------------------------------
(* Properties.                                                              *)

\* Execute returned no error: then, and from then on, every store holds what
\* the call wrote, also where attempts have failed or their answers were lost.
NilMeansReplicated ==
    pc = "returned" /\ Errors("do") = {} => \A s \in Stores : val[s] = Target

\* A rollback never runs beside an attempt of the call, on any store, although
\* attempts are abandoned when the context ends.
RollbackAlone ==
    \A s, t \in Stores :
        worker["rollback"][s] = "running" => worker["do"][t] # "running"

\* What a write on all stores promises its caller, whenever it is looked at.
ReplicationSound == NilMeansReplicated /\ RollbackAlone

\* Execute returns, whichever store hangs, given a channel with room for one
\* error per store and a context that ends.
Returns == <>(pc = "returned")

-----------------------------------------------------------------------------
(* What comments of the code say and the code does not do.                  *)

\* replicate.go:164 "There was no err in locking DB, so rollback for this DB is
\* needed" and :167 "Locking had err (failed), no need to Unlock": rollback is
\* called only on stores the call has succeeded on.
RollbackOnlySucceeded == \A s \in rolledBack : report["do"][s] = "nil"

\* WithRollback: after a failed call whose rollback reported no error, and
\* whose context is live, no store has the value of the call.
RollbackUndoesAll ==
    (pc = "returned" /\ useRollback /\ Errors("do") # {} /\ ~ctxDone
        /\ Errors("rollback") = {} /\ op # "Delete")
    => \A s \in Stores : val[s] # New
=============================================================================
