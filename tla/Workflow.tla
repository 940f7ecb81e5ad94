------------------------------ MODULE Workflow ------------------------------
(***************************************************************************)
(* pkg/task/workflow: Execute, which runs a chain of activities in order   *)
(* and tries each again (pkg/retry) until it succeeds, and Stop and        *)
(* Finished, which know a running Execute by an identity; with the two     *)
(* workflows of pkg/orchestration/service, which apply or delete an object *)
(* at every service and take the object's ID for that identity.            *)
(* ExecuteConcurrent is in Replication.                                    *)
(***************************************************************************)
EXTENDS Naturals

CONSTANTS
  Calls,       \* number of calls of Execute, numbered as they begin
  Objects,     \* the IDs of the objects they are for
  Chain,       \* number of services
  Tries,       \* Backoff.Steps
  NoExecution

Executions == 1..Calls
\* NewApplyWorkflow and NewDeleteWorkflow, with the services in one order.
Kinds == {"Apply", "Delete"}
Activities == 1..Chain

ASSUME WorkflowAssumption ==
  /\ Chain \in Nat \ {0} /\ Tries \in Nat
  /\ Calls \in Nat /\ NoExecution \notin Executions

VARIABLES
  forever,     \* Backoff.RunForever
  call,        \* call[e]: what e is for, [kind, object], once it began
  phase,       \* phase[e]: "new", "running", "succeeded", "failed"
  at,          \* at[e]: the activity it is at
  left,        \* left[e]: attempts left of that activity
  attempt,     \* attempt[e]: the latest worker
  registered,  \* the workflow's map: whose cancel function is there
  stopped,     \* the executions whose context is done
  made,        \* made[o][n]: what service n holds of object o
  found,       \* (history) made, when e began
  beside       \* (history) the executions for the same object while e ran or after it

workflowVars ==
  <<forever, call, phase, at, left, attempt, registered, stopped, made, found, beside>>

WorkflowInit ==
  /\ forever \in BOOLEAN
  /\ call = [e \in Executions |-> NoExecution]
  /\ phase = [e \in Executions |-> "new"]
  /\ at = [e \in Executions |-> 1] /\ left = [e \in Executions |-> Tries]
  /\ attempt = [e \in Executions |-> "none"]
  /\ registered = [k \in Kinds |-> [o \in Objects |-> NoExecution]]
  /\ stopped = {}
  /\ made = [o \in Objects |-> [n \in Activities |-> "Delete"]]
  /\ found = [e \in Executions |-> NoExecution]
  /\ beside = [e \in Executions |-> {}]

Busy(e) == phase[e] = "running" \/ attempt[e] = "running"
For(o, e) == phase[e] # "new" /\ call[e].object = o
Finished(k, o) == registered[k][o] = NoExecution

\* Execute begins: its cancel function takes the place of any that is there.
Execute(e) ==
  /\ phase[e] = "new" /\ \A f \in 1..(e - 1) : phase[f] # "new"
  /\ phase' = [phase EXCEPT ![e] = "running"]
  /\ \E k \in Kinds, o \in Objects :
       /\ call' = [call EXCEPT ![e] = [kind |-> k, object |-> o]]
       /\ registered' = [registered EXCEPT ![k][o] = e]
       /\ found' = [found EXCEPT ![e] = made[o]]
       /\ beside' = [f \in Executions |->
                       IF f = e THEN {g \in Executions : For(o, g) /\ Busy(g)}
                       ELSE IF For(o, f) THEN beside[f] \cup {e} ELSE beside[f]]
  /\ UNCHANGED <<forever, at, left, attempt, stopped, made>>

\* ExponentialBackoffWithContext: an attempt, in a goroutine of its own, if the
\* context is live and the backoff has steps left.
TryActivity(e) ==
  /\ phase[e] = "running" /\ e \notin stopped
  /\ attempt[e] \in {"none", "retriable"}
  /\ left[e] > 0 \/ forever
  /\ attempt' = [attempt EXCEPT ![e] = "running"]
  /\ left' = IF forever THEN left ELSE [left EXCEPT ![e] = @ - 1]
  /\ UNCHANGED <<forever, call, phase, at, registered, stopped, made, found, beside>>

\* The worker ends, perhaps after Execute: an activity that fails or panics may
\* have done what it is for; the error decides whether it is tried again.
WorkerEnds(e) ==
  /\ attempt[e] = "running"
  /\ \E outcome \in {"ok", "retriable", "final"} :
       /\ attempt' = [attempt EXCEPT ![e] = outcome]
       /\ \/ made' = [made EXCEPT ![call[e].object][at[e]] = call[e].kind]
          \/ outcome # "ok" /\ UNCHANGED made
  /\ UNCHANGED <<forever, call, phase, at, left, registered, stopped, found, beside>>

\* Slip: an Execute that returns early leaves its entry.
UnregisterDone(e) ==
  registered' = IF attempt[e] = "ok" THEN [registered EXCEPT ![call[e].kind][call[e].object] = NoExecution] ELSE registered
\* Execute returns and deletes the entry of its identity.
Unregister(e) == registered' = [registered EXCEPT ![call[e].kind][call[e].object] = NoExecution]
EndsAs(e, p) == phase' = [phase EXCEPT ![e] = p] /\ Unregister(e)

\* The next activity, or the end of the chain.
Advance(e) ==
  /\ phase[e] = "running" /\ attempt[e] = "ok"
  /\ IF at[e] < Chain
     THEN /\ at' = [at EXCEPT ![e] = @ + 1] /\ left' = [left EXCEPT ![e] = Tries]
          /\ attempt' = [attempt EXCEPT ![e] = "none"] /\ UNCHANGED <<phase, registered>>
     ELSE EndsAs(e, "succeeded") /\ UNCHANGED <<at, left, attempt>>
  /\ UNCHANGED <<forever, call, stopped, made, found, beside>>

\* The backoff is used up, or the error is none to retry.
Exhausted(e) == attempt[e] = "final" \/ (attempt[e] \in {"none", "retriable"} /\ left[e] = 0 /\ ~forever)

\* Slips: a stop shows between two attempts only; the chain goes on.
FailBetween(e) ==
  /\ phase[e] = "running"
  /\ Exhausted(e) \/ (e \in stopped /\ attempt[e] # "running")
  /\ EndsAs(e, "failed")
  /\ UNCHANGED <<forever, call, at, left, attempt, stopped, made, found, beside>>
FailGoesOn(e) ==
  /\ phase[e] = "running"
  /\ Exhausted(e) \/ e \in stopped
  /\ IF at[e] < Chain
     THEN /\ at' = [at EXCEPT ![e] = @ + 1] /\ left' = [left EXCEPT ![e] = Tries]
          /\ attempt' = [attempt EXCEPT ![e] = "none"] /\ UNCHANGED <<phase, registered>>
     ELSE EndsAs(e, "failed") /\ UNCHANGED <<at, left, attempt>>
  /\ UNCHANGED <<forever, call, stopped, made, found, beside>>

\* executeActivity gives up: also at once when the context is done, whatever
\* the worker is doing.
Fail(e) ==
  /\ phase[e] = "running"
  /\ Exhausted(e) \/ e \in stopped
  /\ EndsAs(e, "failed")
  /\ UNCHANGED <<forever, call, at, left, attempt, stopped, made, found, beside>>

Stop(k, o) ==
  /\ ~Finished(k, o)
  /\ stopped' = stopped \cup {registered[k][o]}
  /\ UNCHANGED <<forever, call, phase, at, left, attempt, registered, made, found, beside>>

\* The caller's own context.
CallerCancels(e) ==
  /\ phase[e] = "running" /\ e \notin stopped
  /\ stopped' = stopped \cup {e}
  /\ UNCHANGED <<forever, call, phase, at, left, attempt, registered, made, found, beside>>

WorkflowNext ==
  \/ \E e \in Executions :
       Execute(e) \/ TryActivity(e) \/ WorkerEnds(e) \/ Advance(e) \/ Fail(e) \/ CallerCancels(e)
  \/ \E k \in Kinds, o \in Objects : Stop(k, o)

-----------------------------------------------------------------------------
(* Properties.                                                              *)

Alone(e) == phase[e] # "new" /\ beside[e] = {}

\* As long as nothing else works on its object, an Execute has done its work at
\* the services before the one it is at and left those after it alone, also
\* after a retry, a stop or a failure; and if it returned nil, it has done it
\* at all of them (workflow.go:134, service.go:62).
ChainInOrder ==
  \A e \in Executions : Alone(e) =>
    LET object == made[call[e].object] IN
    \A n \in Activities :
      /\ n < at[e] \/ phase[e] = "succeeded" => object[n] = call[e].kind
      /\ n > at[e] => object[n] = found[e][n]

\* Finished says so and Stop reaches it, for an Execute that no other one of
\* the same workflow and identity runs beside: of two, the later takes the
\* entry and the first to end deletes it (workflow.go:107, 125).
StopReaches ==
  /\ \A e \in Executions :
       phase[e] = "running" /\ (\A f \in beside[e] : call[f].kind # call[e].kind)
         => registered[call[e].kind][call[e].object] = e
  /\ \A k \in Kinds, o \in Objects :
       ~Finished(k, o) => phase[registered[k][o]] = "running" /\ call[registered[k][o]] = [kind |-> k, object |-> o]

WorkflowSound == ChainInOrder /\ StopReaches

\* An Execute that is stopped returns, also from an activity that hangs and a
\* backoff that never ends (workflow.go:135 "or when context is cancelled").
StopReturns == \A e \in Executions : e \in stopped ~> phase[e] \in {"succeeded", "failed"}
=============================================================================
