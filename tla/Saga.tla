-------------------------------- MODULE Saga --------------------------------
(***************************************************************************)
(* What a staged call promises, seen from outside: stages commit one after  *)
(* the other; the first that fails decides the outcome; after a failure the *)
(* committed stages may be undone, the latest first.  The failed stage may  *)
(* be undone at any time after the failure.                                 *)
(***************************************************************************)
EXTENDS Integers

CONSTANT N          \* the number of stages

VARIABLES
    committed,      \* stages 1..committed have committed
    outcome,        \* "running", "succeeded" or "failed"
    undo            \* undo[k]: "no", "started" or "done"

vars == <<committed, outcome, undo>>

Init ==
    /\ committed = 0
    /\ outcome = "running"
    /\ undo = [k \in 1..N |-> "no"]

Commit ==
    /\ outcome = "running" /\ committed < N
    /\ committed' = committed + 1
    /\ UNCHANGED <<outcome, undo>>

Succeed ==
    /\ outcome = "running" /\ committed = N
    /\ outcome' = "succeeded"
    /\ UNCHANGED <<committed, undo>>

Abort ==
    /\ outcome = "running" /\ committed < N
    /\ outcome' = "failed"
    /\ UNCHANGED <<committed, undo>>

\* The failed stage is committed + 1.
MayUndo(k) ==
    \/ k = committed + 1
    \/ k <= committed /\ \A j \in (k + 1)..committed : undo[j] = "done"

StartUndo(k) ==
    /\ outcome = "failed" /\ undo[k] = "no" /\ MayUndo(k)
    /\ undo' = [undo EXCEPT ![k] = "started"]
    /\ UNCHANGED <<committed, outcome>>

EndUndo(k) ==
    /\ undo[k] = "started"
    /\ undo' = [undo EXCEPT ![k] = "done"]
    /\ UNCHANGED <<committed, outcome>>

Next ==
    \/ Commit \/ Succeed \/ Abort
    \/ \E k \in 1..N : StartUndo(k) \/ EndUndo(k)

Spec == Init /\ [][Next]_vars
=============================================================================
