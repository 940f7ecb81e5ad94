---------------------------- MODULE MCReplication ----------------------------
(***************************************************************************)
(* The two ways to execute a workflow, for TLC: concurrently, as a         *)
(* replicated store does, or in order, as the services of a controller.    *)
(***************************************************************************)
EXTENDS Replication, Workflow

VARIABLE followed

all == <<followed, vars, workflowVars>>

\* What is not followed starts in one way only.
MCInit ==
  /\ followed \in {"replicate", "chain"}
  /\ Init /\ WorkflowInit
  /\ followed = "replicate" => ~forever
  /\ followed = "chain" => op = "Apply" /\ ~useRollback /\ val = [s \in Stores |-> Absent]

InReplicate == followed = "replicate" /\ UNCHANGED <<followed, workflowVars>>
InChain == followed = "chain" /\ UNCHANGED <<followed, vars>>
\* Nothing is left to do, or nothing that a hanging activity would not do.
Idle == InChain /\ (\A e \in Executions : phase[e] \in {"succeeded", "failed"} /\ attempt[e] # "running") /\ UNCHANGED workflowVars

MCNext == (InReplicate /\ Next) \/ (InChain /\ WorkflowNext) \/ Idle

\* FairSpec of Replication; the goroutine that executes a chain goes on.
MCSpec ==
  /\ MCInit /\ [][MCNext]_all
  /\ WF_all(InReplicate /\ CtxCancel) /\ WF_all(InReplicate /\ Main)
  /\ \A w \in Workflows, s \in Stores :
       WF_all(InReplicate /\ (Attempt(w, s) \/ Collect(w, s) \/ Timeout(w, s)))
  /\ \A e \in Executions : WF_all(InChain /\ (TryActivity(e) \/ Advance(e) \/ Fail(e)))

\* Returns of Replication, where it is the write that is followed.
ReplicateReturns == followed = "replicate" ~> pc = "returned"
=============================================================================
