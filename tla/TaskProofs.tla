----------------------------- MODULE TaskProofs -----------------------------
(***************************************************************************)
(* The two ways to execute a workflow.                                     *)
(*                                                                          *)
(* In order (Workflow), for any number of executions, objects, services and *)
(* attempts: an Execute does its work in order, and Stop and Finished know  *)
(* it while it runs (WorkflowSound), as long as nothing else works on its   *)
(* object.  The heart of the invariant is Rivals: of two executions for one *)
(* object, the one that began first has the other beside it, and is beside  *)
(* the other unless it had ended, worker included, and what has ended never *)
(* works again.                                                             *)
(*                                                                          *)
(* Concurrently (Replication), for any stores, values, numbers of attempts  *)
(* and capacity: an Execute that returns no error has replicated its value, *)
(* and no rollback runs beside an attempt of the call (ReplicationSound).   *)
(* An attempt that is abandoned tells that the context has ended, and then  *)
(* no rollback begins; and what a successful attempt has left in a store    *)
(* stays there until its rollback, which needs an error of some store.      *)
(***************************************************************************)
EXTENDS Replication, Workflow, TLAPS

WorkflowSpec == WorkflowInit /\ [][WorkflowNext]_workflowVars

Call == [kind : Kinds, object : Objects]

WorkflowTyped ==
  /\ forever \in BOOLEAN
  /\ call \in [Executions -> Call \cup {NoExecution}]
  /\ phase \in [Executions -> {"new", "running", "succeeded", "failed"}]
  /\ at \in [Executions -> Activities]
  /\ attempt \in [Executions -> {"none", "running", "ok", "retriable", "final"}]
  /\ registered \in [Kinds -> [Objects -> Executions \cup {NoExecution}]]
  /\ made \in [Objects -> [Activities -> Kinds]]
  /\ found \in [Executions -> [Activities -> Kinds] \cup {NoExecution}]
  /\ beside \in [Executions -> SUBSET Executions]

\* An execution that has not begun has done nothing, and is beside none; one
\* that has succeeded was at the last activity, which succeeded.
Begun ==
  \A e \in Executions :
    /\ phase[e] = "new" => at[e] = 1 /\ attempt[e] = "none"
    /\ phase[e] # "new" => call[e] \in Call
    /\ \A f \in beside[e] : phase[f] # "new"
    /\ phase[e] = "succeeded" => at[e] = Chain /\ attempt[e] = "ok"

\* f has come after e.
Followed(e, f) == f \in beside[e] /\ (e \in beside[f] \/ ~Busy(e))

Rivals ==
  \A e, f \in Executions :
    e # f /\ phase[e] # "new" /\ phase[f] # "new" /\ call[e].object = call[f].object
      => Followed(e, f) \/ Followed(f, e)

\* An activity that has succeeded has done its work.
Worked ==
  \A e \in Executions :
    Alone(e) /\ attempt[e] = "ok" => made[call[e].object][at[e]] = call[e].kind

Early(e) == \A n \in Activities : n < at[e] => made[call[e].object][n] = call[e].kind
Late(e)  == \A n \in Activities : n > at[e] => made[call[e].object][n] = found[e][n]
Ordered  == \A e \in Executions : Alone(e) => Early(e) /\ Late(e)

WorkflowInv == WorkflowTyped /\ Begun /\ Rivals /\ Worked /\ Ordered /\ StopReaches

-----------------------------------------------------------------------------
(* What follows from the invariant.                                         *)

\* Whoever has an object to itself has nobody at work beside it.
LEMMA AloneMeansNobodyBusy ==
  ASSUME Rivals, NEW e \in Executions, NEW f \in Executions, e # f,
         Alone(e), phase[f] # "new", call[e].object = call[f].object
  PROVE  ~Busy(f)
BY DEF Rivals, Followed, Alone

\* Of two executions of the same object, one that is still busy is beside the
\* other.
LEMMA BusyIsBeside ==
  ASSUME Rivals, NEW e \in Executions, NEW f \in Executions, e # f, Busy(e),
         phase[e] # "new", phase[f] # "new", call[e].object = call[f].object
  PROVE  e \in beside[f]
BY DEF Rivals, Followed

LEMMA InvariantImpliesSound == WorkflowInv => WorkflowSound
<1> SUFFICES ASSUME WorkflowInv PROVE ChainInOrder BY DEF WorkflowInv, WorkflowSound
<1> USE DEF WorkflowInv
<1>1. ASSUME NEW e \in Executions, Alone(e), NEW n \in Activities
      PROVE  /\ n < at[e] \/ phase[e] = "succeeded" => made[call[e].object][n] = call[e].kind
             /\ n > at[e] => made[call[e].object][n] = found[e][n]
  <2>1. Early(e) /\ Late(e) BY <1>1 DEF Ordered
  <2>2. ASSUME phase[e] = "succeeded" PROVE made[call[e].object][n] = call[e].kind
    <3>1. at[e] = Chain /\ attempt[e] = "ok" BY <2>2 DEF Begun
    <3>2. n < at[e] \/ n = at[e] BY <3>1, WorkflowAssumption DEF Activities
    <3> QED BY <1>1, <2>1, <3>1, <3>2 DEF Early, Worked
  <2> QED BY <2>1, <2>2 DEF Early, Late
<1> QED BY <1>1 DEF ChainInOrder

-----------------------------------------------------------------------------
(* The steps keep the invariant.                                            *)

LEMMA WorkflowStarts == WorkflowInit => WorkflowInv
<1> SUFFICES ASSUME WorkflowInit PROVE WorkflowInv OBVIOUS
<1> USE DEF WorkflowInit
<1>1. 1 \in Activities BY WorkflowAssumption DEF Activities
<1>2. WorkflowTyped BY <1>1 DEF WorkflowTyped, Kinds
<1>3. Begun BY DEF Begun
<1>4. Rivals BY DEF Rivals
<1>5. \A e \in Executions : ~Alone(e) BY DEF Alone
<1>6. StopReaches BY DEF StopReaches, Finished
<1> QED BY <1>2, <1>3, <1>4, <1>5, <1>6 DEF WorkflowInv, Worked, Ordered

\* Execute (workflow.go:134): the newcomer is beside all that have begun with
\* the object, and those that are busy with it are beside the newcomer.
LEMMA ExecuteKeeps ==
  ASSUME WorkflowInv, NEW e \in Executions, Execute(e)
  PROVE  WorkflowInv'
<1> USE DEF WorkflowInv
<1>1. PICK k \in Kinds, o \in Objects :
        /\ call' = [call EXCEPT ![e] = [kind |-> k, object |-> o]]
        /\ registered' = [registered EXCEPT ![k][o] = e]
        /\ found' = [found EXCEPT ![e] = made[o]]
        /\ beside' = [f \in Executions |->
                        IF f = e THEN {g \in Executions : For(o, g) /\ Busy(g)}
                        ELSE IF For(o, f) THEN beside[f] \cup {e} ELSE beside[f]]
  BY DEF Execute
<1>2. /\ phase[e] = "new" /\ phase' = [phase EXCEPT ![e] = "running"]
      /\ UNCHANGED <<forever, at, attempt, made>>
  BY DEF Execute
<1>3. attempt[e] = "none" /\ at[e] = 1 BY <1>2 DEF Begun
<1>4. WorkflowTyped' BY <1>1, <1>2 DEF WorkflowTyped, Call
<1>5. call'[e] = [kind |-> k, object |-> o] /\ call'[e].kind = k /\ call'[e].object = o
  BY <1>1 DEF WorkflowTyped
<1>6. \A f \in Executions : f # e => call'[f] = call[f] /\ phase'[f] = phase[f] /\ found'[f] = found[f]
  BY <1>1, <1>2 DEF WorkflowTyped
<1>7. phase'[e] = "running" /\ found'[e] = made[o] BY <1>1, <1>2 DEF WorkflowTyped
<1>8. \A f \in Executions : f # e => Busy(f)' = Busy(f) BY <1>2, <1>6 DEF Busy
<1>9. Begun'
  <2> SUFFICES ASSUME NEW f \in Executions
               PROVE  /\ phase'[f] = "new" => at'[f] = 1 /\ attempt'[f] = "none"
                      /\ phase'[f] # "new" => call'[f] \in Call
                      /\ \A g \in beside'[f] : phase'[g] # "new"
                      /\ phase'[f] = "succeeded" => at'[f] = Chain /\ attempt'[f] = "ok"
    BY DEF Begun
  <2>1. CASE f = e
    <3>1. \A g \in beside'[f] : g \in Executions /\ phase[g] # "new" BY <1>1, <2>1 DEF For
    <3> QED BY <1>2, <1>5, <1>6, <1>7, <2>1, <3>1 DEF Call
  <2>2. CASE f # e
    <3>1. \A g \in beside'[f] : g \in Executions /\ (g = e \/ phase[g] # "new")
      BY <1>1, <2>2 DEF Begun, WorkflowTyped
    <3>2. \A g \in beside'[f] : phase'[g] # "new" BY <1>6, <1>7, <3>1
    <3> QED BY <1>2, <1>6, <2>2, <3>2 DEF Begun
  <2> QED BY <2>1, <2>2
<1>10. Rivals'
  <2>1. ASSUME NEW f \in Executions, f # e, phase'[f] # "new", call'[f].object = o
        PROVE  Followed(f, e)'
    <3>1. For(o, f) BY <1>6, <2>1 DEF For
    <3>2. e \in beside'[f] BY <1>1, <2>1, <3>1
    <3>3. Busy(f) => f \in beside'[e] BY <1>1, <3>1
    <3> QED BY <1>8, <2>1, <3>2, <3>3 DEF Followed
  <2>2. ASSUME NEW f \in Executions, NEW g \in Executions, f # e, g # e, f # g,
               phase'[f] # "new", phase'[g] # "new", call'[f].object = call'[g].object
        PROVE  Followed(f, g)' \/ Followed(g, f)'
    <3>1. Followed(f, g) \/ Followed(g, f) BY <1>6, <2>2 DEF Rivals
    <3>2. beside[f] \subseteq beside'[f] /\ beside[g] \subseteq beside'[g] BY <1>1, <2>2
    <3> QED BY <1>8, <2>2, <3>1, <3>2 DEF Followed
  <2> QED BY <1>5, <2>1, <2>2 DEF Rivals
<1>11. \A f \in Executions : f # e /\ Alone(f)' => Alone(f) /\ call[f].object # o
  <2> SUFFICES ASSUME NEW f \in Executions, f # e, Alone(f)' PROVE Alone(f) /\ call[f].object # o
    OBVIOUS
  <2>1. phase[f] # "new" /\ beside'[f] = {} BY <1>6 DEF Alone
  <2> QED BY <1>1, <2>1 DEF Alone, For
<1>12. Worked' BY <1>2, <1>3, <1>6, <1>11 DEF Worked
<1>13. Ordered'
  <2>1. Early(e)' BY <1>2, <1>3 DEF Early, Activities
  <2>2. Late(e)' BY <1>2, <1>5, <1>7 DEF Late
  <2>3. ASSUME NEW f \in Executions, f # e, Alone(f)' PROVE Early(f)' /\ Late(f)'
    BY <1>2, <1>6, <1>11, <2>3 DEF Ordered, Early, Late
  <2> QED BY <2>1, <2>2, <2>3 DEF Ordered
<1>14. StopReaches'
  <2>1. ASSUME NEW f \in Executions, phase'[f] = "running",
               \A g \in beside'[f] : call'[g].kind # call'[f].kind
        PROVE  registered'[call'[f].kind][call'[f].object] = f
    <3>1. CASE f = e BY <1>1, <1>5, <3>1 DEF WorkflowTyped
    <3>2. CASE f # e
      <4>1. phase[f] = "running" /\ call[f] \in Call BY <1>6, <2>1, <3>2 DEF Begun
      <4>2. \A g \in beside[f] : g \in Executions /\ g # e BY <1>2 DEF Begun, WorkflowTyped
      <4>3. beside[f] \subseteq beside'[f] BY <1>1, <3>2
      <4>4. \A g \in beside[f] : call[g].kind # call[f].kind BY <1>6, <2>1, <3>2, <4>2, <4>3
      <4>5. registered[call[f].kind][call[f].object] = f BY <4>1, <4>4 DEF StopReaches
      <4>6. ~(call[f].kind = k /\ call[f].object = o)
        <5> SUFFICES ASSUME call[f].kind = k, call[f].object = o PROVE FALSE OBVIOUS
        <5>1. e \in beside'[f] BY <1>1, <3>2, <4>1 DEF For
        <5> QED BY <1>5, <1>6, <2>1, <3>2, <5>1
      <4>7. registered'[call[f].kind][call[f].object] = registered[call[f].kind][call[f].object]
        BY <1>1, <4>1, <4>6 DEF WorkflowTyped, Call
      <4> QED BY <1>6, <3>2, <4>5, <4>7
    <3> QED BY <3>1, <3>2
  <2>2. ASSUME NEW kk \in Kinds, NEW oo \in Objects, registered'[kk][oo] # NoExecution
        PROVE  phase'[registered'[kk][oo]] = "running" /\ call'[registered'[kk][oo]] = [kind |-> kk, object |-> oo]
    <3>1. CASE kk = k /\ oo = o BY <1>1, <1>5, <1>7, <3>1 DEF WorkflowTyped
    <3>2. CASE ~(kk = k /\ oo = o)
      <4>1. registered'[kk][oo] = registered[kk][oo] BY <1>1, <3>2 DEF WorkflowTyped
      <4>2. registered[kk][oo] \in Executions BY <2>2, <4>1 DEF WorkflowTyped
      <4>3. phase[registered[kk][oo]] = "running" /\ call[registered[kk][oo]] = [kind |-> kk, object |-> oo]
        BY <2>2, <4>1 DEF StopReaches, Finished
      <4> QED BY <1>2, <1>6, <4>1, <4>2, <4>3
    <3> QED BY <3>1, <3>2
  <2> QED BY <2>1, <2>2 DEF StopReaches, Finished
<1> QED BY <1>4, <1>9, <1>10, <1>12, <1>13, <1>14

\* An attempt begins: only of an execution that is busy anyway.
LEMMA TryKeeps ==
  ASSUME WorkflowInv, NEW e \in Executions, TryActivity(e)
  PROVE  WorkflowInv'
<1> USE DEF WorkflowInv
<1>1. /\ phase[e] = "running" /\ attempt' = [attempt EXCEPT ![e] = "running"]
      /\ UNCHANGED <<forever, call, phase, at, registered, made, found, beside>>
  BY DEF TryActivity
<1>2. WorkflowTyped' BY <1>1 DEF WorkflowTyped
<1>3. attempt'[e] = "running" /\ \A f \in Executions : f # e => attempt'[f] = attempt[f]
  BY <1>1 DEF WorkflowTyped
<1>4. Begun' BY <1>1, <1>3 DEF Begun
<1>5. \A f \in Executions : Busy(f)' => Busy(f) BY <1>1, <1>3 DEF Busy
<1>6. Rivals' BY <1>1, <1>5 DEF Rivals, Followed
<1>7. Worked' BY <1>1, <1>3 DEF Worked, Alone
<1>8. Ordered' BY <1>1 DEF Ordered, Alone, Early, Late
<1>9. StopReaches' BY <1>1 DEF StopReaches, Finished
<1> QED BY <1>2, <1>4, <1>6, <1>7, <1>8, <1>9

\* A worker ends, in or after its Execute: it has touched the activity that
\* the execution is at, and none has the object to itself beside it.
LEMMA WorkerKeeps ==
  ASSUME WorkflowInv, NEW e \in Executions, WorkerEnds(e)
  PROVE  WorkflowInv'
<1> USE DEF WorkflowInv
<1>1. PICK outcome \in {"ok", "retriable", "final"} :
        /\ attempt' = [attempt EXCEPT ![e] = outcome]
        /\ \/ made' = [made EXCEPT ![call[e].object][at[e]] = call[e].kind]
           \/ outcome # "ok" /\ UNCHANGED made
  BY DEF WorkerEnds
<1>2. attempt[e] = "running" /\ UNCHANGED <<forever, call, phase, at, registered, found, beside>>
  BY DEF WorkerEnds
<1>3. phase[e] \in {"running", "failed"} /\ call[e] \in Call /\ at[e] \in Activities
  BY <1>2 DEF Begun, WorkflowTyped
<1>4. call[e].kind \in Kinds /\ call[e].object \in Objects BY <1>3 DEF Call
<1>5. made' \in [Objects -> [Activities -> Kinds]]
  <2>1. made \in [Objects -> [Activities -> Kinds]] BY DEF WorkflowTyped
  <2>2. CASE UNCHANGED made BY <2>1, <2>2
  <2>3. CASE made' = [made EXCEPT ![call[e].object][at[e]] = call[e].kind]
    <3> DEFINE o == call[e].object
    <3>1. [made[o] EXCEPT ![at[e]] = call[e].kind] \in [Activities -> Kinds] BY <1>3, <1>4, <2>1
    <3>2. made' = [made EXCEPT ![o] = [made[o] EXCEPT ![at[e]] = call[e].kind]] BY <2>3
    <3> QED BY <1>4, <2>1, <3>1, <3>2
  <2> QED BY <1>1, <2>2, <2>3
<1>6. WorkflowTyped' BY <1>1, <1>2, <1>5 DEF WorkflowTyped
<1>7. attempt'[e] = outcome /\ \A f \in Executions : f # e => attempt'[f] = attempt[f]
  BY <1>1 DEF WorkflowTyped
<1>8. Begun' BY <1>2, <1>3, <1>7 DEF Begun
<1>9. \A f \in Executions : Busy(f)' => Busy(f) BY <1>2, <1>7 DEF Busy
<1>10. Rivals' BY <1>2, <1>9 DEF Rivals, Followed
<1>11. \A n \in Activities : n # at[e] => made'[call[e].object][n] = made[call[e].object][n]
  BY <1>1, <1>3, <1>4 DEF WorkflowTyped
<1>12. outcome = "ok" => made'[call[e].object][at[e]] = call[e].kind
  BY <1>1, <1>3, <1>4 DEF WorkflowTyped
<1>13. \A f \in Executions : f # e /\ Alone(f) => made'[call[f].object] = made[call[f].object]
  <2> SUFFICES ASSUME NEW f \in Executions, f # e, Alone(f)
               PROVE  made'[call[f].object] = made[call[f].object]
    OBVIOUS
  <2>1. Busy(e) /\ phase[e] # "new" BY <1>2, <1>3 DEF Busy
  <2>2. call[f].object # call[e].object BY <2>1, AloneMeansNobodyBusy
  <2>3. call[f] \in Call BY DEF Begun, Alone
  <2>4. call[f].object \in Objects BY <2>3 DEF Call
  <2> QED BY <1>1, <1>4, <2>2, <2>4 DEF WorkflowTyped
<1>14. Worked'
  <2> SUFFICES ASSUME NEW f \in Executions, Alone(f), attempt'[f] = "ok"
               PROVE  made'[call[f].object][at[f]] = call[f].kind
    BY <1>2 DEF Worked, Alone
  <2>1. CASE f = e BY <1>7, <1>12, <2>1
  <2>2. CASE f # e BY <1>7, <1>13, <2>2 DEF Worked
  <2> QED BY <2>1, <2>2
<1>15. Ordered'
  <2> SUFFICES ASSUME NEW f \in Executions, Alone(f) PROVE Early(f)' /\ Late(f)'
    BY <1>2 DEF Ordered, Alone
  <2>1. Early(f) /\ Late(f) BY DEF Ordered
  <2>2. CASE f = e
    <3>1. \A n \in Activities : n < at[e] \/ n > at[e] => n # at[e] BY <1>3 DEF Activities
    <3> QED BY <1>2, <1>11, <2>1, <2>2, <3>1 DEF Early, Late
  <2>3. CASE f # e BY <1>2, <1>13, <2>1, <2>3 DEF Early, Late
  <2> QED BY <2>2, <2>3
<1>16. StopReaches' BY <1>2 DEF StopReaches, Finished
<1> QED BY <1>6, <1>8, <1>10, <1>14, <1>15, <1>16

\* Execute returns with phase p: it deletes the entry of its identity, which is
\* another's only if that one runs beside it.
LEMMA EndKeeps ==
  ASSUME WorkflowInv, NEW e \in Executions, phase[e] = "running", NEW p \in {"succeeded", "failed"},
         p = "succeeded" => at[e] = Chain /\ attempt[e] = "ok",
         EndsAs(e, p), UNCHANGED <<forever, call, at, attempt, made, found, beside>>
  PROVE  WorkflowInv'
<1> USE DEF WorkflowInv
<1>1. /\ phase' = [phase EXCEPT ![e] = p]
      /\ registered' = [registered EXCEPT ![call[e].kind][call[e].object] = NoExecution]
  BY DEF EndsAs, Unregister
<1>2. call[e] \in Call BY DEF Begun
<1>3. call[e].kind \in Kinds /\ call[e].object \in Objects BY <1>2 DEF Call
<1>4. WorkflowTyped' BY <1>1, <1>3 DEF WorkflowTyped
<1>5. phase'[e] = p /\ \A f \in Executions : f # e => phase'[f] = phase[f] BY <1>1 DEF WorkflowTyped
<1>6. \A f \in Executions : phase'[f] = "new" <=> phase[f] = "new" BY <1>5
<1>7. Begun' BY <1>5, <1>6 DEF Begun, WorkflowTyped
<1>8. \A f \in Executions : Busy(f)' => Busy(f) BY <1>5 DEF Busy
<1>9. Rivals' BY <1>6, <1>8 DEF Rivals, Followed
<1>10. \A f \in Executions : Alone(f)' <=> Alone(f) BY <1>6 DEF Alone
<1>11. Worked' /\ Ordered' BY <1>10 DEF Worked, Ordered, Early, Late
<1>12. StopReaches'
  <2>1. ASSUME NEW f \in Executions, phase'[f] = "running", \A g \in beside[f] : call[g].kind # call[f].kind
        PROVE  registered'[call[f].kind][call[f].object] = f
    <3>1. f # e /\ phase[f] = "running" BY <1>5, <2>1
    <3>2. registered[call[f].kind][call[f].object] = f BY <2>1, <3>1 DEF StopReaches
    <3>3. call[f].kind \in Kinds /\ call[f].object \in Objects BY <3>1 DEF Begun, Call
    <3>4. ~(call[f].kind = call[e].kind /\ call[f].object = call[e].object)
      <4> SUFFICES ASSUME call[f].kind = call[e].kind, call[f].object = call[e].object PROVE FALSE OBVIOUS
      <4>1. e \in beside[f] BY <3>1, BusyIsBeside DEF Busy
      <4> QED BY <2>1, <4>1
    <3> QED BY <1>1, <1>3, <3>2, <3>3, <3>4 DEF WorkflowTyped
  <2>2. ASSUME NEW kk \in Kinds, NEW oo \in Objects, registered'[kk][oo] # NoExecution
        PROVE  phase'[registered'[kk][oo]] = "running" /\ call[registered'[kk][oo]] = [kind |-> kk, object |-> oo]
    <3>1. registered'[kk][oo] = registered[kk][oo] /\ ~(kk = call[e].kind /\ oo = call[e].object)
      BY <1>1, <1>3, <2>2 DEF WorkflowTyped
    <3>2. registered[kk][oo] \in Executions BY <2>2, <3>1 DEF WorkflowTyped
    <3>3. phase[registered[kk][oo]] = "running" /\ call[registered[kk][oo]] = [kind |-> kk, object |-> oo]
      BY <2>2, <3>1 DEF StopReaches, Finished
    <3>4. registered[kk][oo] # e BY <3>1, <3>3
    <3> QED BY <1>5, <3>1, <3>2, <3>3, <3>4
  <2> QED BY <2>1, <2>2 DEF StopReaches, Finished
<1> QED BY <1>4, <1>7, <1>9, <1>11, <1>12

\* The next activity begins when the one before has done its work.
LEMMA AdvanceKeeps ==
  ASSUME WorkflowInv, NEW e \in Executions, Advance(e)
  PROVE  WorkflowInv'
<1> USE DEF WorkflowInv
<1>1. phase[e] = "running" /\ attempt[e] = "ok" BY DEF Advance
<1>2. UNCHANGED <<forever, call, made, found, beside>> BY DEF Advance
<1>3. at[e] \in Activities BY DEF WorkflowTyped
<1>4. CASE at[e] < Chain
  <2>1. /\ at' = [at EXCEPT ![e] = @ + 1] /\ attempt' = [attempt EXCEPT ![e] = "none"]
        /\ UNCHANGED <<phase, registered>>
    BY <1>4 DEF Advance
  <2>2. at[e] + 1 \in Activities BY <1>3, <1>4, WorkflowAssumption DEF Activities
  <2>3. WorkflowTyped' BY <1>2, <2>1, <2>2 DEF WorkflowTyped
  <2>4. /\ at'[e] = at[e] + 1 /\ attempt'[e] = "none"
        /\ \A f \in Executions : f # e => at'[f] = at[f] /\ attempt'[f] = attempt[f]
    BY <2>1 DEF WorkflowTyped
  <2>5. Begun' BY <1>1, <1>2, <2>1, <2>4 DEF Begun
  <2>6. \A f \in Executions : Busy(f)' => Busy(f) BY <2>1, <2>4 DEF Busy
  <2>7. Rivals' BY <1>2, <2>1, <2>6 DEF Rivals, Followed
  <2>8. Worked' BY <1>2, <2>1, <2>4 DEF Worked, Alone
  <2>9. ASSUME Alone(e) PROVE Early(e)' /\ Late(e)'
    <3>1. Early(e) /\ Late(e) /\ made[call[e].object][at[e]] = call[e].kind
      BY <1>1, <2>9 DEF Ordered, Worked
    <3>2. \A n \in Activities : /\ n < at'[e] => n < at[e] \/ n = at[e]
                                /\ n > at'[e] => n > at[e]
      BY <1>3, <2>4 DEF Activities
    <3> QED BY <1>2, <3>1, <3>2 DEF Early, Late
  <2>10. Ordered' BY <1>2, <2>1, <2>4, <2>9 DEF Ordered, Alone, Early, Late
  <2>11. StopReaches' BY <1>2, <2>1 DEF StopReaches, Finished
  <2> QED BY <2>3, <2>5, <2>7, <2>8, <2>10, <2>11
<1>5. CASE ~(at[e] < Chain)
  <2>1. EndsAs(e, "succeeded") /\ UNCHANGED <<at, attempt>> BY <1>5 DEF Advance
  <2>2. at[e] = Chain BY <1>3, <1>5, WorkflowAssumption DEF Activities
  <2> QED BY <1>1, <1>2, <2>1, <2>2, EndKeeps
<1> QED BY <1>4, <1>5

-----------------------------------------------------------------------------
\* Work is done in order, and Stop and Finished know every execution that runs
\* alone, for any number of calls, objects, services and attempts
\* (workflow.go:106-176, service.go:41-77).
THEOREM WorkflowIsSound == WorkflowSpec => []WorkflowSound
<1>1. WorkflowInv /\ [WorkflowNext]_workflowVars => WorkflowInv'
  <2> SUFFICES ASSUME WorkflowInv, [WorkflowNext]_workflowVars PROVE WorkflowInv' OBVIOUS
  <2>1. ASSUME NEW e \in Executions, Execute(e) PROVE WorkflowInv' BY <2>1, ExecuteKeeps
  <2>2. ASSUME NEW e \in Executions, TryActivity(e) PROVE WorkflowInv' BY <2>2, TryKeeps
  <2>3. ASSUME NEW e \in Executions, WorkerEnds(e) PROVE WorkflowInv' BY <2>3, WorkerKeeps
  <2>4. ASSUME NEW e \in Executions, Advance(e) PROVE WorkflowInv' BY <2>4, AdvanceKeeps
  <2>5. ASSUME NEW e \in Executions, Fail(e) PROVE WorkflowInv'
    <3>1. phase[e] = "running" /\ EndsAs(e, "failed") BY <2>5 DEF Fail
    <3>2. UNCHANGED <<forever, call, at, attempt, made, found, beside>> BY <2>5 DEF Fail
    <3> QED BY <3>1, <3>2, EndKeeps
  <2>6. ASSUME UNCHANGED <<forever, call, phase, at, attempt, registered, made, found, beside>>
        PROVE  WorkflowInv'
    <3> USE <2>6
    <3>1. WorkflowTyped' BY DEF WorkflowInv, WorkflowTyped
    <3>2. Begun' BY DEF WorkflowInv, Begun
    <3>3. Rivals' BY DEF WorkflowInv, Rivals, Followed, Busy
    <3>4. Worked' /\ Ordered' BY DEF WorkflowInv, Worked, Ordered, Early, Late, Alone
    <3>5. StopReaches' BY DEF WorkflowInv, StopReaches, Finished
    <3> QED BY <3>1, <3>2, <3>3, <3>4, <3>5 DEF WorkflowInv
  <2>7. ASSUME NEW e \in Executions, CallerCancels(e) PROVE WorkflowInv'
    BY <2>6, <2>7 DEF CallerCancels
  <2>8. ASSUME NEW k \in Kinds, NEW o \in Objects, Stop(k, o) PROVE WorkflowInv'
    BY <2>6, <2>8 DEF Stop
  <2>9. CASE UNCHANGED workflowVars BY <2>6, <2>9 DEF workflowVars
  <2> QED BY <2>1, <2>2, <2>3, <2>4, <2>5, <2>7, <2>8, <2>9 DEF WorkflowNext
<1> QED BY <1>1, WorkflowStarts, InvariantImpliesSound, PTL DEF WorkflowSpec

-----------------------------------------------------------------------------
(* Replication.                                                             *)

ReplicationTyped ==
    /\ pc \in {"do", "rollback", "send", "returned"}
    /\ ctxDone \in BOOLEAN
    /\ val = [s \in Stores |-> val[s]]
    /\ worker \in [Workflows -> [Stores -> {"idle", "running", "ok", "failed"}]]
    /\ report \in [Workflows -> [Stores -> {"unset", "nil", "error"}]]

\* A report of the call that is there while its worker runs is that of a
\* context which has ended.
Abandoned ==
    \A s \in Stores : worker["do"][s] = "running" /\ report["do"][s] # "unset" => ctxDone

\* Where Execute is tells what the stores have reported: it waits for all, and
\* rolls back for an error only.
Progress ==
    /\ pc = "do" => \A s \in Stores : worker["rollback"][s] = "idle"
    /\ pc # "do" => Waited("do")
    /\ pc \in {"rollback", "send"} => Errors("do") # {}
    /\ \A s \in Stores : worker["rollback"][s] # "idle" => Errors("do") # {}

\* A report of nil is that of a successful attempt, whose value stays until it
\* is rolled back.
Kept ==
    \A s \in Stores :
        /\ report["do"][s] = "nil" => worker["do"][s] = "ok"
        /\ worker["do"][s] = "ok" /\ worker["rollback"][s] = "idle" => val[s] = Target

ReplicationInv == ReplicationTyped /\ Abandoned /\ Progress /\ Kept /\ RollbackAlone

-----------------------------------------------------------------------------
\* A call on a store that returns no error has had its effect.
LEMMA NoErrorMeansDone ==
    ASSUME NEW s \in Stores, NEW o \in DoOutcomes(s), ~o.err
    PROVE  o.val = Target
<1> DEFINE refused == \/ op = "Create" /\ val[s] # Absent
                      \/ op \in {"Update", "Delete"} /\ val[s] = Absent
<1>1. o \in {[val |-> IF refused THEN val[s] ELSE Target, err |-> refused],
             [val |-> val[s], err |-> TRUE]}
            \cup (IF refused THEN {} ELSE {[val |-> Target, err |-> TRUE]})
  BY DEF DoOutcomes, Outcomes
<1> HIDE DEF refused
<1>2. CASE refused BY <1>1, <1>2
<1>3. CASE ~refused BY <1>1, <1>3
<1> QED BY <1>2, <1>3

-----------------------------------------------------------------------------
(* The steps keep the invariant.                                            *)

LEMMA ReplicationStarts == Init => ReplicationInv
<1> SUFFICES ASSUME Init PROVE ReplicationInv OBVIOUS
<1> USE DEF Init
<1>1. ReplicationTyped BY DEF ReplicationTyped, Workflows
<1>2. Abandoned /\ Progress /\ Kept /\ RollbackAlone
  BY DEF Abandoned, Progress, Kept, RollbackAlone, Workflows
<1> QED BY <1>1, <1>2 DEF ReplicationInv

\* An attempt begins: one of a rollback finds no worker of the call left, for
\* all have reported and the context is live.
LEMMA AttemptKeeps ==
    ASSUME ReplicationInv, NEW w \in Workflows, NEW s \in Stores, Attempt(w, s)
    PROVE  ReplicationInv'
<1> USE DEF ReplicationInv
<1>1. /\ pc = w /\ ~ctxDone /\ report[w][s] = "unset" /\ worker[w][s] \in {"idle", "failed"}
      /\ worker' = [worker EXCEPT ![w][s] = "running"]
      /\ UNCHANGED <<op, ctxDone, pc, val, report>>
  BY DEF Attempt, callVars
<1>2. worker' \in [Workflows -> [Stores -> {"idle", "running", "ok", "failed"}]] BY <1>1 DEF ReplicationTyped
<1>3. ReplicationTyped' BY <1>1, <1>2 DEF ReplicationTyped
<1>4. /\ worker'[w][s] = "running"
      /\ \A v \in Workflows, t \in Stores : v # w \/ t # s => worker'[v][t] = worker[v][t]
  BY <1>1 DEF ReplicationTyped
<1>5. "do" \in Workflows /\ "rollback" \in Workflows BY DEF Workflows
<1>6. CASE w = "do"
  <2>1. \A t \in Stores : worker'["rollback"][t] = worker["rollback"][t] /\ worker["rollback"][t] = "idle"
    BY <1>1, <1>4, <1>5, <1>6 DEF Progress
  <2>2. \A t \in Stores : t # s => worker'["do"][t] = worker["do"][t] BY <1>4, <1>5
  <2>3. Abandoned' BY <1>1, <1>6, <2>2 DEF Abandoned
  <2>4. Progress' BY <1>1, <2>1 DEF Progress, Waited, Errors
  <2>5. Kept' BY <1>1, <1>4, <1>6, <2>1, <2>2 DEF Kept, Target
  <2>6. RollbackAlone' BY <2>1 DEF RollbackAlone
  <2> QED BY <1>3, <2>3, <2>4, <2>5, <2>6
<1>7. CASE w = "rollback"
  <2>1. \A t \in Stores : worker'["do"][t] = worker["do"][t] BY <1>4, <1>5, <1>7
  <2>2. \A t \in Stores : worker["do"][t] # "running"
    BY <1>1, <1>7 DEF Progress, Waited, Abandoned
  <2>3. Errors("do") # {} BY <1>1, <1>7 DEF Progress
  <2>4. Abandoned' BY <1>1, <2>1 DEF Abandoned
  <2>5. Progress' BY <1>1, <1>7, <2>3 DEF Progress, Waited, Errors
  <2>6. Kept'
    <3>1. \A t \in Stores : worker'["rollback"][t] = "idle" => worker["rollback"][t] = "idle"
      BY <1>4, <1>5, <1>7
    <3> QED BY <1>1, <2>1, <3>1 DEF Kept, Target
  <2>7. RollbackAlone' BY <2>1, <2>2 DEF RollbackAlone
  <2> QED BY <1>3, <2>4, <2>5, <2>6, <2>7
<1> QED BY <1>6, <1>7 DEF Workflows

\* A worker of the call ends: with its effect, when there is no error.
LEMMA DoKeeps ==
    ASSUME ReplicationInv, NEW s \in Stores, Do(s)
    PROVE  ReplicationInv'
<1> USE DEF ReplicationInv
<1>1. PICK o \in DoOutcomes(s) : Ends("do", s, o) BY DEF Do
<1>2. /\ worker["do"][s] = "running"
      /\ worker' = [worker EXCEPT !["do"][s] = IF o.err THEN "failed" ELSE "ok"]
      /\ val' = [val EXCEPT ![s] = o.val]
      /\ UNCHANGED <<op, ctxDone, pc, report>>
  BY <1>1 DEF Ends, callVars
<1>3. "do" \in Workflows /\ "rollback" \in Workflows /\ "do" # "rollback" BY DEF Workflows
<1>4. ReplicationTyped'
  <2>1. worker' \in [Workflows -> [Stores -> {"idle", "running", "ok", "failed"}]] BY <1>2, <1>3 DEF ReplicationTyped
  <2>2. val' = [t \in Stores |-> val'[t]] BY <1>2 DEF ReplicationTyped
  <2> QED BY <1>2, <2>1, <2>2 DEF ReplicationTyped
<1>5. /\ worker'["do"][s] = IF o.err THEN "failed" ELSE "ok"
      /\ \A t \in Stores : t # s => worker'["do"][t] = worker["do"][t]
      /\ \A t \in Stores : worker'["rollback"][t] = worker["rollback"][t]
  BY <1>2, <1>3 DEF ReplicationTyped
<1>6. val'[s] = o.val /\ \A t \in Stores : t # s => val'[t] = val[t] BY <1>2 DEF ReplicationTyped
<1>7. Abandoned' BY <1>2, <1>5 DEF Abandoned
<1>8. Progress' BY <1>2, <1>5 DEF Progress, Waited, Errors
<1>9. Kept'
  <2>1. ~o.err => val'[s] = Target' BY <1>2, <1>6, NoErrorMeansDone DEF Target
  <2>2. report'["do"][s] # "nil" BY <1>2 DEF Kept
  <2> QED BY <1>2, <1>5, <1>6, <2>1, <2>2 DEF Kept, Target
<1>10. RollbackAlone' BY <1>5 DEF RollbackAlone
<1> QED BY <1>4, <1>7, <1>8, <1>9, <1>10

\* A worker of the rollback ends: only its own store is touched.
LEMMA UndoKeeps ==
    ASSUME ReplicationInv, NEW s \in Stores, Undo(s)
    PROVE  ReplicationInv'
<1> USE DEF ReplicationInv
<1>1. PICK o : Ends("rollback", s, o) BY DEF Undo
<1>2. /\ worker["rollback"][s] = "running"
      /\ worker' = [worker EXCEPT !["rollback"][s] = IF o.err THEN "failed" ELSE "ok"]
      /\ val' = [val EXCEPT ![s] = o.val]
      /\ UNCHANGED <<op, ctxDone, pc, report>>
  BY <1>1 DEF Ends, callVars
<1>3. "do" \in Workflows /\ "rollback" \in Workflows /\ "do" # "rollback" BY DEF Workflows
<1>4. ReplicationTyped'
  <2>1. worker' \in [Workflows -> [Stores -> {"idle", "running", "ok", "failed"}]] BY <1>2, <1>3 DEF ReplicationTyped
  <2>2. val' = [t \in Stores |-> val'[t]] BY <1>2 DEF ReplicationTyped
  <2> QED BY <1>2, <2>1, <2>2 DEF ReplicationTyped
<1>5. /\ worker'["rollback"][s] \in {"failed", "ok"}
      /\ \A t \in Stores : t # s => worker'["rollback"][t] = worker["rollback"][t]
      /\ \A t \in Stores : worker'["do"][t] = worker["do"][t]
  BY <1>2, <1>3 DEF ReplicationTyped
<1>6. \A t \in Stores : t # s => val'[t] = val[t] BY <1>2 DEF ReplicationTyped
<1>7. Abandoned' BY <1>2, <1>5 DEF Abandoned
<1>8. Progress'
  <2>1. pc # "do" BY <1>2 DEF Progress
  <2> QED BY <1>2, <1>5, <2>1 DEF Progress, Waited, Errors
<1>9. Kept' BY <1>2, <1>5, <1>6 DEF Kept, Target
<1>10. RollbackAlone' BY <1>2, <1>5 DEF RollbackAlone
<1> QED BY <1>4, <1>7, <1>8, <1>9, <1>10

\* An activity reports r: nil for a worker that succeeded, any time for a
\* context that has ended.
LEMMA ReportKeeps ==
    ASSUME ReplicationInv, NEW w \in Workflows, NEW s \in Stores, NEW r \in {"nil", "error"},
           pc = w, report[w][s] = "unset",
           r = "nil" => worker[w][s] = "ok",
           worker[w][s] = "running" => ctxDone,
           report' = [report EXCEPT ![w][s] = r],
           UNCHANGED <<op, ctxDone, pc, val, worker>>
    PROVE  ReplicationInv'
<1> USE DEF ReplicationInv
<1>1. "do" \in Workflows /\ "rollback" \in Workflows BY DEF Workflows
<1>2. report' \in [Workflows -> [Stores -> {"unset", "nil", "error"}]] BY DEF ReplicationTyped
<1>3. ReplicationTyped' BY <1>2 DEF ReplicationTyped
<1>4. report'[w][s] = r /\ \A v \in Workflows, t \in Stores : v # w \/ t # s => report'[v][t] = report[v][t]
  BY DEF ReplicationTyped
<1>5. Abandoned' BY <1>1, <1>4 DEF Abandoned
<1>6. Progress'
  <2>1. CASE w = "do" BY <2>1 DEF Progress
  <2>2. CASE w = "rollback"
    <3>1. \A t \in Stores : report'["do"][t] = report["do"][t] BY <1>1, <1>4, <2>2
    <3> QED BY <2>2, <3>1 DEF Progress, Waited, Errors
  <2> QED BY <2>1, <2>2 DEF Workflows
<1>7. Kept' BY <1>1, <1>4 DEF Kept, Target
<1>8. RollbackAlone' BY DEF RollbackAlone
<1> QED BY <1>3, <1>5, <1>6, <1>7, <1>8

-----------------------------------------------------------------------------
\* What a write on all stores promises, for any number of stores and attempts
\* (replicate.go:110-180, workflow.go:178-230).
THEOREM ReplicationIsSound == Spec => []ReplicationSound
<1>1. ReplicationInv /\ [Next]_vars => ReplicationInv'
  <2> SUFFICES ASSUME ReplicationInv, [Next]_vars PROVE ReplicationInv' OBVIOUS
  <2>1. ASSUME NEW w \in Workflows, NEW s \in Stores, Attempt(w, s) PROVE ReplicationInv'
    BY <2>1, AttemptKeeps
  <2>2. ASSUME NEW w \in Workflows, NEW s \in Stores, Collect(w, s) PROVE ReplicationInv'
    <3> DEFINE r == IF worker[w][s] = "ok" THEN "nil" ELSE "error"
    <3>1. /\ pc = w /\ report[w][s] = "unset" /\ worker[w][s] # "running"
          /\ report' = [report EXCEPT ![w][s] = r]
          /\ UNCHANGED <<op, ctxDone, pc, val, worker>>
      BY <2>2 DEF Collect, callVars
    <3>2. r \in {"nil", "error"} /\ (r = "nil" => worker[w][s] = "ok") OBVIOUS
    <3> HIDE DEF r
    <3> QED BY <3>1, <3>2, ReportKeeps
  <2>3. ASSUME NEW w \in Workflows, NEW s \in Stores, Timeout(w, s) PROVE ReplicationInv'
    BY <2>3, ReportKeeps DEF Timeout, callVars
  <2>4. ASSUME NEW s \in Stores, Do(s) PROVE ReplicationInv' BY <2>4, DoKeeps
  <2>5. ASSUME NEW s \in Stores, Undo(s) PROVE ReplicationInv' BY <2>5, UndoKeeps
  <2>6. CASE CtxCancel
    BY <2>6 DEF CtxCancel, callVars, ReplicationInv, ReplicationTyped, Abandoned, Progress, Waited, Errors,
                Kept, Target, RollbackAlone
  <2>7. ASSUME AfterDo \/ AfterRollback \/ Send PROVE ReplicationInv'
    <3>1. UNCHANGED <<op, ctxDone, val, worker, report>>
      BY <2>7 DEF AfterDo, AfterRollback, Send, callVars
    <3>2. /\ pc' \in {"rollback", "send", "returned"}
          /\ pc = "do" => Waited("do") /\ (pc' = "rollback" => Errors("do") # {}) /\ pc' # "send"
          /\ pc # "do" => pc \in {"rollback", "send"} \/ pc' = pc
      BY <2>7 DEF AfterDo, AfterRollback, Send
    <3>3. Progress' BY <3>1, <3>2 DEF ReplicationInv, ReplicationTyped, Progress, Waited, Errors
    <3> QED BY <3>1, <3>2, <3>3 DEF ReplicationInv, ReplicationTyped, Abandoned, Kept, Target, RollbackAlone
  <2>8. CASE UNCHANGED vars
    BY <2>8 DEF vars, callVars, ReplicationInv, ReplicationTyped, Abandoned, Progress, Waited, Errors,
                Kept, Target, RollbackAlone
  <2> QED BY <2>1, <2>2, <2>3, <2>4, <2>5, <2>6, <2>7, <2>8 DEF Next, Ended
<1>2. ReplicationInv => ReplicationSound
  <2> SUFFICES ASSUME ReplicationInv, pc = "returned", Errors("do") = {}, NEW s \in Stores
               PROVE  val[s] = Target
    BY DEF ReplicationSound, NilMeansReplicated, ReplicationInv
  <2> USE DEF ReplicationInv
  <2>1. report["do"][s] = "nil" BY DEF Progress, Waited, Errors, ReplicationTyped, Workflows
  <2>2. worker["rollback"][s] = "idle" BY DEF Progress
  <2> QED BY <2>1, <2>2 DEF Kept
<1> QED BY <1>1, <1>2, ReplicationStarts, PTL DEF Spec
=============================================================================
