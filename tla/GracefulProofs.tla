--------------------------- MODULE GracefulProofs ---------------------------
(***************************************************************************)
(* Proofs about Graceful, for any finite set of tasks, and about Health, a *)
(* task that runs in the background, for any checks and endpoints.         *)
(***************************************************************************)
EXTENDS Graceful, Health, FiniteSetTheorems, TLAPS

\* The goroutine of a task, its do function and the two results.
TaskOK(t) ==
    /\ pc[t] = "start" <=> do[t] = "idle" /\ res[t] = "none"
    /\ pc[t] \in {"start", "running", "stopping", "returning"} <=> res[t] = "none"
    /\ pc[t] \in {"failed", "sending"} => res[t] # "nil"
    /\ t \in stopped => pc[t] \notin {"start", "running"}
    /\ pc[t] = "stopping" => t \in stopped
    /\ do[t] = "idle" => err[t] = "nil"
    /\ do[t] = "running" => err[t] # "panic"
    /\ do[t] \in {"recovering", "panicked"} => err[t] # "nil"
    /\ pc[t] = "returning" => do[t] \in Ended \/ err[t] # "nil"
    /\ do[t] = "running" /\ res[t] # "none" => res[t] = "deadline"
    /\ do[t] = "running" /\ pc[t] \notin {"start", "running"} => t \in stopped
TaskInv == \A t \in Tasks : TaskOK(t)

\* Where the error of a task is.
ChanOK(t) ==
    /\ t \in errChan \cup received <=> pc[t] = "done" /\ res[t] # "nil"
    /\ t \notin errChan \cap received
    /\ Closed => pc[t] = "done"
ChanInv == /\ \A t \in Tasks : ChanOK(t)
           /\ reader = "returned" => Closed /\ errChan = {}

\* Why the shared context was cancelled.
CancelInv ==
    /\ cancelled => failFast \/ closer = "done"
    /\ \A t \in Tasks :
        /\ failFast /\ pc[t] = "sending" => cancelled
        /\ t \in notified => signalled
        /\ t \in stopped /\ do[t] = "running" => SharedDone \/ t \in notified
        /\ ~failFast /\ t \in stopped /\ do[t] = "running" => parentDone \/ signalled

Inv == TypeOK /\ TaskInv /\ ChanInv /\ CancelInv /\ FirstErrorCancels

-----------------------------------------------------------------------------

LEMMA InitInv == Init => Inv
<1> SUFFICES ASSUME Init PROVE Inv
  OBVIOUS
<1>1. TypeOK
  BY Zenon DEF Init, TypeOK, Ended
<1>2. TaskInv /\ ChanInv
  BY DEF Init, TaskInv, TaskOK, ChanInv, ChanOK, Closed, Ended
<1>3. CancelInv /\ FirstErrorCancels
  BY DEF Init, CancelInv, FirstErrorCancels
<1>4. QED
  BY <1>1, <1>2, <1>3 DEF Inv

\* The steps of a task that leave the channel alone.
TaskStep(t) ==
    \/ Start(t) \/ DoEnd(t) \/ Recovered(t) \/ FirstSelect(t)
    \/ DoFinished(t) \/ ShutdownTimeout(t) \/ Return(t) \/ CancelSiblings(t)

LEMMA StepCases ==
    ASSUME [Next]_vars
    PROVE  \/ UNCHANGED vars
           \/ ParentCancel \/ Signal
           \/ \E t \in Tasks : TaskStep(t) \/ Send(t) \/ Receive(t)
           \/ Close \/ CloseCancel \/ ReaderDone
  BY DEF Next, TaskStep, Terminated

LEMMA TypeStep ==
    ASSUME TypeOK, TaskInv, [Next]_vars
    PROVE  TypeOK'
<1> USE DEF TypeOK, Ended, ctxVars, taskVars, chanVars
<1>1. ASSUME NEW t \in Tasks, Start(t) PROVE TypeOK'
  BY <1>1 DEF Start
<1>2. ASSUME NEW t \in Tasks, DoEnd(t) \/ Recovered(t) PROVE TypeOK'
  BY <1>2 DEF DoEnd, Recovered
<1>3. ASSUME NEW t \in Tasks, FirstSelect(t) PROVE TypeOK'
  BY <1>3 DEF FirstSelect
<1>4. ASSUME NEW t \in Tasks, DoFinished(t) \/ ShutdownTimeout(t) PROVE TypeOK'
  BY <1>4 DEF DoFinished, ShutdownTimeout
<1>5. ASSUME NEW t \in Tasks, Return(t) PROVE TypeOK'
  <2>1. (IF err[t] # "nil" THEN err[t] ELSE do[t]) \in {"nil", "error", "panic", "deadline"}
    BY <1>5 DEF Return, TaskInv, TaskOK
  <2>2. QED
    BY <1>5, <2>1 DEF Return
<1>6. ASSUME NEW t \in Tasks, CancelSiblings(t) PROVE TypeOK'
  <2>1. (cancelled \/ failFast) \in BOOLEAN
    OBVIOUS
  <2>2. QED
    BY <1>6, <2>1 DEF CancelSiblings
<1>7. ASSUME NEW t \in Tasks, Send(t) \/ Receive(t) PROVE TypeOK'
  BY <1>7 DEF Send, Receive
<1>8. CASE ParentCancel \/ Signal \/ Close \/ CloseCancel \/ ReaderDone
  BY <1>8 DEF ParentCancel, Signal, Close, CloseCancel, ReaderDone
<1>9. CASE UNCHANGED vars
  BY <1>9 DEF vars
<1>10. QED
  BY <1>1, <1>2, <1>3, <1>4, <1>5, <1>6, <1>7, <1>8, <1>9, StepCases DEF TaskStep

LEMMA TaskInvStep ==
    ASSUME TypeOK, TaskInv, [Next]_vars
    PROVE  TaskInv'
<1> SUFFICES ASSUME NEW u \in Tasks PROVE TaskOK(u)'
  BY DEF TaskInv
<1> USE DEF TaskOK, TaskInv, TypeOK, Ended
<1>1. ASSUME NEW t \in Tasks, Start(t) PROVE TaskOK(u)'
  BY <1>1 DEF Start, ctxVars
<1>2. ASSUME NEW t \in Tasks, DoEnd(t) \/ Recovered(t) PROVE TaskOK(u)'
  <2>1. CASE \E out \in {"nil", "error"} : do' = [do EXCEPT ![t] = out] /\ UNCHANGED err
    BY <1>2, <2>1 DEF DoEnd, Recovered, ctxVars
  <2>2. CASE do' = [do EXCEPT ![t] = "recovering"] /\ err' = [err EXCEPT ![t] = "panic"]
    BY <1>2, <2>2 DEF DoEnd, Recovered, ctxVars
  <2>3. CASE Recovered(t)
    BY <2>3 DEF Recovered, ctxVars
  <2>4. QED
    BY <1>2, <2>1, <2>2, <2>3 DEF DoEnd
<1>3. ASSUME NEW t \in Tasks, FirstSelect(t) PROVE TaskOK(u)'
  BY <1>3 DEF FirstSelect
<1>4. ASSUME NEW t \in Tasks, DoFinished(t) \/ ShutdownTimeout(t) PROVE TaskOK(u)'
  BY <1>4 DEF DoFinished, ShutdownTimeout, ctxVars
<1>5. ASSUME NEW t \in Tasks, Return(t) PROVE TaskOK(u)'
  BY <1>5 DEF Return, ctxVars
<1>6. ASSUME NEW t \in Tasks, CancelSiblings(t) \/ Send(t) \/ Receive(t) PROVE TaskOK(u)'
  BY <1>6 DEF CancelSiblings, Send, Receive, ctxVars, taskVars
<1>7. CASE UNCHANGED <<stopped, taskVars>>
  BY <1>7 DEF taskVars
<1>8. QED
  BY <1>1, <1>2, <1>3, <1>4, <1>5, <1>6, <1>7, StepCases
  DEF TaskStep, ParentCancel, Signal, Close, CloseCancel, ReaderDone, vars, ctxVars

LEMMA ChanStep ==
    ASSUME TypeOK, TaskInv, ChanInv, [Next]_vars
    PROVE  ChanInv'
<1> USE DEF ChanInv, ChanOK, TypeOK, Closed
<1>1. ASSUME NEW t \in Tasks, TaskStep(t) PROVE ChanInv'
  <2>1. CASE DoEnd(t) \/ Recovered(t)
    BY <2>1 DEF DoEnd, Recovered, chanVars
  <2>2. CASE ~(DoEnd(t) \/ Recovered(t))
    <3>1. /\ UNCHANGED chanVars /\ pc[t] # "done"
          /\ \A u \in Tasks \ {t} : pc'[u] = pc[u] /\ res'[u] = res[u]
      BY <1>1, <2>2 DEF TaskStep, Start, FirstSelect, DoFinished,
                        ShutdownTimeout, Return, CancelSiblings
    <3>2. pc'[t] = "done" => res'[t] = "nil"
      BY <1>1, <2>2 DEF TaskStep, Start, FirstSelect, DoFinished,
                        ShutdownTimeout, Return, CancelSiblings
    <3>3. QED
      BY <3>1, <3>2 DEF chanVars
  <2>3. QED
    BY <2>1, <2>2
<1>2. ASSUME NEW t \in Tasks, Send(t) PROVE ChanInv'
  BY <1>2 DEF Send, TaskInv, TaskOK
<1>3. ASSUME NEW t \in Tasks, Receive(t) PROVE ChanInv'
  BY <1>3 DEF Receive, taskVars
<1>4. CASE UNCHANGED <<taskVars, chanVars>>
  BY <1>4 DEF taskVars, chanVars
<1>5. CASE Close \/ CloseCancel \/ ReaderDone
  BY <1>5 DEF Close, CloseCancel, ReaderDone, taskVars
<1>6. QED
  BY <1>1, <1>2, <1>3, <1>4, <1>5, StepCases DEF ParentCancel, Signal, vars

LEMMA CancelStep ==
    ASSUME Inv, [Next]_vars
    PROVE  CancelInv' /\ FirstErrorCancels'
<1> USE DEF CancelInv, FirstErrorCancels
<1>0. TypeOK /\ TaskInv /\ ChanInv /\ CancelInv /\ FirstErrorCancels
  BY DEF Inv
<1>1. ASSUME NEW t \in Tasks, Start(t) PROVE CancelInv' /\ FirstErrorCancels'
  BY <1>0, <1>1 DEF Start, ctxVars, chanVars, TypeOK, TaskInv, TaskOK, SharedDone
<1>2. ASSUME NEW t \in Tasks, DoEnd(t) \/ Recovered(t)
      PROVE  CancelInv' /\ FirstErrorCancels'
  <2>1. /\ UNCHANGED <<failFast, ctxVars, pc, chanVars>>
        /\ \A u \in Tasks : do'[u] = "running" => do[u] = "running"
    BY <1>0, <1>2 DEF DoEnd, Recovered, TypeOK
  <2>2. QED
    BY <1>0, <2>1 DEF ctxVars, chanVars, SharedDone
<1>3. ASSUME NEW t \in Tasks, FirstSelect(t) PROVE CancelInv' /\ FirstErrorCancels'
  <2>1. t \notin stopped /\ (cancelled => failFast)
    BY <1>0, <1>3 DEF FirstSelect, TaskInv, TaskOK, ChanInv, ChanOK, Closed
  <2>2. do[t] = "running" => SharedDone \/ t \in notified
    BY <1>3, <2>1 DEF FirstSelect, CtxDone, Ended
  <2>3. QED
    BY <1>0, <1>3, <2>1, <2>2 DEF FirstSelect, chanVars, TypeOK, SharedDone
<1>4. ASSUME NEW t \in Tasks, DoFinished(t) \/ ShutdownTimeout(t) \/ Return(t)
      PROVE  CancelInv' /\ FirstErrorCancels'
  <2>1. /\ UNCHANGED <<failFast, ctxVars, do, chanVars>>
        /\ \A u \in Tasks : pc'[u] = "sending" => pc[u] = "sending"
    BY <1>0, <1>4 DEF DoFinished, ShutdownTimeout, Return, TypeOK
  <2>2. QED
    BY <1>0, <2>1 DEF ctxVars, chanVars, SharedDone
<1>5. ASSUME NEW t \in Tasks, CancelSiblings(t) PROVE CancelInv' /\ FirstErrorCancels'
  BY <1>0, <1>5 DEF CancelSiblings, chanVars, TypeOK, SharedDone
<1>6. ASSUME NEW t \in Tasks, Send(t) \/ Receive(t)
      PROVE  CancelInv' /\ FirstErrorCancels'
  BY <1>0, <1>6 DEF Send, Receive, ctxVars, taskVars, TypeOK, SharedDone
<1>7. CASE ParentCancel \/ Signal
  <2>1. ParentCancel => CancelInv' /\ FirstErrorCancels'
    BY <1>0 DEF ParentCancel, taskVars, chanVars, SharedDone
  <2>2. ASSUME Signal PROVE CancelInv' /\ FirstErrorCancels'
    BY <1>0, <2>2 DEF Signal, taskVars, chanVars, SharedDone, TypeOK, TaskInv, TaskOK
  <2>3. QED
    BY <1>7, <2>1, <2>2
<1>8. CASE CloseCancel
  <2>1. \A u \in Tasks : pc[u] = "done"
    BY <1>0, <1>8 DEF CloseCancel, ChanInv, ChanOK, Closed
  <2>2. QED
    BY <1>0, <1>8, <2>1 DEF CloseCancel, taskVars, SharedDone
<1>9. CASE Close \/ ReaderDone \/ UNCHANGED vars
  BY <1>0, <1>9 DEF Close, ReaderDone, vars, ctxVars, taskVars, chanVars, SharedDone
<1>10. QED
  BY <1>1, <1>2, <1>3, <1>4, <1>5, <1>6, <1>7, <1>8, <1>9, StepCases DEF TaskStep

-----------------------------------------------------------------------------
(* The theorems.                                                            *)

\* Inv holds in every state, for any finite set of tasks.
THEOREM Invariance == Spec => []Inv
<1>1. Inv /\ [Next]_vars => Inv'
  BY TypeStep, TaskInvStep, ChanStep, CancelStep DEF Inv
<1>2. QED
  BY <1>1, InitInv, PTL DEF Spec

\* Every variable keeps its type.
THEOREM TypeCorrect == Spec => []TypeOK
<1>1. Inv => TypeOK
  BY DEF Inv
<1>2. QED
  BY <1>1, Invariance, PTL

\* The channel of RunAllBackground never blocks a sender and is never sent to
\* once closed: a sender's own slot is still free.
THEOREM SendsAreSafe == Spec => []SendIsSafe
<1>1. Inv => SendIsSafe
  <2> SUFFICES ASSUME Inv, NEW t \in Tasks, pc[t] = "sending"
               PROVE  ~Closed /\ Cardinality(errChan) < Cap
    BY DEF SendIsSafe
  <2>1. ~Closed /\ t \notin errChan /\ errChan \subseteq Tasks
    BY DEF Inv, TypeOK, ChanInv, ChanOK
  <2>2. IsFiniteSet(Tasks) /\ Cardinality(Tasks) \in Nat
    BY TasksAssumption, FS_CardinalityType
  <2>3. IsFiniteSet(errChan) /\ Cardinality(errChan) \in Nat
    BY <2>1, <2>2, FS_Subset, FS_CardinalityType
  <2>4. Cardinality(errChan) <= Cardinality(Tasks) /\ Cardinality(errChan) # Cardinality(Tasks)
    BY <2>1, <2>2, FS_Subset
  <2>5. QED
    BY <2>1, <2>2, <2>3, <2>4 DEF Cap
<1>2. QED
  BY <1>1, Invariance, PTL

\* RunAll returns the errors of all tasks that failed, and only those.
THEOREM ErrorsAreDelivered == Spec => []ErrorsDelivered
<1>1. Inv => ErrorsDelivered
  BY DEF Inv, ErrorsDelivered, TypeOK, ChanInv, ChanOK
<1>2. QED
  BY <1>1, Invariance, PTL

\* With FailFast the siblings are cancelled before an error can be seen.
THEOREM FirstErrorAlwaysCancels == Spec => []FirstErrorCancels
<1>1. Inv => FirstErrorCancels
  BY DEF Inv
<1>2. QED
  BY <1>1, Invariance, PTL

\* Without FailFast no task ends the context of another.
THEOREM TasksRunToCompletion == Spec => []RunToCompletion
<1>1. Inv => RunToCompletion
  <2> SUFFICES ASSUME Inv, NEW t \in Tasks, ~failFast, ~parentDone, ~signalled,
                      do[t] = "running"
               PROVE  ~CtxDone(t)
    BY DEF RunToCompletion
  <2>1. t \notin stopped /\ t \notin notified
    BY DEF Inv, CancelInv
  <2>2. pc[t] = "running" \/ pc[t] = "start"
    BY <2>1 DEF Inv, TaskInv, TaskOK
  <2>3. ~cancelled
    BY <2>2 DEF Inv, CancelInv, ChanInv, ChanOK, Closed
  <2>4. QED
    BY <2>1, <2>3 DEF CtxDone, SharedDone
<1>2. QED
  BY <1>1, Invariance, PTL

\* What FailFast promises holds, whether it is set or not.
THEOREM FailFastAlwaysHolds == Spec => []FailFastHolds
<1>1. QED
  BY FirstErrorAlwaysCancels, TasksRunToCompletion, PTL DEF FailFastHolds

\* RunAll waits for every function, or reports the timeout it gave up with.
THEOREM RunAllAlwaysWaits == Spec => []RunAllWaits
<1>1. Inv => RunAllWaits
  <2> SUFFICES ASSUME Inv, NEW t \in Tasks, reader = "returned", do[t] = "running"
               PROVE  res[t] = "deadline" /\ t \in received
    BY DEF RunAllWaits
  <2>1. pc[t] = "done" /\ errChan = {}
    BY DEF Inv, ChanInv, ChanOK
  <2>2. res[t] = "deadline"
    BY <2>1 DEF Inv, TaskInv, TaskOK
  <2>3. QED
    BY <2>1, <2>2 DEF Inv, ChanInv, ChanOK
<1>2. QED
  BY <1>1, Invariance, PTL

-----------------------------------------------------------------------------
(***************************************************************************)
(* Health: the prober, the purger and a request.                           *)
(***************************************************************************)

Outcomes == {"ok", "error"}
Stamps == [val : Outcomes, age : Nat]

\* What is in the store, and on its way there, has a result.
ItemsInv ==
  /\ items \in [Keys -> Stamps \cup {NoItem}]
  /\ prober \in [pc : {"waits", "checks", "caches", "stopped"}, res : [Keys -> Outcomes \cup {"none"}], next : Nat]
  /\ prober.pc = "caches" => \A k \in Keys : prober.res[k] # "none"

\* The purger's list, of items that nobody else takes out.
PurgerInv ==
  /\ DOMAIN purger = {"pc", "list"}
  /\ setup # "shared" /\ purger.pc = "purges" => DOMAIN purger.list \subseteq Held
  /\ PurgerSurvives

\* The request's answer so far, as to the checks whose results have stayed.
RequestInv ==
  /\ DOMAIN request = {"pc", "list", "got", "item", "code"}
  /\ request.pc \in {"none", "reads", "refreshes"}
  /\ request.pc # "none" =>
       /\ request.list \in Lists /\ request.code = "none" /\ steady \subseteq Keys
       /\ request.got \in Seq([ok : BOOLEAN, tolerated : BOOLEAN])
       /\ Len(request.got) < Len(request.list)
       /\ IsPrefix(request.list, AllChecks) =>
            \A i \in 1..Len(request.got) :
               /\ request.got[i].tolerated = MayFail[i]
               /\ i \in steady => (request.got[i].ok <=> items[i].val = "ok")
  /\ request.pc = "refreshes" => request.item \in Outcomes

HealthInv == ItemsInv /\ PurgerInv /\ RequestInv

LEMMA HealthInitInv == HealthInit => HealthInv
<1> SUFFICES ASSUME HealthInit PROVE HealthInv
  OBVIOUS
<1>1. ItemsInv
  BY DEF HealthInit, TimedInit, ItemsInv, Idle, Outcomes
<1>2. PurgerInv
  BY DEF HealthInit, TimedInit, PurgerInv, PurgerSurvives
<1>3. RequestInv
  BY DEF HealthInit, NoRequest, RequestInv
<1> QED
  BY <1>1, <1>2, <1>3 DEF HealthInv

\* An item that is there has a result, so it is not the one that stands for none.
LEMMA HeldItems ==
  ASSUME ItemsInv, NEW k \in Keys
  PROVE  /\ items[k] \in Stamps \/ items[k] = NoItem
         /\ items[k] \in Stamps => items[k] # NoItem /\ items[k].val # "none" /\ items[k].age \in Nat
         /\ k \in Held <=> items[k] \in Stamps
<1>1. items[k] \in Stamps \/ items[k] = NoItem
  BY DEF ItemsInv
<1>2. ASSUME items[k] \in Stamps PROVE items[k] # NoItem /\ items[k].val # "none" /\ items[k].age \in Nat
  BY <1>2 DEF Stamps, Outcomes, NoItem
<1> QED
  BY <1>1, <1>2 DEF Held

LEMMA ItemsStep ==
  ASSUME ItemsInv, RequestInv, [HealthNext]_healthVars
  PROVE  ItemsInv'
<1>1. ASSUME NEW it, items' = it, it \in [Keys -> Stamps \cup {NoItem}], prober' = prober
      PROVE  ItemsInv'
  BY <1>1 DEF ItemsInv
<1>2. ASSUME UNCHANGED <<items, prober>> PROVE ItemsInv'
  BY <1>2 DEF ItemsInv
<1>3. CASE \/ \E k \in Keys : WorldChanges(k)
           \/ HealthDown \/ HealthPurgeList \/ HealthPurgeStop \/ ReadCached
           \/ \E list \in Lists : Ask(list)
  BY <1>2, <1>3 DEF WorldChanges, HealthDown, HealthPurgeList, PurgeList, HealthPurgeStop, PurgeStop, Keep,
                    ReadCached, Ask, timedVars
<1>4. CASE HealthSecond
  <2>1. items' = [k \in Keys |-> IF k \in Held THEN [items[k] EXCEPT !.age = Older(@)] ELSE NoItem]
    BY <1>4 DEF HealthSecond, Second
  <2>2. ASSUME NEW k \in Held PROVE [items[k] EXCEPT !.age = Older(@)] \in Stamps
    <3>1. k \in Keys /\ items[k] \in Stamps
      BY HeldItems DEF Held
    <3> QED
      BY <3>1 DEF Stamps, Older
  <2>3. items' \in [Keys -> Stamps \cup {NoItem}]
    BY <2>1, <2>2
  <2> QED
    BY <1>4, <2>3 DEF HealthSecond, ItemsInv
<1>5. CASE ProbeStart \/ ProbeStop
  BY <1>5 DEF ProbeStart, ProbeStop, Idle, timedVars, ItemsInv
<1>6. CASE \E k \in Keys : CheckAnswers(k) \/ CheckGivesUp(k)
  <2>1. PICK k \in Keys, r \in Outcomes : Report(k, r)
    BY <1>6 DEF CheckAnswers, CheckGivesUp, Outcomes
  <2> DEFINE reported == [prober.res EXCEPT ![k] = r]
             all == \A i \in Keys : reported[i] # "none"
  <2>2. /\ prober.pc = "checks" /\ items' = items
        /\ prober' = [prober EXCEPT !.res = reported, !.pc = IF all THEN "caches" ELSE @]
    BY <2>1 DEF Report, timedVars
  <2>3. reported \in [Keys -> Outcomes \cup {"none"}]
    BY DEF ItemsInv
  <2> HIDE DEF reported
  <2>4. prober'.pc = "caches" => \A i \in Keys : prober'.res[i] # "none"
    BY <2>2 DEF ItemsInv
  <2> QED
    BY <2>2, <2>3, <2>4 DEF ItemsInv
<1>7. CASE CacheResult
  <2>1. items' = [items EXCEPT ![prober.next] = NewItem(prober.res[prober.next])]
    BY <1>7 DEF CacheResult, Write
  <2>2. ASSUME prober.next \in Keys PROVE NewItem(prober.res[prober.next]) \in Stamps
    BY <1>7, <2>2 DEF CacheResult, ItemsInv, Stamps, NewItem
  <2>3. items' \in [Keys -> Stamps \cup {NoItem}]
    BY <2>1, <2>2 DEF ItemsInv
  <2>4. prober' = Idle \/ prober' = [prober EXCEPT !.next = prober.next + 1]
    BY <1>7 DEF CacheResult
  <2> QED
    BY <2>3, <2>4 DEF ItemsInv, Idle
<1>8. CASE \E k \in Keys : HealthPurgeItem(k) \/ UserDeletes(k)
  <2>1. PICK k \in Keys : HealthPurgeItem(k) \/ UserDeletes(k)
    BY <1>8
  <2>2. prober' = prober /\ (items' = items \/ items' = [items EXCEPT ![k] = NoItem])
    BY <2>1 DEF HealthPurgeItem, PurgeItem, UserDeletes, Delete, Keep
  <2> QED
    BY <2>2 DEF ItemsInv
<1>9. CASE Refresh
  <2>1. prober' = prober /\ items' = [items EXCEPT ![Position] = IF @ = NoItem THEN NoItem ELSE NewItem(request.item)]
    BY <1>9 DEF Refresh, WriteBack
  <2>2. NewItem(request.item) \in Stamps
    BY <1>9 DEF Refresh, RequestInv, NewItem, Stamps
  <2> QED
    BY <2>1, <2>2 DEF ItemsInv
<1>10. CASE UNCHANGED healthVars
  BY <1>2, <1>10 DEF healthVars, timedVars
<1> QED
  BY <1>3, <1>4, <1>5, <1>6, <1>7, <1>8, <1>9, <1>10 DEF HealthNext

\* Only the purger and other users of the store take items out of it.
LEMMA HeldStays ==
  ASSUME ItemsInv, RequestInv, [HealthNext]_healthVars,
         ~\E k \in Keys : HealthPurgeItem(k) \/ UserDeletes(k)
  PROVE  Held \subseteq Held'
<1> SUFFICES ASSUME NEW h \in Keys, items[h] # NoItem
             PROVE  items'[h] # NoItem
  BY DEF Held
<1>1. items[h] \in Stamps
  BY HeldItems
<1>2. CASE items' = items
  BY <1>2
<1>3. CASE HealthSecond
  <2>1. items'[h] = [items[h] EXCEPT !.age = Older(@)]
    BY <1>3 DEF HealthSecond, Second, Held
  <2> QED
    BY <1>1, <2>1 DEF Stamps, Outcomes, NoItem
<1>4. CASE CacheResult
  <2>1. items' = [items EXCEPT ![prober.next] = NewItem(prober.res[prober.next])]
    BY <1>4 DEF CacheResult, Write
  <2>2. prober.next = h => prober.res[h] # "none"
    BY <1>4 DEF CacheResult, ItemsInv
  <2> QED
    BY <2>1, <2>2 DEF ItemsInv, NewItem, NoItem
<1>5. CASE Refresh
  <2>1. items' = [items EXCEPT ![Position] = IF @ = NoItem THEN NoItem ELSE NewItem(request.item)]
    BY <1>5 DEF Refresh, WriteBack
  <2>2. request.item # "none"
    BY <1>5 DEF Refresh, RequestInv, Outcomes
  <2> QED
    BY <2>1, <2>2 DEF ItemsInv, NewItem, NoItem
<1> QED
  BY <1>2, <1>3, <1>4, <1>5
  DEF HealthNext, WorldChanges, HealthDown, ProbeStart, ProbeStop, CheckAnswers, CheckGivesUp, Report,
      HealthPurgeList, PurgeList, HealthPurgeStop, PurgeStop, Ask, ReadCached, timedVars, healthVars

LEMMA PurgerKeeps ==
  ASSUME ItemsInv, PurgerInv, RequestInv, [HealthNext]_healthVars
  PROVE  PurgerInv'
<1>0. setup' = setup
  BY DEF HealthNext, WorldChanges, HealthSecond, HealthDown, ProbeStart, ProbeStop, CheckAnswers, CheckGivesUp,
         Report, CacheResult, HealthPurgeList, HealthPurgeItem, HealthPurgeStop, UserDeletes, Keep, Ask,
         ReadCached, Refresh, healthVars
<1>1. CASE \E k \in Keys : HealthPurgeItem(k)
  <2>1. PICK k \in Keys : PurgeItem(k)
    BY <1>1 DEF HealthPurgeItem
  <2> DEFINE rest == DOMAIN purger.list \ {k}
  <2>2. purger.pc = "purges" /\ k \in DOMAIN purger.list
    BY <2>1 DEF PurgeItem
  <2>3. ASSUME NEW h \in Held, h # k PROVE h \in Held'
    BY <2>1, <2>3 DEF PurgeItem, Held, ItemsInv
  <2>4. CASE purger' = Remaining(k)
    <3>1. /\ DOMAIN purger' = {"pc", "list"} /\ DOMAIN purger'.list = rest
          /\ purger'.pc \in {"waits", "purges"}
      BY <2>4 DEF Remaining
    <3>2. setup # "shared" => rest \subseteq Held'
      BY <2>2, <2>3 DEF PurgerInv
    <3> QED
      BY <1>0, <3>1, <3>2 DEF PurgerInv, PurgerSurvives
  <2>5. CASE purger' = [pc |-> "failed", list |-> <<>>] /\ k \notin Held
    <3>1. setup = "shared"
      BY <2>2, <2>5 DEF PurgerInv
    <3> QED
      BY <1>0, <2>5, <3>1 DEF PurgerInv, PurgerSurvives
  <2> QED
    BY <2>1, <2>4, <2>5 DEF PurgeItem
<1>2. CASE \E k \in Keys : UserDeletes(k)
  BY <1>0, <1>2 DEF UserDeletes, Delete, PurgerInv, PurgerSurvives
<1>3. CASE ~\E k \in Keys : HealthPurgeItem(k) \/ UserDeletes(k)
  <2>1. Held \subseteq Held'
    BY <1>3, HeldStays
  <2>2. CASE purger' = purger
    BY <1>0, <2>1, <2>2 DEF PurgerInv, PurgerSurvives
  <2>3. CASE HealthSecond
    <3>1. /\ DOMAIN purger' = DOMAIN purger /\ purger'.pc = purger.pc
          /\ DOMAIN purger'.list = DOMAIN purger.list
      BY <2>3 DEF HealthSecond, Second, PurgerInv
    <3> QED
      BY <1>0, <2>1, <3>1 DEF PurgerInv, PurgerSurvives
  <2>4. CASE HealthPurgeList
    BY <1>0, <2>1, <2>4 DEF HealthPurgeList, PurgeList, PurgerInv, PurgerSurvives
  <2>5. CASE HealthPurgeStop
    BY <1>0, <2>1, <2>5 DEF HealthPurgeStop, PurgeStop, PurgerInv, PurgerSurvives
  <2> QED
    BY <1>3, <2>2, <2>3, <2>4, <2>5
    DEF HealthNext, WorldChanges, HealthDown, ProbeStart, ProbeStop, CheckAnswers, CheckGivesUp, Report,
        CacheResult, Write, Ask, ReadCached, Refresh, WriteBack, timedVars, healthVars
<1> QED
  BY <1>1, <1>2, <1>3

\* The steps of the others: an item that changes is no longer one of those
\* that have stayed.
LEMMA RequestStays ==
  ASSUME RequestInv, request' = request, steady' \subseteq steady,
         \A k \in steady' : items'[k].val = items[k].val
  PROVE  RequestInv'
BY DEF RequestInv

\* The results a request has read so far, and one more.
LEMMA Reading ==
  ASSUME RequestInv, request.pc # "none",
         NEW r \in [ok : BOOLEAN, tolerated : BOOLEAN], Got(r),
         NEW same, same \subseteq steady, \A k \in same : items'[k].val = items[k].val,
         IsPrefix(request.list, AllChecks) =>
           /\ r.tolerated = MayFail[Position]
           /\ Position \in same => (r.ok <=> items'[Position].val = "ok"),
         steady' \subseteq (IF request'.pc = "none" THEN {} ELSE same)
  PROVE  /\ RequestInv'
         /\ IsPrefix(request.list, AllChecks) /\ request'.code # "none" =>
              LET own == {request.list[i] : i \in DOMAIN request.list}
                  failed == {k \in own : items'[k].val # "ok"}
                  fatal == {k \in failed : ~MayFail[k]}
              IN  /\ fatal \cap same # {} => request'.code = "unavailable"
                  /\ failed \cap same # {} => request'.code # "ok"
                  /\ (request'.code = "unavailable" /\ own \subseteq same) => fatal # {}
<1> DEFINE Results == [ok : BOOLEAN, tolerated : BOOLEAN]
           got == Append(request.got, r)
           n == Len(request.got)
<1>0. /\ request.list \in Lists /\ request.code = "none" /\ steady \subseteq Keys
      /\ request.got \in Seq(Results) /\ n < Len(request.list) /\ Position = n + 1
      /\ DOMAIN request = {"pc", "list", "got", "item", "code"}
  BY DEF RequestInv, Position
<1>1. /\ request.list \in Seq(Keys) /\ Len(request.list) \in Nat /\ n \in Nat
  BY <1>0, ListsAssumption
<1>2. /\ got \in Seq(Results) /\ Len(got) = n + 1 /\ got[n + 1] = r
      /\ \A i \in 1..n : got[i] = request.got[i]
  BY <1>0, <1>1
<1> HIDE DEF got
<1>3. ASSUME IsPrefix(request.list, AllChecks), NEW i \in 1..(n + 1)
      PROVE  /\ got[i].tolerated = MayFail[i]
             /\ i \in same => (got[i].ok <=> items'[i].val = "ok")
  <2>1. CASE i = n + 1
    BY <1>0, <1>2, <1>3, <2>1
  <2>2. CASE i \in 1..n
    BY <1>2, <1>3, <2>2 DEF RequestInv
  <2> QED
    BY <1>1, <2>1, <2>2
<1>4. CASE Len(got) < Len(request.list)
  <2>1. request' = [request EXCEPT !.pc = "reads", !.got = got, !.item = "none"]
    BY <1>4 DEF Got, got
  <2>2. /\ request'.pc = "reads" /\ request'.got = got /\ request'.list = request.list
        /\ request'.code = "none" /\ DOMAIN request' = DOMAIN request
    BY <1>0, <2>1
  <2> QED
    BY <1>0, <1>2, <1>3, <1>4, <2>2 DEF RequestInv
<1>5. CASE ~(Len(got) < Len(request.list))
  <2>1. request' = [NoRequest EXCEPT !.code = StatusResponse(got)]
    BY <1>5 DEF Got, got
  <2>2. request'.pc = "none" /\ DOMAIN request' = {"pc", "list", "got", "item", "code"}
        /\ request'.code = StatusResponse(got)
    BY <2>1 DEF NoRequest
  <2>3. RequestInv'
    BY <2>2 DEF RequestInv
  <2>4. Len(request.list) = n + 1
    BY <1>0, <1>1, <1>2, <1>5
  <2>5. ASSUME IsPrefix(request.list, AllChecks)
        PROVE  LET own == {request.list[i] : i \in DOMAIN request.list}
                   failed == {k \in own : items'[k].val # "ok"}
                   fatal == {k \in failed : ~MayFail[k]}
               IN  /\ fatal \cap same # {} => request'.code = "unavailable"
                   /\ failed \cap same # {} => request'.code # "ok"
                   /\ (request'.code = "unavailable" /\ own \subseteq same) => fatal # {}
    <3> DEFINE own == {request.list[i] : i \in DOMAIN request.list}
               failed == {k \in own : items'[k].val # "ok"}
               fatal == {k \in failed : ~MayFail[k]}
               all == {Availability(got[i]) : i \in DOMAIN got}
    <3>1. own = 1..(n + 1)
      <4>1. SubSeq(request.list, 1, n + 1) = SubSeq(AllChecks, 1, n + 1) /\ n + 1 <= Len(AllChecks)
        BY <2>4, <2>5 DEF IsPrefix
      <4>2. AllChecks \in Seq(Keys)
        BY ListsAssumption DEF Lists
      <4>3. \A i \in 1..(n + 1) : request.list[i] = AllChecks[i] /\ i \in DOMAIN AllChecks
        BY <1>1, <2>4, <4>1, <4>2
      <4>4. \A i \in DOMAIN AllChecks : AllChecks[i] = i
        BY DEF AllChecks
      <4>5. DOMAIN request.list = 1..(n + 1)
        BY <1>1, <2>4
      <4> QED
        BY <4>3, <4>4, <4>5
    <3> HIDE DEF own
    <3>2. DOMAIN got = 1..(n + 1) /\ got # <<>>
      BY <1>1, <1>2
    <3>3. request'.code = IF "unavailable" \in all THEN "unavailable" ELSE IF "partial" \in all THEN "partial" ELSE "ok"
      BY <2>2, <3>2 DEF StatusResponse
    <3>4. ASSUME NEW k \in failed \cap same
          PROVE  Availability(got[k]) = (IF MayFail[k] THEN "partial" ELSE "unavailable") /\ k \in DOMAIN got
      <4>1. k \in 1..(n + 1) /\ items'[k].val # "ok" /\ k \in same
        BY <3>1
      <4>2. ~got[k].ok /\ got[k].tolerated = MayFail[k]
        BY <1>2, <1>3, <2>5, <4>1
      <4> QED
        BY <3>2, <4>1, <4>2 DEF Availability
    <3>5. fatal \cap same # {} => request'.code = "unavailable"
      <4> SUFFICES ASSUME NEW k \in fatal \cap same PROVE request'.code = "unavailable"
        OBVIOUS
      <4> QED
        BY <3>3, <3>4
    <3>6. failed \cap same # {} => request'.code # "ok"
      <4> SUFFICES ASSUME NEW k \in failed \cap same PROVE request'.code # "ok"
        OBVIOUS
      <4> QED
        BY <3>3, <3>4
    <3>7. ASSUME request'.code = "unavailable", own \subseteq same PROVE fatal # {}
      <4>1. PICK i \in DOMAIN got : Availability(got[i]) = "unavailable"
        BY <3>3, <3>7
      <4>2. ~got[i].ok /\ ~got[i].tolerated
        BY <4>1 DEF Availability
      <4>3. i \in own /\ i \in same
        BY <3>1, <3>2, <3>7
      <4>4. items'[i].val # "ok" /\ ~MayFail[i]
        BY <1>2, <1>3, <2>5, <3>2, <4>2, <4>3
      <4> QED
        BY <4>3, <4>4
    <3> QED
      BY <3>5, <3>6, <3>7 DEF own
  <2> QED
    BY <2>3, <2>5
<1> QED
  BY <1>4, <1>5

\* What AnswersOwnChecks says of one step.
AnswersWell ==
  LET own == {request.list[i] : i \in DOMAIN request.list}
      same == {k \in steady : items'[k].val = items[k].val}
      failed == {k \in own : items[k].val # "ok"}
      fatal == {k \in failed : ~MayFail[k]}
  IN  (request'.code # "none" /\ request.pc # "none" /\ IsPrefix(request.list, AllChecks)) =>
        /\ fatal \cap same # {} => request'.code = "unavailable"
        /\ failed \cap same # {} => request'.code # "ok"
        /\ (request'.code = "unavailable" /\ own \subseteq same) => fatal # {}

LEMMA ReadingStep ==
  ASSUME ItemsInv, RequestInv, ReadCached \/ Refresh
  PROVE  RequestInv' /\ AnswersWell
<1> DEFINE same == {k \in steady : items'[k].val = items[k].val}
<1>0. /\ request.pc # "none" /\ request.list \in Seq(Keys) /\ request.got \in Seq([ok : BOOLEAN, tolerated : BOOLEAN])
      /\ Position \in 1..Len(request.list) /\ Position \in Keys /\ request.list[Position] \in Keys
      /\ steady \subseteq Keys
      /\ IsPrefix(request.list, AllChecks) => request.list[Position] = Position
  <2>1. request.pc # "none"
    BY DEF ReadCached, Refresh
  <2>2. /\ request.list \in Lists /\ steady \subseteq Keys
        /\ request.got \in Seq([ok : BOOLEAN, tolerated : BOOLEAN]) /\ Len(request.got) < Len(request.list)
    BY <2>1 DEF RequestInv
  <2>3. request.list \in Seq(Keys) /\ Len(request.list) <= Len(Endpoints)
    BY <2>2, ListsAssumption
  <2>4. Position \in 1..Len(request.list) /\ request.list[Position] \in Keys
    BY <2>2, <2>3 DEF Position
  <2>5. AllChecks \in Seq(Keys) /\ Len(AllChecks) <= Len(Endpoints) /\ DOMAIN AllChecks = Keys
        /\ \A i \in Keys : AllChecks[i] = i
    BY ListsAssumption, HealthAssumption DEF Lists, AllChecks
  <2>6. Keys = 1..Len(AllChecks)
    BY <2>5
  <2>7. Position \in Keys
    BY <2>3, <2>4, <2>5, <2>6, HealthAssumption
  <2>8. ASSUME IsPrefix(request.list, AllChecks) PROVE request.list[Position] = Position
    BY <2>3, <2>4, <2>5, <2>8 DEF IsPrefix
  <2> QED
    BY <2>1, <2>2, <2>3, <2>4, <2>7, <2>8
<1>1. ASSUME NEW r \in [ok : BOOLEAN, tolerated : BOOLEAN], Got(r),
             IsPrefix(request.list, AllChecks) =>
               /\ r.tolerated = MayFail[Position]
               /\ Position \in same => (r.ok <=> items'[Position].val = "ok"),
             steady' \subseteq (IF request'.pc = "none" THEN {} ELSE same)
      PROVE  RequestInv' /\ AnswersWell
  <2>1. same \subseteq steady /\ \A k \in same : items'[k].val = items[k].val
    OBVIOUS
  <2> HIDE DEF same
  <2>2. RequestInv'
    BY <1>0, <1>1, <2>1, Reading
  <2>3. ASSUME IsPrefix(request.list, AllChecks), request'.code # "none"
        PROVE  LET own == {request.list[i] : i \in DOMAIN request.list}
                   failed == {k \in own : items'[k].val # "ok"}
                   fatal == {k \in failed : ~MayFail[k]}
               IN  /\ fatal \cap same # {} => request'.code = "unavailable"
                   /\ failed \cap same # {} => request'.code # "ok"
                   /\ (request'.code = "unavailable" /\ own \subseteq same) => fatal # {}
    BY <1>0, <1>1, <2>1, <2>3, Reading
  <2> SUFFICES ASSUME IsPrefix(request.list, AllChecks), request'.code # "none"
               PROVE  LET own == {request.list[i] : i \in DOMAIN request.list}
                          failed == {k \in own : items[k].val # "ok"}
                          fatal == {k \in failed : ~MayFail[k]}
                      IN  /\ fatal \cap same # {} => request'.code = "unavailable"
                          /\ failed \cap same # {} => request'.code # "ok"
                          /\ (request'.code = "unavailable" /\ own \subseteq same) => fatal # {}
    BY <2>2 DEF AnswersWell, same
  <2> QED
    BY <2>1, <2>3
<1>2. NotStarted \in [ok : BOOLEAN, tolerated : BOOLEAN] /\ \A v : Stored(v) \in [ok : BOOLEAN, tolerated : BOOLEAN]
  BY <1>0, HealthAssumption DEF NotStarted, Stored
<1>3. /\ NotStarted.ok = FALSE
      /\ IsPrefix(request.list, AllChecks) => NotStarted.tolerated = MayFail[Position]
  <2>1. IsPrefix(request.list, AllChecks) => request.list[Position] = Position
    BY <1>0
  <2> QED
    BY <2>1, Zenon DEF NotStarted
<1>6. ASSUME NEW v PROVE Stored(v).ok = (v = "ok") /\ Stored(v).tolerated = MayFail[Position]
  BY Zenon DEF Stored
<1>4. CASE ReadCached
  <2>1. items' = items /\ steady' = IF request'.pc = "none" THEN {} ELSE steady
    BY <1>4 DEF ReadCached, timedVars
  <2>2. same = steady
    BY <2>1
  <2>3. CASE items[Position].val = "none"
    <3>1. Got(NotStarted)
      BY <1>4, <2>3 DEF ReadCached
    <3>2. ~(items'[Position].val = "ok")
      BY <2>1, <2>3
    <3>3. steady' \subseteq (IF request'.pc = "none" THEN {} ELSE same)
      BY <2>1, <2>2
    <3> QED
      BY <1>1, <1>2, <1>3, <3>1, <3>2, <3>3
  <2>4. CASE items[Position].val # "none" /\ setup = "refresh"
    <3>1. request' = [request EXCEPT !.pc = "refreshes", !.item = items[Position].val]
      BY <1>4, <2>4 DEF ReadCached
    <3>2. items[Position].val \in Outcomes
      <4>1. items[Position] \in Stamps \/ items[Position] = NoItem
        BY <1>0, HeldItems
      <4> QED
        BY <2>4, <4>1 DEF Stamps, NoItem
    <3>3. /\ request'.pc = "refreshes" /\ request'.item \in Outcomes /\ DOMAIN request' = DOMAIN request
          /\ request'.list = request.list /\ request'.got = request.got /\ request'.code = request.code
          /\ items' = items /\ steady' = steady
      BY <1>0, <2>1, <3>1, <3>2 DEF RequestInv
    <3> QED
      BY <1>0, <3>3 DEF RequestInv, AnswersWell
  <2>5. CASE items[Position].val # "none" /\ setup # "refresh"
    <3>1. Got(Stored(items[Position].val))
      BY <1>4, <2>5 DEF ReadCached
    <3>2. Stored(items[Position].val).ok <=> items'[Position].val = "ok"
      BY <1>6, <2>1
    <3>3. steady' \subseteq (IF request'.pc = "none" THEN {} ELSE same)
      BY <2>1, <2>2
    <3> QED
      BY <1>1, <1>2, <1>6, <3>1, <3>2, <3>3
  <2> QED
    BY <2>3, <2>4, <2>5
<1>5. CASE Refresh
  <2>1. /\ Got(IF items[Position] = NoItem THEN NotStarted ELSE Stored(request.item))
        /\ items' = [items EXCEPT ![Position] = IF @ = NoItem THEN NoItem ELSE NewItem(request.item)]
        /\ steady' = IF request'.pc = "none" THEN {}
                     ELSE IF items'[Position].val = items[Position].val THEN steady ELSE steady \ {Position}
    BY <1>5 DEF Refresh, WriteBack
  <2>2. \A k \in Keys : k # Position => items'[k] = items[k]
    BY <2>1 DEF ItemsInv
  <2>3. steady' \subseteq (IF request'.pc = "none" THEN {} ELSE same)
    BY <1>0, <2>1, <2>2
  <2>4. CASE items[Position] = NoItem
    <3>1. Got(NotStarted) /\ items'[Position] = NoItem
      BY <1>0, <2>1, <2>4 DEF ItemsInv
    <3>2. ~(items'[Position].val = "ok")
      BY <3>1 DEF NoItem
    <3> QED
      BY <1>1, <1>2, <1>3, <2>3, <3>1, <3>2
  <2>5. CASE items[Position] # NoItem
    <3>1. Got(Stored(request.item)) /\ items'[Position] = NewItem(request.item)
      BY <1>0, <2>1, <2>5 DEF ItemsInv
    <3>2. items'[Position].val = request.item
      BY <3>1 DEF NewItem
    <3>3. Stored(request.item).ok <=> items'[Position].val = "ok"
      BY <1>6, <3>2
    <3> QED
      BY <1>1, <1>2, <1>6, <2>3, <3>1, <3>3
  <2> QED
    BY <2>4, <2>5
<1> QED
  BY <1>4, <1>5

LEMMA RequestKeeps ==
  ASSUME ItemsInv, RequestInv, [HealthNext]_healthVars
  PROVE  RequestInv' /\ (AnswersWell \/ UNCHANGED healthVars)
<1>1. ASSUME request' = request PROVE AnswersWell
  BY <1>1 DEF RequestInv, AnswersWell
<1>2. ASSUME NEW k, NEW v, Observed(k, v), request' = request, items'[k].val = v,
             \A j \in Keys \ {k} : items'[j] = items[j]
      PROVE  RequestInv' /\ AnswersWell
  <2>1. steady' \subseteq steady
    BY <1>2 DEF Observed
  <2>2. CASE request.pc = "none"
    BY <1>1, <1>2, <2>2 DEF RequestInv
  <2>3. CASE request.pc # "none"
    <3>1. \A j \in steady' : items'[j].val = items[j].val
      BY <1>2, <2>1, <2>3 DEF Observed, RequestInv
    <3> QED
      BY <1>1, <1>2, <2>1, <3>1, RequestStays
  <2> QED
    BY <2>2, <2>3
<1>3. CASE UNCHANGED <<items, request, steady>>
  BY <1>1, <1>3, RequestStays
<1>4. CASE HealthSecond
  <2>1. request' = request /\ steady' = steady
    BY <1>4 DEF HealthSecond
  <2>2. ASSUME NEW k \in Keys PROVE items'[k].val = items[k].val
    <3>1. items'[k] = IF k \in Held THEN [items[k] EXCEPT !.age = Older(@)] ELSE NoItem
      BY <1>4 DEF HealthSecond, Second
    <3> QED
      BY <3>1, HeldItems DEF Stamps
  <2>3. request.pc # "none" => steady \subseteq Keys
    BY DEF RequestInv
  <2>4. RequestInv'
    BY <2>1, <2>2, <2>3 DEF RequestInv
  <2> QED
    BY <1>1, <2>1, <2>4
<1>5. CASE CacheResult
  <2> DEFINE k == prober.next
  <2>1. /\ items' = [items EXCEPT ![k] = NewItem(prober.res[k])]
        /\ Observed(k, prober.res[k]) /\ request' = request
    BY <1>5 DEF CacheResult, Write
  <2>2. CASE k \in Keys
    <3>1. items'[k].val = prober.res[k] /\ \A j \in Keys \ {k} : items'[j] = items[j]
      BY <2>1, <2>2 DEF ItemsInv, NewItem
    <3> QED
      BY <1>2, <2>1, <3>1
  <2>3. CASE k \notin Keys
    <3>1. items' = items /\ steady' \subseteq steady
      BY <2>1, <2>3 DEF ItemsInv, Observed
    <3> QED
      BY <1>1, <2>1, <3>1, RequestStays
  <2> QED
    BY <2>2, <2>3
<1>6. CASE \E k \in Keys : HealthPurgeItem(k) \/ UserDeletes(k)
  <2>1. PICK k \in Keys : HealthPurgeItem(k) \/ UserDeletes(k)
    BY <1>6
  <2>2. request' = request
    BY <2>1 DEF HealthPurgeItem, UserDeletes, Keep
  <2>3. CASE items' = items /\ UNCHANGED steady
    BY <1>3, <2>2, <2>3
  <2>4. CASE items' = [items EXCEPT ![k] = NoItem]
    <3>1. items'[k] = NoItem /\ \A j \in Keys \ {k} : items'[j] = items[j]
      BY <2>4 DEF ItemsInv
    <3>2. Observed(k, "none")
      BY <2>1, <3>1 DEF HealthPurgeItem, UserDeletes
    <3>3. items'[k].val = "none"
      BY <3>1 DEF NoItem
    <3> QED
      BY <1>2, <2>2, <3>1, <3>2, <3>3
  <2>5. items' = [items EXCEPT ![k] = NoItem] \/ (items' = items /\ UNCHANGED steady)
    <3>1. CASE UserDeletes(k)
      BY <3>1 DEF UserDeletes, Delete
    <3>2. CASE HealthPurgeItem(k) /\ items' = items
      <4>1. CASE items[k] = NoItem
        BY <3>2, <4>1 DEF ItemsInv
      <4>2. CASE items[k] # NoItem
        BY <3>2, <4>2 DEF HealthPurgeItem
      <4> QED
        BY <4>1, <4>2
    <3>3. CASE HealthPurgeItem(k) /\ items' # items
      BY <3>3 DEF HealthPurgeItem, PurgeItem
    <3> QED
      BY <2>1, <3>1, <3>2, <3>3
  <2> QED
    BY <2>3, <2>4, <2>5
<1>7. CASE HealthDown
  <2>1. request' = NoRequest
    BY <1>7 DEF HealthDown
  <2> QED
    BY <2>1 DEF NoRequest, RequestInv, AnswersWell
<1>8. CASE \E list \in Lists : Ask(list)
  <2>1. PICK list \in Lists : Ask(list)
    BY <1>8
  <2>2. request.pc = "none" /\ request' = [NoRequest EXCEPT !.pc = "reads", !.list = list] /\ steady' = Keys
    BY <2>1 DEF Ask
  <2>3. /\ request'.pc = "reads" /\ request'.list = list /\ request'.got = <<>> /\ request'.code = "none"
        /\ DOMAIN request' = {"pc", "list", "got", "item", "code"}
    BY <2>2 DEF NoRequest
  <2>4. list \in Seq(Keys) /\ list # <<>>
    BY ListsAssumption
  <2>5. Len(request'.got) < Len(list) /\ request'.got \in Seq([ok : BOOLEAN, tolerated : BOOLEAN])
    BY <2>3, <2>4
  <2>6. ~\E i \in 1..Len(request'.got) : TRUE
    BY <2>3
  <2>7. RequestInv'
    BY <2>2, <2>3, <2>5, <2>6 DEF RequestInv
  <2> QED
    BY <2>3, <2>7 DEF AnswersWell
<1>9. CASE UNCHANGED healthVars
  BY <1>3, <1>9 DEF healthVars, timedVars
<1>10. CASE ProbeStart \/ ProbeStop \/ HealthPurgeList \/ HealthPurgeStop
  BY <1>3, <1>10 DEF ProbeStart, ProbeStop, HealthPurgeList, PurgeList, HealthPurgeStop, PurgeStop, Keep, timedVars
<1>11. CASE \E k \in Keys : WorldChanges(k)
  BY <1>3, <1>11 DEF WorldChanges, timedVars
<1>12. CASE \E k \in Keys : CheckAnswers(k)
  BY <1>3, <1>12 DEF CheckAnswers, Report, timedVars
<1>13. CASE \E k \in Keys : CheckGivesUp(k)
  BY <1>3, <1>13 DEF CheckGivesUp, Report, timedVars
<1>14. CASE ReadCached \/ Refresh
  BY <1>14, ReadingStep
<1>15. CASE \E k \in Keys : HealthPurgeItem(k)
  BY <1>6, <1>15
<1>16. CASE \E k \in Keys : UserDeletes(k)
  BY <1>6, <1>16
<1> QED
  BY <1>4, <1>5, <1>7, <1>8, <1>9, <1>10, <1>11, <1>12, <1>13, <1>14, <1>15, <1>16 DEF HealthNext

LEMMA HealthKeeps ==
  ASSUME HealthInv, [HealthNext]_healthVars
  PROVE  HealthInv' /\ [AnswersWell]_healthVars
BY ItemsStep, PurgerKeeps, RequestKeeps DEF HealthInv

\* The purger fails only when somebody else deletes items from its store,
\* whatever the prober and the requests write meanwhile: what it has listed is
\* still there when it comes to it (timed.go:132), for any checks and any age.
THEOREM PurgerFailsNobody == HealthSpec => []PurgerSurvives
<1>1. HealthInv => PurgerSurvives
  BY DEF HealthInv, PurgerInv
<1> QED
  BY <1>1, HealthInitInv, HealthKeeps, PTL DEF HealthSpec

\* An endpoint whose checks are the first ones registered answers for its own
\* checks, as far as their results stay while it reads them one by one
\* (healthcheck.go:262, getStatusResponse), for any checks and endpoints.
THEOREM EndpointsAnswerForTheirChecks == HealthSpec => AnswersOwnChecks
<1>1. HealthInv /\ [HealthNext]_healthVars =>
        [LET own == {request.list[i] : i \in DOMAIN request.list}
             same == {k \in steady : items'[k].val = items[k].val}
             failed == {k \in own : items[k].val # "ok"}
             fatal == {k \in failed : ~MayFail[k]}
         IN  (request'.code # "none" /\ request.pc # "none" /\ IsPrefix(request.list, AllChecks)) =>
               /\ fatal \cap same # {} => request'.code = "unavailable"
               /\ failed \cap same # {} => request'.code # "ok"
               /\ (request'.code = "unavailable" /\ own \subseteq same) => fatal # {}]_healthVars
  BY HealthKeeps DEF AnswersWell
<1> QED
  BY <1>1, HealthInitInv, HealthKeeps, PTL DEF HealthSpec, AnswersOwnChecks
=============================================================================
