-------------------------- MODULE CacheStoreProofs --------------------------
(***************************************************************************)
(* Proofs about CacheStore, for any keys, values and clients.  The first    *)
(* half holds whoever writes to the persistent store and however calls to   *)
(* it fail; the second when nobody else writes to it and a call that fails  *)
(* has had no effect.                                                       *)
(***************************************************************************)
EXTENDS CacheStore, TLAPS

Private == ~ExternalWriters /\ "after" \notin Faults

-----------------------------------------------------------------------------
(* The inductive invariants.                                                *)

\* The calls a client can be in, by where it is.
CallOK(c) ==
    /\ pc[c] # "idle" => req[c] \in Requests
    /\ pc[c] \in {"fetch", "merge", "update", "create", "drop"} => req[c].op = "List"
    /\ pc[c] \in {"update", "create"} => cur[c] \in Keys
CallInv == \A c \in Clients : CallOK(c)

\* What a write is about to put into the cache, the persistent store has held.
HeldOK(c) ==
    /\ Between(c) => ans[c].got = Empty
    /\ Between(c) /\ req[c].opt # "dryRun" => req[c].val \in held[req[c].key]
HeldInv == /\ \A c \in Clients : HeldOK(c)
           /\ \A k \in Keys : store[k] \in held[k]

AnyInv == TypeOK /\ CallInv /\ HeldInv /\ NothingInvented

\* A client that writes has the lock for itself.
LockInv ==
    \A c, d \in Clients :
        c # d /\ pc[c] # "idle" /\ req[c].op \in Writes => pc[d] = "idle"

\* Cloning the persistent store into itself meets what it has listed.
CloneOK(c) ==
    /\ pc[c] # "create"
    /\ pc[c] \in {"merge", "update", "drop"} =>
          seen[c] = store /\ \A k \in todo[c] : store[k] # Absent
    /\ pc[c] = "update" => store[cur[c]] # Absent
    /\ pc[c] = "drop" => todo[c] = {}
CloneInv == \A c \in Clients : CloneOK(c)

\* A write that the persistent store has taken will be taken by the cache, and
\* makes the two equal again.
BetweenInv ==
    \A c \in Clients : Between(c) =>
        ~Refused(cache, req[c]) /\ store = Written(cache, req[c])

Inv == TypeOK /\ CallInv /\ LockInv /\ CloneInv /\ BetweenInv /\ Coherent

-----------------------------------------------------------------------------
(* The operators of Memory.                                                 *)

LEMMA RequestFacts ==
    ASSUME NEW r \in Requests
    PROVE  /\ r.op \in Writes \cup {"Read", "List"}
           /\ r.op # "List" => r.key \in Keys
           /\ r.op \in Writes => r.val \in Values \cup {Absent}
  BY DEF Requests, Writes

LEMMA WrittenType ==
    ASSUME NEW m \in Maps, NEW r \in Requests
    PROVE  Written(m, r) \in Maps
  BY RequestFacts DEF Written, Maps, Writes

LEMMA AnswerType ==
    ASSUME NEW m \in Maps, NEW r \in Requests
    PROVE  Answer(m, r) \in Answers
<1>1. Empty \in Maps
  BY DEF Empty, Maps
<1>2. r.op = "Read" => [Empty EXCEPT ![r.key] = m[r.key]] \in Maps
  BY <1>1, RequestFacts DEF Maps, Writes
<1>3. QED
  BY <1>1, <1>2 DEF Answer, Answers, Error

LEMMA OutcomeAny ==
    ASSUME NEW r, NEW o \in Outcomes(r)
    PROVE  /\ o.map = store \/ o.map = Written(store, r)
           /\ ~o.err => o.map = Written(store, r)
  BY DEF Outcomes

LEMMA OutcomeFacts ==
    ASSUME Private, NEW r, NEW o \in Outcomes(r)
    PROVE  \/ o.err = FALSE /\ ~Refused(store, r) /\ o.map = Written(store, r)
           \/ o.err = TRUE /\ o.map = store
  BY DEF Outcomes, Private

\* What Clone writes to the store it has listed is what it has listed.
LEMMA MergeKeepsStore ==
    ASSUME TypeOK, CallInv, CloneInv, NEW c \in Clients, pc[c] = "update"
    PROVE  Written(store, MergeRequest(c)) = store
<1>1. cur[c] \in Keys /\ seen[c] = store
  BY DEF CallInv, CallOK, CloneInv, CloneOK
<1>2. MergeRequest(c).key = cur[c] /\ MergeRequest(c).val = store[cur[c]]
  BY <1>1 DEF MergeRequest
<1>3. QED
  BY <1>1, <1>2 DEF Written, TypeOK, Maps

-----------------------------------------------------------------------------
(* A step, seen from the two stores.                                        *)

\* What a step of client c leaves alone.
OthersStay(c) ==
    \A d \in Clients \ {c} : /\ pc'[d] = pc[d] /\ req'[d] = req[d]
                             /\ seen'[d] = seen[d] /\ todo'[d] = todo[d]
                             /\ cur'[d] = cur[d] /\ ans'[d] = ans[d]

ClientStep(c) ==
    \/ \E r \in Requests : Call(c, r)
    \/ WriteStore(c) \/ WriteCache(c)
    \/ ReadCache(c) \/ ReadStore(c) \/ ListCache(c)
    \/ Fetch(c) \/ MergeWrite(c) \/ Sweep(c)
    \/ \E k \in Keys : MergeRead(c, k) \/ Drop(c, k)
    \/ ReadFails(c) \/ Return(c)

LEMMA StepCases ==
    ASSUME [Next]_vars
    PROVE  UNCHANGED vars \/ ExternalWrite \/ \E c \in Clients : ClientStep(c)
  BY DEF Next, ClientStep

LEMMA InitInv == Init => Inv /\ AnyInv
<1> SUFFICES ASSUME Init PROVE Inv /\ AnyInv
  OBVIOUS
<1>1. TypeOK
  BY DEF Init, TypeOK, Phases, Answers, Error, Empty, Maps
<1>2. CallInv
  BY DEF Init, CallInv, CallOK
<1>3. HeldInv /\ NothingInvented
  BY <1>1 DEF Init, HeldInv, HeldOK, Between, NothingInvented, TypeOK, Maps
<1>4. LockInv /\ CloneInv /\ BetweenInv /\ Coherent
  BY DEF Init, LockInv, CloneInv, CloneOK, BetweenInv, Between, Coherent
<1>5. QED
  BY <1>1, <1>2, <1>3, <1>4 DEF Inv, AnyInv

-----------------------------------------------------------------------------
(* Each part of the invariants, through a step.                             *)

LEMMA RememberFacts ==
    ASSUME TypeOK, store' \in Maps, Remember
    PROVE  /\ held' \in [Keys -> SUBSET (Values \cup {Absent})]
           /\ \A k \in Keys : held[k] \subseteq held'[k] /\ store'[k] \in held'[k]
  BY DEF TypeOK, Maps, Remember

\* What Clone writes, and deletes, leaves a map.
LEMMA CloneType ==
    ASSUME TypeOK, CallInv, NEW c \in Clients,
           MergeWrite(c) \/ \E k \in Keys : Drop(c, k)
    PROVE  store' \in Maps
<1>1. CASE MergeWrite(c)
  <2>1. PICK o \in Outcomes(MergeRequest(c)) : store' = o.map
    BY <1>1 DEF MergeWrite
  <2>2. cur[c] \in Keys /\ seen[c] \in Maps
    BY <1>1 DEF MergeWrite, CallInv, CallOK, TypeOK
  <2>3. /\ MergeRequest(c).key = cur[c] /\ MergeRequest(c).val = seen[c][cur[c]]
    BY DEF MergeRequest
  <2>4. Written(store, MergeRequest(c)) \in Maps
    BY <2>2, <2>3 DEF Written, Maps, TypeOK
  <2>5. QED
    BY <2>1, <2>4, OutcomeAny DEF TypeOK
<1>2. ASSUME NEW k \in Keys, Drop(c, k) PROVE store' \in Maps
  <2> DEFINE r == [op |-> "Delete", key |-> k, val |-> Absent, opt |-> "none"]
  <2>1. PICK o \in Outcomes(r) : store' = o.map
    BY <1>2 DEF Drop
  <2>2. Written(store, r) \in Maps
    BY DEF Written, Maps, TypeOK
  <2>3. QED
    BY <2>1, <2>2, OutcomeAny DEF TypeOK
<1>3. QED
  BY <1>1, <1>2

LEMMA TypeStep ==
    ASSUME TypeOK, CallInv, NEW c \in Clients, ClientStep(c)
    PROVE  TypeOK'
<1>1. ASSUME NEW r \in Requests, Call(c, r) PROVE TypeOK'
  BY <1>1 DEF TypeOK, Call, cloneVars, FirstPhase, Phases, Writes, Requests
<1>2. CASE WriteStore(c)
  <2>1. pc[c] # "idle" /\ req[c] \in Requests
    BY <1>2 DEF WriteStore, CallInv, CallOK
  <2>2. PICK o \in Outcomes(req[c]) :
            /\ store' = o.map
            /\ IF o.err
               THEN Finish(c, Error)
               ELSE /\ pc' = [pc EXCEPT ![c] = "cache"]
                    /\ ans' = [ans EXCEPT ![c] = [err |-> FALSE, got |-> Empty]]
                    /\ UNCHANGED req
    BY <1>2 DEF WriteStore
  <2>3. store' \in Maps
    <3>1. o.map = Written(store, req[c]) \/ o.map = store
      BY OutcomeAny
    <3>2. QED
      BY <2>1, <2>2, <3>1, WrittenType DEF TypeOK
  <2>4. [err |-> FALSE, got |-> Empty] \in Answers /\ Error \in Answers
    BY DEF Answers, Error, Empty, Maps
  <2>5. QED
    BY <1>2, <2>2, <2>3, <2>4, RememberFacts DEF WriteStore, Finish, TypeOK, cloneVars, Phases
<1>3. CASE WriteCache(c)
  <2>1. req[c] \in Requests
    BY <1>3 DEF WriteCache, CallInv, CallOK
  <2>2. cache' \in Maps
    BY <1>3, <2>1, WrittenType DEF WriteCache, TypeOK
  <2>3. QED
    BY <1>3, <2>2 DEF WriteCache, TypeOK, cloneVars, Phases
<1>4. CASE ReadCache(c) \/ ReadStore(c) \/ ListCache(c) \/ ReadFails(c)
  <2>1. req[c] \in Requests
    BY <1>4 DEF ReadCache, ReadStore, ListCache, ReadFails, CallInv, CallOK, TypeOK, NoRequest
  <2>2. /\ Answer(cache, req[c]) \in Answers /\ Answer(store, req[c]) \in Answers
        /\ Error \in Answers
    BY <2>1, AnswerType DEF TypeOK, Error, Answers, Empty, Maps
  <2>3. QED
    BY <1>4, <2>2
    DEF ReadCache, ReadStore, ListCache, ReadFails, Finish, Goto, TypeOK, cloneVars, Phases
<1>5. CASE Fetch(c)
  BY <1>5 DEF Fetch, Goto, TypeOK, Phases
<1>6. CASE MergeWrite(c)
  <2>1. /\ Finish(c, Error) \/ Goto(c, "merge")
        /\ Remember /\ UNCHANGED <<cache, cloneVars>>
    BY <1>6 DEF MergeWrite
  <2>2. store' \in Maps /\ Error \in Answers
    BY <1>6, CloneType DEF Answers, Error, Empty, Maps
  <2>3. QED
    BY <2>1, <2>2, RememberFacts DEF Finish, Goto, TypeOK, cloneVars, Phases
<1>7. CASE Sweep(c)
  BY <1>7 DEF Sweep, Goto, TypeOK, Phases
<1>8. ASSUME NEW k \in Keys, MergeRead(c, k) PROVE TypeOK'
  BY <1>8 DEF MergeRead, Goto, TypeOK, Phases
<1>9. ASSUME NEW k \in Keys, Drop(c, k) PROVE TypeOK'
  <2>1. /\ Finish(c, Error) \/ Goto(c, "drop")
        /\ todo' = [todo EXCEPT ![c] = @ \ {k}]
        /\ Remember /\ UNCHANGED <<cache, seen, cur>>
    BY <1>9 DEF Drop
  <2>2. store' \in Maps /\ Error \in Answers
    BY <1>9, CloneType DEF Answers, Error, Empty, Maps
  <2>3. QED
    BY <2>1, <2>2, RememberFacts DEF Finish, Goto, TypeOK, Phases
<1>10. CASE Return(c)
  BY <1>10 DEF Return, TypeOK, Phases, Answers, Error, Empty, Maps
<1>11. QED
  BY <1>1, <1>2, <1>3, <1>4, <1>5, <1>6, <1>7, <1>8, <1>9, <1>10 DEF ClientStep

\* A step of c leaves the other clients alone, and keeps its own request unless
\* it begins or returns.
LEMMA StepShape ==
    ASSUME TypeOK, NEW c \in Clients, ClientStep(c)
    PROVE  /\ OthersStay(c)
           /\ \/ \E r \in Requests : Call(c, r)
              \/ pc[c] # "idle" /\ pc'[c] # "idle" /\ req'[c] = req[c]
              \/ pc'[c] = "idle" /\ store' = store /\ cache' = cache /\ pc[c] = "return"
<1> USE DEF TypeOK, OthersStay, cloneVars
<1>1. CASE \E r \in Requests : Call(c, r)
  BY <1>1 DEF Call
<1>2. CASE WriteStore(c)
  BY <1>2 DEF WriteStore, Finish
<1>3. CASE WriteCache(c)
  BY <1>3 DEF WriteCache
<1>4. CASE ReadCache(c) \/ ReadStore(c)
  BY <1>4 DEF ReadCache, ReadStore, Finish, Goto
<1>5. CASE ListCache(c) \/ ReadFails(c)
  BY <1>5 DEF ListCache, ReadFails, Finish
<1>6. CASE Fetch(c) \/ Sweep(c)
  BY <1>6 DEF Fetch, Sweep, Goto
<1>7. CASE MergeWrite(c)
  BY <1>7 DEF MergeWrite, Finish, Goto
<1>8. ASSUME NEW k \in Keys, MergeRead(c, k) \/ Drop(c, k)
      PROVE  OthersStay(c) /\ pc[c] # "idle" /\ pc'[c] # "idle" /\ req'[c] = req[c]
  BY <1>8 DEF MergeRead, Drop, Finish, Goto
<1>9. CASE Return(c)
  BY <1>9 DEF Return
<1>10. QED
  BY <1>1, <1>2, <1>3, <1>4, <1>5, <1>6, <1>7, <1>8, <1>9 DEF ClientStep

LEMMA CallStep ==
    ASSUME TypeOK, CallInv, NEW c \in Clients, ClientStep(c)
    PROVE  CallInv'
<1> USE DEF TypeOK, CallInv, CallOK
<1>1. SUFFICES CallOK(c)'
  BY StepShape DEF OthersStay
<1>2. CASE \E r \in Requests : Call(c, r)
  <2>1. PICK r \in Requests : Call(c, r)
    BY <1>2
  <2>2. r.op \in Writes \cup {"Read", "List"} /\ pc'[c] = FirstPhase(r) /\ req'[c] = r
    BY <2>1, RequestFacts DEF Call
  <2>3. /\ FirstPhase(r) \in {"store", "cache", "fetch"}
        /\ FirstPhase(r) = "fetch" => r.op = "List"
    BY <2>2 DEF FirstPhase, Writes
  <2>4. QED
    BY <2>2, <2>3
<1>3. CASE WriteStore(c) \/ WriteCache(c)
  BY <1>3 DEF WriteStore, WriteCache, Finish
<1>4. CASE ReadCache(c) \/ ReadStore(c)
  BY <1>4 DEF ReadCache, ReadStore, Finish, Goto
<1>5. CASE ListCache(c) \/ ReadFails(c)
  BY <1>5 DEF ListCache, ReadFails, Finish, NoRequest
<1>6. CASE Fetch(c) \/ Sweep(c)
  BY <1>6 DEF Fetch, Sweep, Goto
<1>7. CASE MergeWrite(c)
  BY <1>7 DEF MergeWrite, Finish, Goto
<1>8. ASSUME NEW k \in Keys, MergeRead(c, k) PROVE CallOK(c)'
  BY <1>8 DEF MergeRead, Goto
<1>9. ASSUME NEW k \in Keys, Drop(c, k) PROVE CallOK(c)'
  BY <1>9 DEF Drop, Finish, Goto
<1>10. CASE Return(c)
  BY <1>10 DEF Return
<1>11. QED
  BY <1>2, <1>3, <1>4, <1>5, <1>6, <1>7, <1>8, <1>9, <1>10 DEF ClientStep

\* A client that is neither writing nor has written is not Between, before or
\* after its step.
LEMMA NotBetween ==
    ASSUME TypeOK, NEW c \in Clients, ClientStep(c),
           ~WriteStore(c), ~WriteCache(c)
    PROVE  ~Between(c) /\ ~Between(c)' /\ cache' = cache
<1> USE DEF TypeOK, Between
<1>1. ASSUME NEW r \in Requests, Call(c, r)
      PROVE  ~Between(c) /\ ~Between(c)' /\ cache' = cache
  <2>1. /\ pc[c] = "idle" /\ cache' = cache
        /\ pc'[c] = FirstPhase(r) /\ req'[c] = r
    BY <1>1 DEF Call
  <2>2. ~(FirstPhase(r) = "cache" /\ r.op \in Writes)
    <3>1. CASE r.op \in Writes
      BY <3>1 DEF FirstPhase, Writes
    <3>2. QED
      BY <3>1
  <2>3. QED
    BY <2>1, <2>2
<1>2. CASE ReadCache(c)
  BY <1>2 DEF ReadCache, Finish, Goto, Writes
<1>3. CASE ReadStore(c) \/ ReadFails(c)
  BY <1>3 DEF ReadStore, ReadFails, Finish
<1>4. CASE ListCache(c)
  BY <1>4 DEF ListCache, Finish, Writes
<1>5. CASE Fetch(c) \/ Sweep(c) \/ MergeWrite(c)
  BY <1>5 DEF Fetch, Sweep, MergeWrite, Finish, Goto
<1>6. ASSUME NEW k \in Keys, MergeRead(c, k) \/ Drop(c, k)
      PROVE  ~Between(c) /\ ~Between(c)' /\ cache' = cache
  BY <1>6 DEF MergeRead, Drop, Finish, Goto
<1>7. CASE Return(c)
  BY <1>7 DEF Return
<1>8. QED
  BY <1>1, <1>2, <1>3, <1>4, <1>5, <1>6, <1>7 DEF ClientStep

\* What the persistent store has held only grows.
LEMMA HeldGrows ==
    ASSUME AnyInv, NEW c \in Clients, ClientStep(c)
    PROVE  \A k \in Keys : held[k] \subseteq held'[k] /\ store'[k] \in held'[k]
<1> USE DEF AnyInv
<1>1. store' \in Maps
  BY TypeStep DEF TypeOK
<1>2. Remember \/ (held' = held /\ store' = store)
  BY DEF ClientStep, Call, WriteStore, WriteCache, ReadCache, ReadStore, ListCache, Fetch,
         MergeRead, MergeWrite, Sweep, Drop, ReadFails, Return
<1>3. QED
  BY <1>1, <1>2, RememberFacts DEF HeldInv

LEMMA AnswerHeld ==
    ASSUME NEW m \in Maps, NEW r \in Requests, NEW k \in Keys
    PROVE  Answer(m, r).got[k] \in {Absent, m[k]}
<1>1. r.op = "Read" => r.key \in Keys
  BY RequestFacts
<1>2. QED
  BY <1>1 DEF Answer, Error, Empty, Maps

LEMMA HeldStep ==
    ASSUME AnyInv, NEW c \in Clients, ClientStep(c)
    PROVE  HeldInv' /\ NothingInvented'
<1> USE DEF AnyInv, TypeOK
<1>1. \A k \in Keys : held[k] \subseteq held'[k] /\ store'[k] \in held'[k]
  BY HeldGrows
<1>2. HeldOK(c)'
  <2>1. CASE WriteStore(c)
    <3>1. PICK o \in Outcomes(req[c]) :
              /\ store' = o.map
              /\ IF o.err
                 THEN Finish(c, Error)
                 ELSE /\ pc' = [pc EXCEPT ![c] = "cache"]
                      /\ ans' = [ans EXCEPT ![c] = [err |-> FALSE, got |-> Empty]]
                      /\ UNCHANGED req
      BY <2>1 DEF WriteStore
    <3>2. CASE o.err
      BY <3>1, <3>2 DEF Finish, HeldOK, Between
    <3>3. CASE ~o.err
      <4>1. /\ store' = Written(store, req[c]) /\ req' = req
            /\ ans'[c].got = Empty
        BY <3>1, <3>3, OutcomeAny
      <4>2. req[c].op \in Writes /\ req[c].key \in Keys
        BY <2>1, RequestFacts DEF WriteStore, CallInv, CallOK, Writes
      <4>3. req[c].opt # "dryRun" => store'[req[c].key] = req[c].val
        BY <4>1, <4>2 DEF Written, Maps
      <4>4. QED
        BY <1>1, <4>1, <4>2, <4>3 DEF HeldOK
    <3>4. QED
      BY <3>2, <3>3
  <2>2. CASE WriteCache(c)
    BY <2>2 DEF WriteCache, HeldOK, Between
  <2>3. CASE ~WriteStore(c) /\ ~WriteCache(c)
    BY <2>3, NotBetween DEF HeldOK
  <2>4. QED
    BY <2>1, <2>2, <2>3
<1>3. \A d \in Clients \ {c} : HeldOK(d)'
  <2> SUFFICES ASSUME NEW d \in Clients \ {c}, Between(d)' PROVE HeldOK(d)'
    BY DEF HeldOK
  <2>1. Between(d) /\ req'[d] = req[d] /\ ans'[d] = ans[d] /\ HeldOK(d)
    BY StepShape DEF OthersStay, Between, HeldInv
  <2>2. req[d].key \in Keys
    BY <2>1, RequestFacts DEF Between, CallInv, CallOK, Writes
  <2>3. QED
    BY <1>1, <2>1, <2>2 DEF HeldOK
<1>4. \A k \in Keys : cache'[k] \in held'[k]
  <2>1. CASE WriteCache(c)
    <3>1. Between(c) /\ req[c] \in Requests /\ HeldOK(c)
      BY <2>1 DEF WriteCache, Between, HeldInv, CallInv, CallOK
    <3>2. \/ cache' = cache
          \/ req[c].opt # "dryRun" /\ cache' = [cache EXCEPT ![req[c].key] = req[c].val]
      BY <2>1 DEF WriteCache, Written
    <3>3. QED
      BY <1>1, <3>1, <3>2 DEF HeldOK, NothingInvented, Maps
  <2>2. CASE WriteStore(c)
    BY <1>1, <2>2 DEF WriteStore, NothingInvented
  <2>3. CASE ~WriteStore(c) /\ ~WriteCache(c)
    BY <1>1, <2>3, NotBetween DEF NothingInvented
  <2>4. QED
    BY <2>1, <2>2, <2>3
<1>5. ASSUME pc'[c] = "return", NEW k \in Keys
      PROVE  ans'[c].got[k] \in held'[k] \cup {Absent}
  <2>1. Error.got[k] = Absent
    BY DEF Error, Empty
  <2>2. CASE WriteCache(c)
    <3>1. ans'[c].got = Empty
      BY <2>2 DEF WriteCache, Between, HeldInv, HeldOK
    <3>2. QED
      BY <3>1 DEF Empty
  <2>3. CASE WriteStore(c) \/ MergeWrite(c) \/ ReadFails(c) \/ \E l \in Keys : Drop(c, l)
    <3>1. ans'[c] = Error
      BY <1>5, <2>3 DEF WriteStore, MergeWrite, ReadFails, Drop, Finish, Goto
    <3>2. QED
      BY <2>1, <3>1
  <2>4. CASE ReadCache(c) \/ ReadStore(c) \/ ListCache(c)
    <3>1. req[c] \in Requests
      BY <2>4 DEF ReadCache, ReadStore, ListCache, CallInv, CallOK, NoRequest
    <3>2. ans'[c] = Answer(cache, req[c]) \/ ans'[c] = Answer(store, req[c])
      BY <1>5, <2>4 DEF ReadCache, ReadStore, ListCache, Finish, Goto
    <3>3. ans'[c].got[k] \in {Absent, cache[k], store[k]}
      BY <3>1, <3>2, AnswerHeld
    <3>4. QED
      BY <1>1, <3>3 DEF NothingInvented, HeldInv
  <2>5. CASE Fetch(c) \/ Sweep(c) \/ Return(c) \/ \E l \in Keys : MergeRead(c, l)
    BY <1>5, <2>5 DEF Fetch, Sweep, Return, MergeRead, Goto
  <2>6. ASSUME NEW r \in Requests, Call(c, r) PROVE FALSE
    <3>1. r.op \in Writes \cup {"Read", "List"} /\ FirstPhase(r) = "return"
      BY <1>5, <2>6, RequestFacts DEF Call
    <3>2. QED
      BY <3>1 DEF FirstPhase, Writes
  <2>7. QED
    BY <2>2, <2>3, <2>4, <2>5, <2>6 DEF ClientStep
<1>6. \A d \in Clients \ {c}, k \in Keys :
        pc'[d] = "return" => ans'[d].got[k] \in held'[k] \cup {Absent}
  BY <1>1, StepShape DEF OthersStay, NothingInvented
<1>7. QED
  BY <1>1, <1>2, <1>3, <1>4, <1>5, <1>6 DEF HeldInv, NothingInvented

LEMMA ExternalStep ==
    ASSUME AnyInv, ExternalWrite
    PROVE  AnyInv'
<1> USE DEF AnyInv
<1>1. store' \in Maps /\ Remember /\ UNCHANGED <<cache, callVars, cloneVars>>
  BY DEF ExternalWrite, TypeOK, Maps
<1>2. /\ held' \in [Keys -> SUBSET (Values \cup {Absent})]
      /\ \A k \in Keys : held[k] \subseteq held'[k] /\ store'[k] \in held'[k]
  BY <1>1, RememberFacts
<1>3. TypeOK' /\ CallInv'
  BY <1>1, <1>2 DEF TypeOK, CallInv, CallOK, callVars, cloneVars
<1>4. HeldInv'
  <2> SUFFICES ASSUME NEW c \in Clients, Between(c) PROVE HeldOK(c)'
    BY <1>1, <1>2 DEF HeldInv, HeldOK, Between, callVars
  <2>1. req[c].key \in Keys
    BY RequestFacts DEF Between, CallInv, CallOK, Writes
  <2>2. QED
    BY <1>1, <1>2, <2>1 DEF HeldInv, HeldOK, Between, callVars
<1>5. NothingInvented'
  BY <1>1, <1>2 DEF NothingInvented, callVars
<1>6. QED
  BY <1>3, <1>4, <1>5

-----------------------------------------------------------------------------
(* The theorems that hold whoever writes to the persistent store.           *)

LEMMA AnyInvariance == Spec => []AnyInv
<1>1. Init => AnyInv
  BY InitInv
<1>2. AnyInv /\ [Next]_vars => AnyInv'
  <2> SUFFICES ASSUME AnyInv, [Next]_vars PROVE AnyInv'
    OBVIOUS
  <2>1. CASE UNCHANGED vars
    BY <2>1 DEF vars, callVars, cloneVars, AnyInv, TypeOK, CallInv, CallOK, HeldInv, HeldOK,
                Between, NothingInvented
  <2>2. ASSUME NEW c \in Clients, ClientStep(c) PROVE AnyInv'
    BY <2>2, TypeStep, CallStep, HeldStep DEF AnyInv
  <2>3. QED
    BY <2>1, <2>2, ExternalStep, StepCases
<1>3. QED
  BY <1>1, <1>2, PTL DEF Spec

\* The state of the cached store stays well typed (threadsafe, cache, memory).
THEOREM TypeCorrect == Spec => []TypeOK
<1>1. AnyInv => TypeOK
  BY DEF AnyInv
<1>2. QED
  BY <1>1, AnyInvariance, PTL

\* The cache never holds, and no call returns, a value that the persistent
\* store has not held under the key (cache.Store writes the cache last).
THEOREM CacheInventsNothing == Spec => []NothingInvented
<1>1. AnyInv => NothingInvented
  BY DEF AnyInv
<1>2. QED
  BY <1>1, AnyInvariance, PTL

-----------------------------------------------------------------------------
(* The rest of the stronger invariant, through a step.                      *)

LEMMA LockStep ==
    ASSUME Private, Inv, NEW c \in Clients, ClientStep(c)
    PROVE  LockInv'
<1>1. CASE \E r \in Requests : Call(c, r)
  <2>1. PICK r \in Requests : Call(c, r)
    BY <1>1
  <2>2. /\ pc'[c] # "idle" /\ req'[c] = r /\ pc[c] = "idle"
        /\ \A d \in Clients : pc[d] # "idle" => r.op \notin Writes /\ req[d].op \notin Writes
    BY <2>1 DEF Call, CanLock, FirstPhase, Inv, TypeOK, Writes, Requests
  <2>3. QED
    BY <2>2, StepShape DEF Inv, LockInv, OthersStay
<1>2. CASE ~ \E r \in Requests : Call(c, r)
  BY <1>2, StepShape DEF Inv, LockInv, OthersStay
<1>3. QED
  BY <1>1, <1>2

\* Only a write changes the persistent store.
LEMMA StoreStep ==
    ASSUME Private, Inv, NEW c \in Clients, ClientStep(c)
    PROVE  \/ store' = store
           \/ /\ WriteStore(c) /\ pc'[c] = "cache"
              /\ ~Refused(store, req[c]) /\ store' = Written(store, req[c])
<1>1. CASE WriteStore(c)
  <2>1. PICK o \in Outcomes(req[c]) :
            /\ store' = o.map
            /\ o.err \/ pc' = [pc EXCEPT ![c] = "cache"]
    BY <1>1 DEF WriteStore
  <2>2. \/ o.err = FALSE /\ ~Refused(store, req[c]) /\ o.map = Written(store, req[c])
        \/ o.err = TRUE /\ o.map = store
    BY OutcomeFacts
  <2>3. QED
    BY <1>1, <2>1, <2>2 DEF Inv, TypeOK
<1>2. CASE MergeWrite(c)
  <2>1. pc[c] = "update" /\ TypeOK /\ CallInv /\ CloneInv
    BY <1>2 DEF MergeWrite, Inv, CloneInv, CloneOK
  <2>2. PICK o \in Outcomes(MergeRequest(c)) : store' = o.map
    BY <1>2 DEF MergeWrite
  <2>3. o.map = store
    BY <2>1, OutcomeFacts, MergeKeepsStore
  <2>4. QED
    BY <2>2, <2>3
<1>3. CASE \E k \in Keys : Drop(c, k)
  BY <1>3 DEF Drop, Inv, CloneInv, CloneOK
<1>4. CASE ~WriteStore(c) /\ ~MergeWrite(c) /\ ~\E k \in Keys : Drop(c, k)
  BY <1>4 DEF ClientStep, Call, WriteCache, ReadCache, ReadStore, ListCache, Fetch, Sweep,
              MergeRead, ReadFails, Return
<1>5. QED
  BY <1>1, <1>2, <1>3, <1>4

LEMMA CloneStep ==
    ASSUME Private, Inv, NEW c \in Clients, ClientStep(c)
    PROVE  CloneInv'
<1> USE DEF Inv, TypeOK, CloneInv, CloneOK
<1>1. CASE store' # store
  <2>1. WriteStore(c) /\ pc'[c] = "cache"
    BY <1>1, StoreStep
  <2>2. \A d \in Clients \ {c} : pc[d] = "idle"
    BY <2>1 DEF WriteStore, LockInv
  <2>3. QED
    BY <2>1, <2>2, StepShape DEF OthersStay
<1>2. CASE store' = store
  <2>1. SUFFICES CloneOK(c)'
    BY <1>2, StepShape DEF OthersStay
  <2>2. ASSUME NEW r \in Requests, Call(c, r) PROVE CloneOK(c)'
    <3>1. pc'[c] = FirstPhase(r) /\ r.op \in Writes \cup {"Read", "List"}
      BY <2>2, RequestFacts DEF Call
    <3>2. FirstPhase(r) \in {"store", "cache", "fetch"}
      BY <3>1 DEF FirstPhase, Writes
    <3>3. QED
      BY <3>1, <3>2
  <2>3. CASE WriteStore(c) \/ WriteCache(c)
    BY <2>3 DEF WriteStore, WriteCache, Finish
  <2>4. CASE ReadCache(c) \/ ReadStore(c) \/ ListCache(c) \/ ReadFails(c)
    BY <2>4 DEF ReadCache, ReadStore, ListCache, ReadFails, Finish, Goto
  <2>5. CASE Fetch(c)
    BY <2>5, <1>2 DEF Fetch, Goto
  <2>6. CASE MergeWrite(c)
    BY <2>6, <1>2 DEF MergeWrite, Finish, Goto, cloneVars, CallInv, CallOK
  <2>7. CASE Sweep(c)
    BY <2>7, <1>2 DEF Sweep, Goto
  <2>8. ASSUME NEW k \in Keys, MergeRead(c, k) PROVE CloneOK(c)'
    BY <2>8, <1>2 DEF MergeRead, Goto
  <2>9. ASSUME NEW k \in Keys, Drop(c, k) PROVE CloneOK(c)'
    BY <2>9 DEF Drop
  <2>10. CASE Return(c)
    BY <2>10 DEF Return
  <2>11. QED
    BY <2>2, <2>3, <2>4, <2>5, <2>6, <2>7, <2>8, <2>9, <2>10 DEF ClientStep
<1>3. QED
  BY <1>1, <1>2

LEMMA BetweenStep ==
    ASSUME Private, Inv, NEW c \in Clients, ClientStep(c)
    PROVE  BetweenInv' /\ Coherent'
<1> USE DEF Inv, TypeOK
<1>1. \A d \in Clients \ {c} : Between(d)' <=> Between(d)
  BY StepShape DEF OthersStay, Between
<1>2. WriteStore(c) \/ WriteCache(c) => \A d \in Clients \ {c} : ~Between(d)
  BY DEF WriteStore, WriteCache, LockInv, Between
<1>3. CASE WriteStore(c)
  <2>1. cache = store /\ cache' = cache /\ req'[c] = req[c]
    BY <1>2, <1>3 DEF WriteStore, Finish, Coherent, Between
  <2>2. CASE store' = store
    <3>1. Between(c)' => ~Refused(cache, req[c]) /\ store' = Written(cache, req[c])
      <4>1. PICK o \in Outcomes(req[c]) :
                /\ store' = o.map
                /\ o.err => pc' = [pc EXCEPT ![c] = "return"]
        BY <1>3 DEF WriteStore, Finish
      <4>2. \/ o.err = FALSE /\ ~Refused(store, req[c]) /\ o.map = Written(store, req[c])
            \/ o.err = TRUE /\ o.map = store
        BY OutcomeFacts
      <4>3. QED
        BY <2>1, <4>1, <4>2 DEF Between
    <3>2. QED
      BY <1>1, <1>2, <1>3, <2>1, <2>2, <3>1 DEF BetweenInv, Coherent, Refused, Written
  <2>3. CASE store' # store
    <3>1. /\ Between(c)' /\ ~Refused(cache, req[c]) /\ store' = Written(cache, req[c])
      BY <1>3, <2>1, <2>3, StoreStep DEF Between, WriteStore
    <3>2. QED
      BY <1>1, <1>2, <1>3, <2>1, <3>1 DEF BetweenInv, Coherent, Refused, Written
  <2>4. QED
    BY <2>2, <2>3
<1>4. CASE WriteCache(c)
  <2>1. Between(c) /\ ~Between(c)' /\ store' = store
    BY <1>4 DEF WriteCache, Between
  <2>2. cache' = store'
    BY <1>4, <2>1 DEF WriteCache, BetweenInv
  <2>3. QED
    BY <1>1, <1>2, <1>4, <2>1, <2>2 DEF BetweenInv, Coherent
<1>5. CASE ~WriteStore(c) /\ ~WriteCache(c)
  <2>1. /\ ~Between(c) /\ ~Between(c)'
        /\ cache' = cache /\ store' = store
    BY <1>5, NotBetween, StoreStep
  <2>2. \A d \in Clients \ {c} : req'[d] = req[d]
    BY StepShape DEF OthersStay
  <2>3. QED
    BY <1>1, <2>1, <2>2 DEF BetweenInv, Coherent, Refused, Written
<1>6. QED
  BY <1>3, <1>4, <1>5

-----------------------------------------------------------------------------
(* The theorems.                                                            *)

\* The invariant holds in every state of a cached store that nobody else writes.
THEOREM Invariance ==
    ASSUME Private
    PROVE  Spec => []Inv
<1>1. Init => Inv
  BY InitInv
<1>2. Inv /\ [Next]_vars => Inv'
  <2> SUFFICES ASSUME Inv, [Next]_vars PROVE Inv'
    OBVIOUS
  <2>1. CASE UNCHANGED vars
    BY <2>1 DEF vars, callVars, cloneVars, Inv, TypeOK, LockInv, CallInv, CallOK, CloneInv,
                CloneOK, BetweenInv, Between, Coherent, Refused, Written
  <2>2. ASSUME NEW c \in Clients, ClientStep(c) PROVE Inv'
    BY <2>2, TypeStep, LockStep, CallStep, CloneStep, BetweenStep DEF Inv
  <2>3. QED
    BY <2>1, <2>2, StepCases DEF ExternalWrite, Private
<1>3. QED
  BY <1>1, <1>2, PTL DEF Spec

\* The cache and the persistent store differ only while a write is on its way
\* from the one to the other, whatever calls fail (cache.Store, all writes).
THEOREM CacheIsCoherent ==
    ASSUME Private
    PROVE  Spec => []Coherent
<1>1. Inv => Coherent
  BY DEF Inv
<1>2. QED
  BY <1>1, Invariance, PTL

-----------------------------------------------------------------------------
(* The cached store implements KeyValue.                                    *)

LEMMA AbstractOperators ==
    /\ AbstractStore!Requests = Requests /\ AbstractStore!Maps = Maps
    /\ AbstractStore!NoRequest = NoRequest /\ AbstractStore!Error = Error
    /\ \A m \in Maps, r \in Requests :
        /\ AbstractStore!Refused(m, r) <=> Refused(m, r)
        /\ AbstractStore!Written(m, r) = Written(m, r)
        /\ AbstractStore!Answer(m, r) = Answer(m, r)
    /\ \A r \in Requests : ~AbstractStore!Unreadable(r)
<1>1. /\ AbstractStore!Requests = Requests /\ AbstractStore!Maps = Maps
      /\ AbstractStore!NoRequest = NoRequest /\ AbstractStore!Error = Error
  BY DEF Requests, AbstractStore!Requests, Maps, AbstractStore!Maps, NoRequest,
         AbstractStore!NoRequest, Error, AbstractStore!Error, Empty, AbstractStore!Empty
<1>2. ASSUME NEW m \in Maps, NEW r \in Requests
      PROVE  /\ AbstractStore!Refused(m, r) <=> Refused(m, r)
             /\ AbstractStore!Written(m, r) = Written(m, r)
  BY DEF Refused, AbstractStore!Refused, Written, AbstractStore!Written, Writes,
         AbstractStore!Writes
<1>3. ASSUME NEW m \in Maps, NEW r \in Requests
      PROVE  AbstractStore!Answer(m, r) = Answer(m, r)
  BY <1>1, <1>2 DEF Answer, AbstractStore!Answer, Empty, AbstractStore!Empty
<1>4. \A r \in Requests : ~AbstractStore!Unreadable(r)
  BY DEF AbstractStore!Unreadable
<1>5. QED
  BY <1>1, <1>2, <1>3, <1>4

\* Where the abstract phases move: only for the client that steps.
LEMMA PhaseFacts ==
    ASSUME Private, Inv, NEW c \in Clients, ClientStep(c)
    PROVE  /\ AbstractPhase[c] = PhaseOf(c) /\ AbstractPhase'[c] = PhaseOf(c)'
           /\ AbstractPhase' = [AbstractPhase EXCEPT ![c] = PhaseOf(c)']
           /\ PhaseOf(c)' = PhaseOf(c) => AbstractPhase' = AbstractPhase
<1>1. \A d \in Clients \ {c} : PhaseOf(d)' = PhaseOf(d)
  BY StepShape DEF Inv, OthersStay, PhaseOf, Between
<1>2. AbstractPhase' = [d \in Clients |-> PhaseOf(d)']
  BY DEF AbstractPhase
<1>3. QED
  BY <1>1, <1>2 DEF AbstractPhase

\* The call takes effect: with an answer on the persistent store, or an error.
LEMMA DoStep ==
    ASSUME Private, Inv, NEW c \in Clients, ClientStep(c),
           PhaseOf(c) = "called", PhaseOf(c)' = "done",
           req[c] \in Requests, req' = req,
           \/ /\ store' = IF Refused(store, req[c]) THEN store ELSE Written(store, req[c])
              /\ ans' = [ans EXCEPT ![c] = Answer(store, req[c])]
           \/ /\ store' = store
              /\ ans' = [ans EXCEPT ![c] = Error]
    PROVE  AbstractStore!Do(c) \/ AbstractStore!Fail(c)
<1>1. store \in Maps
  BY DEF Inv, TypeOK
<1>2. AbstractPhase' = [AbstractPhase EXCEPT ![c] = "done"]
  BY PhaseFacts
<1>3. AbstractPhase[c] = "called"
  BY PhaseFacts
<1>4. QED
  BY <1>1, <1>2, <1>3, AbstractOperators
  DEF AbstractStore!Do, AbstractStore!Fail, AbstractStore!Answered, AbstractStore!Takes

LEMMA ReadsLeave ==
    ASSUME NEW m \in Maps, NEW r \in Requests, r.op \notin Writes
    PROVE  Written(m, r) = m
  BY DEF Written

\* A step inside a call that has not taken effect.
LEMMA InnerStep ==
    ASSUME Private, Inv, NEW c \in Clients, ClientStep(c),
           pc[c] \notin {"idle", "return"}, pc'[c] \notin {"idle", "return"},
           ~Between(c), ~Between(c)', store' = store, req' = req, ans' = ans
    PROVE  UNCHANGED AbstractStore!vars
<1>1. PhaseOf(c)' = PhaseOf(c)
  BY DEF PhaseOf
<1>2. AbstractPhase' = AbstractPhase
  BY <1>1, PhaseFacts
<1>3. QED
  BY <1>2 DEF AbstractStore!vars

LEMMA RefineStep ==
    ASSUME Private, Inv, NEW c \in Clients, ClientStep(c)
    PROVE  [AbstractStore!Next]_AbstractStore!vars
<1> USE DEF Inv, TypeOK
<1>1. ASSUME NEW r \in Requests, Call(c, r) PROVE AbstractStore!Invoke(c, r)
  <2>1. /\ pc[c] = "idle" /\ pc'[c] = FirstPhase(r) /\ req'[c] = r
        /\ req' = [req EXCEPT ![c] = r] /\ store' = store /\ ans' = ans
    BY <1>1 DEF Call
  <2>2. /\ FirstPhase(r) \notin {"idle", "return"}
        /\ ~(FirstPhase(r) = "cache" /\ r.op \in Writes)
    <3>1. r.op \in Writes \cup {"Read", "List"}
      BY RequestFacts
    <3>2. QED
      BY <3>1 DEF FirstPhase, Writes
  <2>3. PhaseOf(c) = "idle" /\ PhaseOf(c)' = "called"
    BY <2>1, <2>2 DEF PhaseOf, Between
  <2>4. QED
    BY <2>1, <2>3, PhaseFacts DEF AbstractStore!Invoke
<1>2. CASE WriteStore(c)
  <2>1. PICK o \in Outcomes(req[c]) :
            /\ store' = o.map
            /\ IF o.err
               THEN Finish(c, Error)
               ELSE /\ pc' = [pc EXCEPT ![c] = "cache"]
                    /\ ans' = [ans EXCEPT ![c] = [err |-> FALSE, got |-> Empty]]
                    /\ UNCHANGED req
    BY <1>2 DEF WriteStore
  <2>2. req' = req /\ pc[c] = "store" /\ pc'[c] \in {"cache", "return"}
        /\ req[c].op \in Writes /\ req[c] \in Requests
    BY <1>2, <2>1 DEF WriteStore, Finish, CallInv, CallOK
  <2>3. PhaseOf(c) = "called" /\ PhaseOf(c)' = "done"
    BY <2>2 DEF PhaseOf, Between
  <2>4. \/ /\ o.err = FALSE /\ ~Refused(store, req[c])
           /\ o.map = Written(store, req[c])
        \/ o.err = TRUE /\ o.map = store
    BY OutcomeFacts
  <2>5. ~Refused(store, req[c]) => Answer(store, req[c]) = [err |-> FALSE, got |-> Empty]
    BY <2>2 DEF Answer, Writes
  <2>6. QED
    BY <2>1, <2>2, <2>3, <2>4, <2>5, DoStep DEF Finish, AbstractStore!Next
<1>3. CASE WriteCache(c)
  <2>1. PhaseOf(c) = "done" /\ PhaseOf(c)' = "done"
    BY <1>3 DEF WriteCache, PhaseOf, Between
  <2>2. AbstractPhase' = AbstractPhase
    BY <2>1, PhaseFacts
  <2>3. QED
    BY <1>3, <2>2 DEF WriteCache, AbstractStore!vars
<1>4. ASSUME ReadCache(c) \/ ReadStore(c) \/ ListCache(c) \/ ReadFails(c), pc'[c] = "return"
      PROVE  AbstractStore!Do(c) \/ AbstractStore!Fail(c)
  <2>1. /\ req[c] \in Requests /\ req' = req /\ store' = store
        /\ pc[c] \notin {"idle", "return"} /\ req[c].op \notin Writes
    BY <1>4 DEF ReadCache, ReadStore, ListCache, ReadFails, Finish, Goto, CallInv, CallOK, Writes,
                NoRequest
  <2>2. PhaseOf(c) = "called" /\ PhaseOf(c)' = "done"
    BY <1>4, <2>1 DEF PhaseOf, Between
  <2>3. ReadCache(c) \/ ListCache(c) => cache = store
    <3>1. ASSUME NEW d \in Clients, Between(d), ReadCache(c) \/ ListCache(c) PROVE FALSE
      BY <2>1, <3>1 DEF Between, LockInv
    <3>2. QED
      BY <3>1 DEF Coherent
  <2>4. \/ ans' = [ans EXCEPT ![c] = Answer(store, req[c])]
        \/ ans' = [ans EXCEPT ![c] = Error]
    BY <1>4, <2>3 DEF ReadCache, ReadStore, ListCache, ReadFails, Finish, Goto
  <2>5. store' = IF Refused(store, req[c]) THEN store ELSE Written(store, req[c])
    BY <2>1, ReadsLeave
  <2>6. QED
    BY <2>1, <2>2, <2>4, <2>5, DoStep
<1>5. CASE ReadCache(c) /\ pc'[c] # "return"
  <2>1. /\ pc[c] = "cache" /\ pc'[c] = "store" /\ store' = store
        /\ req' = req /\ ans' = ans
    BY <1>5 DEF ReadCache, Finish, Goto
  <2>2. ~WriteStore(c) /\ ~WriteCache(c)
    BY <1>5 DEF ReadCache, WriteStore, WriteCache, Writes
  <2>3. QED
    BY <2>1, <2>2, NotBetween, InnerStep
<1>6. CASE ReadStore(c) \/ ListCache(c) \/ ReadFails(c)
  BY <1>6, <1>4 DEF ReadStore, ListCache, ReadFails, Finish, AbstractStore!Next
<1>7. CASE Fetch(c) \/ Sweep(c) \/ \E k \in Keys : MergeRead(c, k)
  <2>1. /\ pc[c] \in {"fetch", "merge"} /\ pc'[c] \in {"merge", "drop", "update", "create"}
        /\ store' = store /\ req' = req /\ ans' = ans
    BY <1>7 DEF Fetch, Sweep, MergeRead, Goto
  <2>2. QED
    BY <2>1, InnerStep DEF Between
<1>8. CASE MergeWrite(c)
  <2>1. pc[c] = "update" /\ req[c].op = "List" /\ req[c] \in Requests
    BY <1>8 DEF MergeWrite, CallInv, CallOK, CloneInv, CloneOK
  <2>2. store' = store
    BY <1>8, <2>1, StoreStep DEF WriteStore
  <2>3. CASE Finish(c, Error)
    <3>1. PhaseOf(c) = "called" /\ PhaseOf(c)' = "done"
      BY <2>1, <2>3 DEF Finish, PhaseOf, Between
    <3>2. QED
      BY <2>1, <2>2, <2>3, <3>1, DoStep DEF Finish, AbstractStore!Next
  <2>4. CASE Goto(c, "merge")
    BY <2>1, <2>2, <2>4, InnerStep DEF Goto, Between
  <2>5. QED
    BY <1>8, <2>3, <2>4 DEF MergeWrite
<1>9. ASSUME NEW k \in Keys, Drop(c, k) PROVE FALSE
  BY <1>9 DEF Drop, CloneInv, CloneOK
<1>10. CASE Return(c)
  <2>1. PhaseOf(c) = "done" /\ PhaseOf(c)' = "idle"
    BY <1>10 DEF Return, PhaseOf, Between
  <2>2. QED
    BY <1>10, <2>1, PhaseFacts, AbstractOperators
    DEF Return, AbstractStore!Return, AbstractStore!Next
<1>11. QED
  BY <1>1, <1>2, <1>3, <1>4, <1>5, <1>6, <1>7, <1>8, <1>9, <1>10, AbstractOperators
  DEF ClientStep, AbstractStore!Next

\* The cached store under its lock implements one linearizable store: each call
\* of a client takes effect at one instant, or fails and changes nothing.
THEOREM RefinesKeyValue ==
    ASSUME Private
    PROVE  Spec => ImplementsKeyValue
<1>1. Init => AbstractStore!Init
  <2> SUFFICES ASSUME Init PROVE AbstractStore!Init
    OBVIOUS
  <2>1. \A c \in Clients : PhaseOf(c) = "idle"
    BY DEF Init, PhaseOf, Between
  <2>2. AbstractPhase = [c \in Clients |-> "idle"]
    BY <2>1 DEF AbstractPhase
  <2>3. Faults \in SUBSET {"before", "after", "torn", "blind"}
    BY CacheAssumption
  <2>4. QED
    BY <2>2, <2>3, AbstractOperators DEF Init, AbstractStore!Init
<1>2. Inv /\ [Next]_vars => [AbstractStore!Next]_AbstractStore!vars
  <2> SUFFICES ASSUME Inv, [Next]_vars PROVE [AbstractStore!Next]_AbstractStore!vars
    OBVIOUS
  <2>1. CASE UNCHANGED vars
    BY <2>1 DEF vars, callVars, AbstractStore!vars, AbstractPhase, PhaseOf, Between
  <2>2. ASSUME NEW c \in Clients, ClientStep(c)
        PROVE  [AbstractStore!Next]_AbstractStore!vars
    BY <2>2, RefineStep
  <2>3. QED
    BY <2>1, <2>2, StepCases DEF ExternalWrite, Private
<1>3. QED
  BY <1>1, <1>2, Invariance, PTL DEF Spec, ImplementsKeyValue, AbstractStore!Spec
=============================================================================
