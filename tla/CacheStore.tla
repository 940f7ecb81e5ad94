----------------------------- MODULE CacheStore -----------------------------
(***************************************************************************)
(* threadsafe.New(cache.New(persistent, local)): pkg/store's middleware     *)
(* cache, which keeps a local copy of a persistent store, under the lock of *)
(* middleware threadsafe.  Each of the two stores serves one call at a time *)
(* (it is threadsafe itself, or remote).  The persistent one may be shared  *)
(* with other programs, and a call to it may fail.                          *)
(***************************************************************************)
EXTENDS Memory

CONSTANTS
    Clients,
    ExternalWriters,  \* other programs write to the persistent store
    Faults            \* how a call to it may fail: "before" or "after" its effect

ASSUME CacheAssumption ==
    /\ ExternalWriters \in BOOLEAN
    /\ Faults \subseteq {"before", "after"}

VARIABLES
    store,   \* the persistent store
    held,    \* (history) what each of its keys has held
    cache,   \* the local one
    pc,      \* what the call of a client does next; "idle" without the lock
    req,     \* the call
    ans,     \* what it returns
    seen,    \* Clone's theirItems
    todo,    \* the keys its two loops have left
    cur      \* the key Update has read

callVars  == <<pc, req, ans>>
cloneVars == <<seen, todo, cur>>
vars == <<store, held, cache, callVars, cloneVars>>

Phases == {"idle", "store", "cache", "fetch", "merge", "update", "create", "drop", "return"}

TypeOK ==
    /\ store \in Maps /\ cache \in Maps
    /\ held \in [Keys -> SUBSET (Values \cup {Absent})]
    /\ pc \in [Clients -> Phases]
    /\ req \in [Clients -> Requests \cup {NoRequest}]
    /\ ans \in [Clients -> Answers]
    /\ seen \in [Clients -> Maps]
    /\ todo \in [Clients -> SUBSET Keys]
    /\ cur \in [Clients -> Keys \cup {Absent}]

\* New clones the persistent store into the local one.
Init ==
    /\ store \in Maps /\ cache = store
    /\ held = [k \in Keys |-> {store[k]}]
    /\ pc = [c \in Clients |-> "idle"]
    /\ req = [c \in Clients |-> NoRequest]
    /\ ans = [c \in Clients |-> Error]
    /\ seen = [c \in Clients |-> Empty]
    /\ todo = [c \in Clients |-> {}]
    /\ cur = [c \in Clients |-> Absent]

-----------------------------------------------------------------------------
(* The lock, and the two ends of a call.                                    *)

\* Mutant: writes, too, take the read lock.
CanLockShared(r) == TRUE

\* Lock for writes, RLock for reads.
CanLock(r) ==
    \A d \in Clients : pc[d] # "idle" => r.op \notin Writes /\ req[d].op \notin Writes

\* The store a call turns to first.
FirstPhase(r) ==
    CASE r.op \in Writes -> "store"
      [] r.op = "Read"   -> IF r.opt = "skip" THEN "store" ELSE "cache"
      [] r.op = "List"   -> CASE r.opt = "none" -> "cache"
                              [] r.opt = "skip" -> "fetch"
                              [] OTHER          -> "store"

Call(c, r) ==
    /\ pc[c] = "idle" /\ CanLock(r)
    /\ pc' = [pc EXCEPT ![c] = FirstPhase(r)]
    /\ req' = [req EXCEPT ![c] = r]
    /\ UNCHANGED <<store, held, cache, ans, cloneVars>>

\* The call has its answer.
Finish(c, a) ==
    /\ pc' = [pc EXCEPT ![c] = "return"]
    /\ ans' = [ans EXCEPT ![c] = a]
    /\ UNCHANGED req

Goto(c, phase) ==
    /\ pc' = [pc EXCEPT ![c] = phase]
    /\ UNCHANGED <<req, ans>>

\* Unlock, and return.
Return(c) ==
    /\ pc[c] = "return"
    /\ pc' = [pc EXCEPT ![c] = "idle"]
    /\ req' = [req EXCEPT ![c] = NoRequest]
    /\ ans' = [ans EXCEPT ![c] = Error]
    /\ seen' = [seen EXCEPT ![c] = Empty]
    /\ todo' = [todo EXCEPT ![c] = {}]
    /\ cur' = [cur EXCEPT ![c] = Absent]
    /\ UNCHANGED <<store, held, cache>>

-----------------------------------------------------------------------------
(* The calls.                                                               *)

\* Every write to the persistent store is recorded.
Remember == held' = [k \in Keys |-> held[k] \cup {store'[k]}]

\* What a write does to the persistent store, and whether it reports an error.
Outcomes(r) ==
    {o \in [map : {store, Written(store, r)}, err : BOOLEAN] :
        \/ /\ o.err = Refused(store, r)
           /\ o.map = IF Refused(store, r) THEN store ELSE Written(store, r)
        \/ "before" \in Faults /\ o.err /\ o.map = store
        \/ "after" \in Faults /\ o.err /\ ~Refused(store, r)}

\* Mutant: the error of the persistent store is kept for later.
WriteStoreIgnoresError(c) ==
    /\ pc[c] = "store" /\ req[c].op \in Writes
    /\ \E o \in Outcomes(req[c]) :
        /\ store' = o.map
        /\ pc' = [pc EXCEPT ![c] = "cache"]
        /\ ans' = [ans EXCEPT ![c] = [err |-> o.err, got |-> Empty]]
        /\ UNCHANGED req
    /\ Remember
    /\ UNCHANGED <<cache, cloneVars>>

\* Create, Update, Apply, Delete: the persistent store first.
WriteStore(c) ==
    /\ pc[c] = "store" /\ req[c].op \in Writes
    /\ \E o \in Outcomes(req[c]) :
        /\ store' = o.map
        /\ IF o.err
           THEN Finish(c, Error)
           ELSE /\ pc' = [pc EXCEPT ![c] = "cache"]
                /\ ans' = [ans EXCEPT ![c] = [err |-> FALSE, got |-> Empty]]
                /\ UNCHANGED req
    /\ Remember
    /\ UNCHANGED <<cache, cloneVars>>

\* Then the cache, whose error is ignored.
WriteCache(c) ==
    /\ pc[c] = "cache" /\ req[c].op \in Writes
    /\ cache' = IF Refused(cache, req[c]) THEN cache ELSE Written(cache, req[c])
    /\ pc' = [pc EXCEPT ![c] = "return"]
    /\ UNCHANGED <<store, held, req, ans, cloneVars>>

\* Read from the cache; any error leads to the persistent store.
ReadCache(c) ==
    /\ pc[c] = "cache" /\ req[c].op = "Read"
    /\ IF Refused(cache, req[c]) THEN Goto(c, "store")
                                 ELSE Finish(c, Answer(cache, req[c]))
    /\ UNCHANGED <<store, held, cache, cloneVars>>

\* Read, or List with WithSkipCache and more options, from the persistent store.
ReadStore(c) ==
    /\ pc[c] = "store" /\ req[c].op \notin Writes
    /\ Finish(c, Answer(store, req[c]))
    /\ UNCHANGED <<store, held, cache, cloneVars>>

\* The last line of List.
ListCache(c) ==
    /\ req[c].op = "List"
    /\ pc[c] = "cache" \/ (pc[c] = "drop" /\ todo[c] = {})
    /\ Finish(c, Answer(cache, req[c]))
    /\ UNCHANGED <<store, held, cache, cloneVars>>

-----------------------------------------------------------------------------
(* List with WithSkipCache: merger.Clone(ctx, t.store).  The merger is made  *)
(* for t.store, so it clones the persistent store into itself.               *)

\* theirItems
Fetch(c) ==
    /\ pc[c] = "fetch"
    /\ seen' = [seen EXCEPT ![c] = store]
    /\ todo' = [todo EXCEPT ![c] = {k \in Keys : store[k] # Absent}]
    /\ Goto(c, "merge")
    /\ UNCHANGED <<store, held, cache, cur>>

\* DefaultMap.Update reads the key, and then updates or creates it.
MergeRead(c, k) ==
    /\ pc[c] = "merge" /\ k \in todo[c]
    /\ cur' = [cur EXCEPT ![c] = k]
    /\ todo' = [todo EXCEPT ![c] = @ \ {k}]
    /\ Goto(c, IF store[k] # Absent THEN "update" ELSE "create")
    /\ UNCHANGED <<store, held, cache, seen>>

MergeRequest(c) ==
    [op |-> IF pc[c] = "update" THEN "Update" ELSE "Create",
     key |-> cur[c], val |-> seen[c][cur[c]], opt |-> "none"]

MergeWrite(c) ==
    /\ pc[c] \in {"update", "create"}
    /\ \E o \in Outcomes(MergeRequest(c)) :
        /\ store' = o.map
        /\ IF o.err THEN Finish(c, Error) ELSE Goto(c, "merge")
    /\ Remember
    /\ UNCHANGED <<cache, cloneVars>>

\* ourItems: the keys that are not among theirItems are to go.
Sweep(c) ==
    /\ pc[c] = "merge" /\ todo[c] = {}
    /\ todo' = [todo EXCEPT ![c] = {k \in Keys : store[k] # Absent /\ seen[c][k] = Absent}]
    /\ Goto(c, "drop")
    /\ UNCHANGED <<store, held, cache, seen, cur>>

Drop(c, k) ==
    /\ pc[c] = "drop" /\ k \in todo[c]
    /\ \E o \in Outcomes([op |-> "Delete", key |-> k, val |-> Absent, opt |-> "none"]) :
        /\ store' = o.map
        /\ IF o.err THEN Finish(c, Error) ELSE Goto(c, "drop")
    /\ todo' = [todo EXCEPT ![c] = @ \ {k}]
    /\ Remember
    /\ UNCHANGED <<cache, seen, cur>>

-----------------------------------------------------------------------------
(* Outside.                                                                 *)

\* A read of the persistent store fails.
ReadFails(c) ==
    /\ Faults # {}
    /\ \/ pc[c] = "store" /\ req[c].op \notin Writes
       \/ pc[c] \in {"fetch", "merge"}
    /\ Finish(c, Error)
    /\ UNCHANGED <<store, held, cache, cloneVars>>

\* Another program writes to the persistent store.
ExternalWrite ==
    /\ ExternalWriters
    /\ \E k \in Keys, v \in Values \cup {Absent} : store' = [store EXCEPT ![k] = v]
    /\ Remember
    /\ UNCHANGED <<cache, callVars, cloneVars>>

Next ==
    \/ \E c \in Clients :
        \/ \E r \in Requests : Call(c, r)
        \/ WriteStore(c) \/ WriteCache(c)
        \/ ReadCache(c) \/ ReadStore(c) \/ ListCache(c)
        \/ Fetch(c) \/ MergeWrite(c) \/ Sweep(c)
        \/ \E k \in Keys : MergeRead(c, k) \/ Drop(c, k)
        \/ ReadFails(c) \/ Return(c)
    \/ ExternalWrite

Spec == Init /\ [][Next]_vars

-----------------------------------------------------------------------------
(* Properties.                                                              *)

\* The client's write is in the persistent store and not yet in the cache.
Between(c) == pc[c] = "cache" /\ req[c].op \in Writes

\* Unless a write is on its way from the one to the other, the cache holds what
\* the persistent store holds: a failed call, and a call of a dry run, leave no
\* trace in only one of them.
Coherent == (\A c \in Clients : ~Between(c)) => cache = store

\* Other programs may write, calls may fail after their effect, and then the
\* cache is stale; but it never holds, and no call ever returns, what the key
\* never held in the persistent store (cache.Store writes its cache last).
NothingInvented ==
    /\ \A k \in Keys : cache[k] \in held[k]
    /\ \A c \in Clients, k \in Keys :
        pc[c] = "return" => ans[c].got[k] \in held[k] \cup {Absent}

\* Seen by its clients, the cached store under its lock is one store: every
\* call, of those that read the cache too, takes effect at one instant, or
\* fails and changes nothing.
PhaseOf(c) ==
    CASE pc[c] = "idle"                -> "idle"
      [] pc[c] = "return" \/ Between(c) -> "done"
      [] OTHER                         -> "called"
AbstractPhase == [c \in Clients |-> PhaseOf(c)]
AbstractStore == INSTANCE KeyValue
    WITH map <- store, torn <- {}, faults <- Faults, phase <- AbstractPhase
ImplementsKeyValue == AbstractStore!Spec

-----------------------------------------------------------------------------
(* What comments of the code say and the code does not do.                  *)

\* cache.go:133-145 "We fetch latest result from persistent store. We update
\* internal cache with this information ... we can return our updates cache
\* data": a List with WithSkipCache returns what it fetched.
ListRefreshes ==
    \A c \in Clients :
        (pc[c] = "return" /\ req[c].op = "List" /\ req[c].opt = "skip" /\ ~ans[c].err)
            => ans[c].got = seen[c] /\ cache = seen[c]
=============================================================================
