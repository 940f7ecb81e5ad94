----------------------------- MODULE KubeStore -----------------------------
(***************************************************************************)
(* pkg/store/backends/kubernetes and configmap: objects of an API server,   *)
(* which creates them atomically and refuses an update built on another     *)
(* version of the object.  Cached resources and config maps are read from   *)
(* the copy an informer keeps.                                              *)
(***************************************************************************)
EXTENDS FileStore

\* A store holds finitely many objects.
ASSUME KubeStoreAssumption == IsFiniteSet(Keys)

VARIABLES
    rev,       \* resourceVersion of each key's object
    clock,     \* versions given out
    lastRead,  \* the key and the version each client has read last
    base,      \* the version in the object an Apply sends, 0: none
    built,     \* (history) the versions that updates which took effect were built on
    cache,     \* the informer's copy
    news,      \* what the API server has yet to tell it
    unsynced,  \* how much of that is its first list
    waits,     \* WaitForCacheToSync
    always     \* (history) keys that have been there since the start

apiVars  == <<rev, clock, lastRead, base, built, always>>
infVars  == <<cache, news, unsynced, waits>>
kubeVars == <<apiVars, infVars>>

IsKube     == kind \in {"kube", "cached"}
HasNews    == kind \in {"cached", "configmap"}
OfApi      == IsKube \/ kind = "configmap"
KubeCall(c, ops) == IsKube /\ pc[c] = "called" /\ req[c].op \in ops
CmCall(c, ops)   == kind = "configmap" /\ pc[c] = "called" /\ req[c].op \in ops

Present == {k \in Keys : map[k] # Absent}

\* newCachedStore, NewFake: the informer starts with a list.
KubeInit ==
    /\ rev = [k \in Keys |-> 1] /\ clock = 1
    /\ lastRead = [c \in Clients |-> <<Absent, 0>>] /\ base = [c \in Clients |-> 0]
    /\ built = <<>> /\ always = Present
    /\ cache = [k \in Keys |-> [val |-> Absent, rev |-> 0]]
    /\ IF HasNews
       THEN \E order \in {s \in [1..Cardinality(Present) -> Present] :
                            \A i, j \in DOMAIN s : s[i] = s[j] => i = j} :
                news = [i \in DOMAIN order |->
                            [key |-> order[i], val |-> map[order[i]], rev |-> 1]]
       ELSE news = <<>>
    /\ unsynced = Len(news)
    /\ waits \in BOOLEAN /\ (waits => kind = "cached")

\* Mutant: the constructor does not wait.
UsableAtOnce == TRUE

\* newCachedStore returns when the cache has synced.
Usable == waits => unsynced = 0

-----------------------------------------------------------------------------
(* The API server.                                                          *)

ApiPut(c, v) ==
    /\ Put(Key(c), v)
    /\ clock' = clock + 1
    /\ rev' = [rev EXCEPT ![Key(c)] = clock + 1]
    /\ news' = IF HasNews THEN Append(news, [key |-> Key(c), val |-> v, rev |-> clock + 1]) ELSE news
    /\ always' = IF v = Absent THEN always \ {Key(c)} ELSE always

ApiKeeps == UNCHANGED <<map, old, clock, rev, news, always>>

\* A write that is not refused takes effect, though its answer may be lost; one
\* that is changes nothing.
Accept(c, v) == (Done(c) \/ Fails(c)) /\ (IF IsDry(c) THEN ApiKeeps ELSE ApiPut(c, v))
Refuse(c)    == Fails(c) /\ ApiKeeps

ApiCreate(c, b) ==
    IF map[Key(c)] # Absent \/ b # 0 THEN Refuse(c) ELSE Accept(c, req[c].val)

ApiUpdate(c, b) ==
    IF map[Key(c)] = Absent \/ (b # 0 /\ b # rev[Key(c)])
    THEN Refuse(c) /\ UNCHANGED built
    ELSE /\ Accept(c, req[c].val)
         /\ built' = IF b = 0 \/ IsDry(c) THEN built ELSE Append(built, b)

ApiDelete(c) == IF map[Key(c)] = Absent THEN Refuse(c) ELSE Accept(c, Absent)

\* The version in the object the client sends: none, or that of what it read.
Versions(c) == {0} \cup {r \in {lastRead[c][2]} : lastRead[c][1] = Key(c)}

-----------------------------------------------------------------------------
(* DynamicResource.                                                         *)

KubeCreate(c) ==
    /\ KubeCall(c, {"Create"})
    /\ \E b \in Versions(c) : ApiCreate(c, b)
    /\ UNCHANGED <<kind, calls, opts, fileVars, objectVars, lastRead, base, built>>
    /\ UNCHANGED <<cache, unsynced, waits>>

KubeUpdate(c) ==
    /\ KubeCall(c, {"Update"})
    /\ \E b \in Versions(c) : ApiUpdate(c, b)
    /\ UNCHANGED <<kind, calls, opts, fileVars, objectVars, lastRead, base>>
    /\ UNCHANGED <<cache, unsynced, waits>>

\* apply: Get, then create or update; ResolveConflict takes over the version
\* of the object it got.
KubeApply(c) ==
    /\ KubeCall(c, {"Apply"})
    /\ IF map[Key(c)] = Absent THEN Goto(c, "create") ELSE Goto(c, "update")
    /\ \E b \in Versions(c) :
        base' = [base EXCEPT ![c] =
                    IF map[Key(c)] # Absent /\ Has(opts[c], "resolve") THEN rev[Key(c)] ELSE b]
    /\ UNCHANGED <<kind, map, old, calls, opts, fileVars, objectVars>>
    /\ UNCHANGED <<rev, clock, lastRead, built, always, infVars>>

KubeApplyCreate(c) ==
    /\ IsKube /\ pc[c] = "create"
    /\ ApiCreate(c, base[c])
    /\ UNCHANGED <<kind, calls, opts, fileVars, objectVars, lastRead, base, built>>
    /\ UNCHANGED <<cache, unsynced, waits>>

\* Mutant: the version is taken over when the update is sent.
KubeApplyUpdateLate(c) ==
    /\ IsKube /\ pc[c] = "update"
    /\ Accept(c, req[c].val)
    /\ built' = IF base[c] = 0 \/ IsDry(c) THEN built ELSE Append(built, base[c])
    /\ UNCHANGED <<kind, calls, opts, fileVars, objectVars, lastRead, base>>
    /\ UNCHANGED <<cache, unsynced, waits>>

KubeApplyUpdate(c) ==
    /\ IsKube /\ pc[c] = "update"
    /\ ApiUpdate(c, base[c])
    /\ UNCHANGED <<kind, calls, opts, fileVars, objectVars, lastRead, base>>
    /\ UNCHANGED <<cache, unsynced, waits>>

KubeDelete(c) ==
    /\ KubeCall(c, {"Delete"})
    /\ ApiDelete(c)
    /\ UNCHANGED <<kind, calls, opts, fileVars, objectVars, lastRead, base, built>>
    /\ UNCHANGED <<cache, unsynced, waits>>

\* A write, or the Get of an Apply, fails at the API server or on the way to it,
\* and changes nothing.
KubeFails(c) ==
    /\ OfApi
    /\ (pc[c] = "called" /\ req[c].op \in Writes) \/ pc[c] \in {"create", "update"}
    /\ Fails(c)
    /\ UNCHANGED <<kind, map, old, calls, opts, fileVars, objectVars, kubeVars>>

\* Read and List at the API server, which know no option of a cache; also
\* for what a cache does not hold.  Get and List can fail, there or on the way.
KubeRead(c) ==
    /\ \/ kind = "kube" /\ pc[c] = "called" /\ req[c].op \in {"Read", "List"}
       \/ pc[c] = "fallback"
    /\ IF kind = "kube" /\ opts[c] # <<>> THEN FailsFor(c, "option") /\ UNCHANGED lastRead
       ELSE \/ FailsFor(c, "fault") /\ UNCHANGED lastRead
            \/ /\ Reads(c, map)
               /\ lastRead' = IF req[c].op = "Read" /\ map[Key(c)] # Absent
                              THEN [lastRead EXCEPT ![c] = <<Key(c), rev[Key(c)]>>] ELSE lastRead
    /\ UNCHANGED <<kind, map, old, calls, opts, fileVars, objectVars>>
    /\ UNCHANGED <<rev, clock, base, built, always, infVars>>

-----------------------------------------------------------------------------
(* CachedDynamicResource and the informer.                                  *)

Cached == [k \in Keys |-> cache[k].val]

\* Mutant: a miss is an answer.
CachedReadOnly(c) ==
    /\ kind = "cached" /\ pc[c] = "called" /\ req[c].op \in {"Read", "List"}
    /\ Reads(c, Cached)
    /\ UNCHANGED <<kind, map, old, calls, opts, fileVars, objectVars, kubeVars>>

\* WithNoCache goes to the API server, and no other option is known.
CachedRead(c) ==
    /\ kind = "cached" /\ pc[c] = "called" /\ req[c].op \in {"Read", "List"}
    /\ IF Len(opts[c]) > 1 THEN FailsFor(c, "option") /\ UNCHANGED lastRead
       ELSE IF \/ Has(opts[c], "noCache")
               \/ req[c].op = "Read" /\ Cached[Key(c)] = Absent
               \/ req[c].op = "List" /\ Cached = Empty
       THEN Goto(c, "fallback") /\ UNCHANGED lastRead
       ELSE /\ Reads(c, Cached)
            /\ lastRead' = IF req[c].op = "List" THEN lastRead
                           ELSE [lastRead EXCEPT ![c] = <<Key(c), cache[Key(c)].rev>>]
    /\ UNCHANGED <<kind, map, old, calls, opts, fileVars, objectVars>>
    /\ UNCHANGED <<rev, clock, base, built, always, infVars>>

\* The informer hears of the next change.
Deliver ==
    /\ news # <<>>
    /\ cache' = [cache EXCEPT ![Head(news).key] = [val |-> Head(news).val, rev |-> Head(news).rev]]
    /\ news' = Tail(news)
    /\ unsynced' = IF unsynced > 0 THEN unsynced - 1 ELSE 0
    /\ UNCHANGED <<baseVars, fileVars, objectVars, apiVars, waits>>

-----------------------------------------------------------------------------
(* ConfigMap.                                                               *)

\* What a call that matches labels and the dry run leaves of its options.
Remaining(o) == Consumed(Consumed(o, "labels"), "dryRun")

\* What the caller's slice holds afterwards.
PassedOn(o) ==
    LET view == Consumed(o, "labels")
    IN  [i \in 1..Len(o) |-> IF i <= Len(view) THEN LeftBehind(view, "dryRun")[i] ELSE o[i]]

CmWrite(c) ==
    /\ CmCall(c, {"Create", "Update", "Delete"})
    /\ CASE req[c].op = "Create" -> ApiCreate(c, 0) /\ UNCHANGED built
         [] req[c].op = "Update" -> ApiUpdate(c, 0)
         [] OTHER                -> ApiDelete(c) /\ UNCHANGED built
    /\ UNCHANGED <<kind, calls, opts, fileVars, objectVars, lastRead, base>>
    /\ UNCHANGED <<cache, unsynced, waits>>

\* Apply calls Update, and on ErrNotFound Create with the same options.
CmApply(c) ==
    /\ CmCall(c, {"Apply"})
    /\ IF map[Key(c)] = Absent
       THEN /\ Goto(c, "create")
            /\ opts' = [opts EXCEPT ![c] = PassedOn(@)]
            /\ ApiKeeps /\ UNCHANGED built
       ELSE ApiUpdate(c, 0) /\ UNCHANGED opts
    /\ UNCHANGED <<kind, calls, fileVars, objectVars, lastRead, base>>
    /\ UNCHANGED <<cache, unsynced, waits>>

CmApplyCreate(c) ==
    /\ kind = "configmap" /\ pc[c] = "create"
    /\ IF Remaining(opts[c]) # <<>> THEN Refuse(c) ELSE ApiCreate(c, 0)
    /\ UNCHANGED <<kind, calls, opts, fileVars, objectVars, lastRead, base, built>>
    /\ UNCHANGED <<cache, unsynced, waits>>

\* Read and List of the lister.
CmRead(c) ==
    /\ CmCall(c, {"Read", "List"})
    /\ IF opts[c] # <<>> THEN FailsFor(c, "option") ELSE Reads(c, Cached)
    /\ UNCHANGED <<kind, map, old, calls, opts, fileVars, objectVars, kubeVars>>
=============================================================================
