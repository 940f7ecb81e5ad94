------------------------------ MODULE Backends ------------------------------
(***************************************************************************)
(* Clients of one store, whichever backend it has.                          *)
(***************************************************************************)
EXTENDS KubeStore

CONSTANTS
    TheKey,      \* the key the clients work on
    ValueOf(_)   \* the value each of them writes

ASSUME BackendsAssumption == TheKey \in Keys /\ \A c \in Clients : ValueOf(c) \in Values

vars == <<baseVars, fileVars, objectVars, kubeVars>>

\* Other keys matter to a List, of a cached store above all.  What is there at
\* the start is no client's value.
Init ==
    /\ BackendInit /\ FileInit /\ ObjectInit /\ KubeInit
    /\ \A k \in Keys, c \in Clients : map[k] # ValueOf(c)
    /\ kind # "cached" => Present \subseteq {TheKey}

Inputs(c) == {r \in Requests : (r.op = "List" \/ r.key = TheKey) /\ r.val \in {ValueOf(c), Absent}}

Next ==
    \/ \E c \in Clients : \E r \in Inputs(c) :
            Usable /\ Call(c, r) /\ UNCHANGED <<fileVars, objectVars, kubeVars>>
    \/ \E c \in Clients : Return(c) /\ UNCHANGED <<fileVars, objectVars, kubeVars>>
    \/ \E c \in Clients : FsOpen(c) /\ UNCHANGED <<objectVars, kubeVars>>
    \/ \E c \in Clients : FsApplyCreate(c) /\ UNCHANGED <<objectVars, kubeVars>>
    \/ \E c \in Clients : FsWrite(c) /\ UNCHANGED <<objectVars, kubeVars>>
    \/ \E c \in Clients : FsCrash(c) /\ UNCHANGED <<objectVars, kubeVars>>
    \/ \E c \in Clients : FsRemove(c) /\ UNCHANGED <<objectVars, kubeVars>>
    \/ \E c \in Clients : FsDryRun(c) /\ UNCHANGED <<objectVars, kubeVars>>
    \/ \E c \in Clients : FsRead(c) /\ UNCHANGED <<objectVars, kubeVars>>
    \/ \E c \in Clients : S3Unsupported(c) /\ UNCHANGED kubeVars
    \/ \E c \in Clients : S3Look(c) /\ UNCHANGED kubeVars
    \/ \E c \in Clients : S3Put(c) /\ UNCHANGED kubeVars
    \/ \E c \in Clients : S3Delete(c) /\ UNCHANGED kubeVars
    \/ \E c \in Clients : S3Read(c) /\ UNCHANGED kubeVars
    \/ \E c \in Clients : KubeCreate(c)
    \/ \E c \in Clients : KubeUpdate(c)
    \/ \E c \in Clients : KubeApply(c)
    \/ \E c \in Clients : KubeApplyCreate(c)
    \/ \E c \in Clients : KubeApplyUpdate(c)
    \/ \E c \in Clients : KubeDelete(c)
    \/ \E c \in Clients : KubeFails(c)
    \/ \E c \in Clients : KubeRead(c)
    \/ \E c \in Clients : CachedRead(c)
    \/ Deliver
    \/ \E c \in Clients : CmWrite(c)
    \/ \E c \in Clients : CmApply(c)
    \/ \E c \in Clients : CmApplyCreate(c)
    \/ \E c \in Clients : CmRead(c)

Spec == Init /\ [][Next]_vars

-----------------------------------------------------------------------------
(* Properties.                                                              *)

\* The clients of one process share a file store, those of an API server a
\* namespace, as one map on which every call that returns no error happens at
\* one instant: fs's lock is held from open to close, and Get is followed by a
\* write that is refused when it comes too late.  A call that fails has changed
\* nothing; or it has happened, its answer lost or its disk failing late; or,
\* under fs, it has left a file without a value, for all to find until it is
\* written again (fs.go:139, 173, 200).  And fs answers a dry run of Create with
\* success when it cannot open the file (fs.go:118).
AbstractPhase == [c \in Clients |->
    IF pc[c] = "idle" THEN "idle" ELSE IF pc[c] = "return" THEN "done" ELSE "called"]
AbstractMap == [k \in Keys |-> IF map[k] = Hole THEN old[k] ELSE map[k]]
Faults == IF kind = "fs" THEN {"after", "torn", "blind"} ELSE {"after"}
AbstractStore == INSTANCE KeyValue WITH map <- AbstractMap, phase <- AbstractPhase, faults <- Faults
IsAtomic == kind \in {"fs", "kube"}
ImplementsKeyValue ==
    /\ IsAtomic => AbstractStore!Init
    /\ [][IsAtomic => AbstractStore!Next]_(AbstractStore!vars)

\* A Create that takes effect has not replaced anything, whatever it returns, in
\* any backend and with several processes; but that of s3, whose object may come
\* between its look and its put, or be there when the look fails.
CreateKeeps ==
    [][\A c \in Clients :
        /\ req[c].op = "Create" /\ req[c].opt # "dryRun"
        /\ \/ pc[c] # "write" /\ pc'[c] = "write"
           \/ ~IsFs /\ pc[c] # "return" /\ pc'[c] = "return" /\ (~ans'[c].err \/ map' # map)
        => map[Key(c)] = Absent \/ (kind = "s3" /\ c \in blind \cup raced)]_vars

\* No two updates that took effect, those whose answer was lost among them, were
\* built on the same version of an object, whether the client read it or
\* ResolveConflict took it over: no update of another is lost.
NoLostUpdate == \A i, j \in DOMAIN built : built[i] = built[j] => i = j

\* A Read says that a key is not found only when it is not there, or when fs
\* cannot open its file (fs.go:102): never because the informer has not heard of
\* the object.  It finds a file without a value only when a write that failed has
\* left it so: never because a client of the same process is writing it.  An
\* option is refused only where it is not known.  A fault of the API server is an
\* error of its own, and meets no Read that the cache answers.
NotFoundMeansAbsent ==
    \A c \in Clients :
        /\ kind \in {"fs", "kube", "cached"}
        /\ req[c].op = "Read" /\ pc[c] # "return" /\ pc'[c] = "return" /\ ans'[c].err
        => CASE why'[c] = "notFound"   -> map[Key(c)] = Absent
             [] why'[c] = "unopened"   -> kind = "fs"
             [] why'[c] = "unreadable" -> kind = "fs" /\ Key(c) \in torn
             [] why'[c] = "option"     -> kind # "cached" /\ opts[c] # <<>>
             [] OTHER                  -> why'[c] = "fault" /\ (kind = "kube" \/ pc[c] = "fallback")

\* A List of a store that waits for its cache shows every key that has been
\* there all the time.
ListShowsAll ==
    \A c \in Clients :
        waits /\ pc[c] = "return" /\ req[c].op = "List" /\ ~ans[c].err
        => \A k \in always : ans[c].got[k] # Absent

\* What is there is found.
ReadsSound == [][NotFoundMeansAbsent /\ ListShowsAll']_vars

=============================================================================
