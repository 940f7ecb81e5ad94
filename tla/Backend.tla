------------------------------ MODULE Backend ------------------------------
(***************************************************************************)
(* pkg/store/backends: the calls of clients to a store whose contents live  *)
(* elsewhere.  The backend modules add what each call does in between.      *)
(***************************************************************************)
EXTENDS Memory, Options, FiniteSets

CONSTANTS
    Clients,
    MaxCalls,   \* bound: calls in all
    Hole        \* a file whose content is no value: it is being written, or torn

ASSUME BackendAssumption == MaxCalls \in Nat /\ Hole \notin Values \cup {Absent}

VARIABLES
    kind,      \* the backend under the clients
    map,       \* what it holds
    old,       \* (history) what was written last to each key, in full or in part
    calls,     \* calls made so far
    pc,        \* where each client's call is
    req,       \* the call,
    opts,      \*   its options as the slice holds them,
    ans,       \*   what it returns,
    why        \*   and, if that is an error, which

callVars == <<calls, pc, req, opts, ans, why>>
baseVars == <<kind, map, old, callVars>>

Kinds == {"fs", "fsShared", "s3", "kube", "cached", "configmap"}

\* The options that can come with a request.
OptionLists(r) ==
    CASE r.opt = "none" /\ r.op = "Apply" /\ kind \in {"kube", "cached"} -> {<<>>, <<"resolve">>}
      [] r.opt = "none" /\ r.op = "Apply" /\ kind = "configmap" -> {<<>>, <<"labels">>}
      [] r.opt = "dryRun" /\ r.op = "Apply" /\ kind = "configmap" ->
            {<<"dryRun">>, <<"dryRun", "labels">>, <<"labels", "dryRun">>}
      [] r.opt = "dryRun" /\ ~(r.op = "Apply" /\ kind = "configmap") -> {<<"dryRun">>}
      [] r.opt = "skip"     -> {<<"noCache">>}
      [] r.opt = "skipMore" -> {<<"noCache", "keysOnly">>}
      [] OTHER              -> {<<>>}

BackendInit ==
    /\ kind \in Kinds
    /\ map \in Maps /\ old = map
    /\ calls = 0
    /\ pc = [c \in Clients |-> "idle"] /\ req = [c \in Clients |-> NoRequest]
    /\ opts = [c \in Clients |-> <<>>] /\ ans = [c \in Clients |-> Error]
    /\ why = [c \in Clients |-> "none"]

Key(c)   == req[c].key
IsDry(c) == Has(opts[c], "dryRun")

\* The call of c has come to step s, or has its answer.
Goto(c, s) == pc' = [pc EXCEPT ![c] = s] /\ UNCHANGED <<req, ans, why>>
Finish(c, a, w) ==
    /\ pc' = [pc EXCEPT ![c] = "return"]
    /\ ans' = [ans EXCEPT ![c] = a] /\ why' = [why EXCEPT ![c] = w]
    /\ UNCHANGED req

\* The errors a Read tells apart: "notFound", "unopened" (fs could not open what
\* it reads, which its Read reports as not found, too), "unreadable" (there is
\* no value in it), "fault" (of an API server), "option"; all of the writes are
\* "other".
Done(c)        == Finish(c, [err |-> FALSE, got |-> Empty], "none")
FailsFor(c, w) == Finish(c, Error, w)
Fails(c)       == FailsFor(c, "other")

\* What a Read or a List of contents m returns; what stands for no value is
\* an error.
Reads(c, m) ==
    IF \E k \in Keys : m[k] = Hole /\ (req[c].op = "List" \/ k = Key(c))
    THEN FailsFor(c, "unreadable")
    ELSE Finish(c, Answer(m, req[c]), IF Refused(m, req[c]) THEN "notFound" ELSE "none")

\* Before the contents change, c begins and ends a call.
Call(c, r) ==
    /\ pc[c] = "idle" /\ calls < MaxCalls
    /\ calls' = calls + 1
    /\ pc' = [pc EXCEPT ![c] = "called"]
    /\ req' = [req EXCEPT ![c] = r]
    /\ opts' \in {[opts EXCEPT ![c] = o] : o \in OptionLists(r)}
    /\ UNCHANGED <<kind, map, old, ans, why>>

Return(c) ==
    /\ pc[c] = "return"
    /\ pc' = [pc EXCEPT ![c] = "idle"]
    /\ req' = [req EXCEPT ![c] = NoRequest]
    /\ opts' = [opts EXCEPT ![c] = <<>>]
    /\ ans' = [ans EXCEPT ![c] = Error] /\ why' = [why EXCEPT ![c] = "none"]
    /\ UNCHANGED <<kind, map, old, calls>>

\* A write of a whole value, in one step.
Put(k, v) == map' = [map EXCEPT ![k] = v] /\ old' = [old EXCEPT ![k] = v]
=============================================================================
