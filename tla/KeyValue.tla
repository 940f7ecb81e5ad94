------------------------------ MODULE KeyValue ------------------------------
(***************************************************************************)
(* What pkg/store's Store interface promises to concurrent clients: a call  *)
(* that returns no error has happened at one instant between its start and  *)
(* its end, on one map.  One that fails has changed nothing; or, where such *)
(* faults can be, has happened although its answer was lost, or has left    *)
(* the entry it was writing torn: no one can read it until it is written    *)
(* again.                                                                   *)
(***************************************************************************)
EXTENDS Memory

CONSTANT Clients

VARIABLES
    map,
    torn,    \* keys whose entry cannot be read
    faults,  \* how a call may fail, but "before" it happens, as any may: "after",
             \* "torn"; and "blind", a look that fails is taken for nothing there
    phase, req, ans

vars == <<map, torn, faults, phase, req, ans>>

Init ==
    /\ map \in Maps /\ torn = {}
    /\ faults \in SUBSET {"before", "after", "torn", "blind"}
    /\ phase = [c \in Clients |-> "idle"]
    /\ req = [c \in Clients |-> NoRequest]
    /\ ans = [c \in Clients |-> Error]

\* What r writes, and whether r asks for a torn entry.
Touched(r)   == IF r.op \in Writes /\ r.opt # "dryRun" THEN {r.key} ELSE {}
Unreadable(r) == (r.op = "Read" /\ r.key \in torn) \/ (r.op = "List" /\ torn # {})

Invoke(c, r) ==
    /\ phase[c] = "idle"
    /\ phase' = [phase EXCEPT ![c] = "called"]
    /\ req' = [req EXCEPT ![c] = r]
    /\ UNCHANGED <<map, torn, faults, ans>>

\* The call of c is over, with the answer a.
Answered(c, a) ==
    /\ phase[c] = "called"
    /\ phase' = [phase EXCEPT ![c] = "done"]
    /\ ans' = [ans EXCEPT ![c] = a]
    /\ UNCHANGED <<faults, req>>

\* It has happened.
Takes(c) == map' = Written(map, req[c]) /\ torn' = torn \ Touched(req[c])

Do(c) ==
    /\ ~Unreadable(req[c]) /\ Answered(c, Answer(map, req[c]))
    /\ IF Refused(map, req[c]) THEN UNCHANGED <<map, torn>> ELSE Takes(c)

Fail(c) == Answered(c, Error) /\ UNCHANGED <<map, torn>>

FailAfter(c) == "after" \in faults /\ ~Refused(map, req[c]) /\ Answered(c, Error) /\ Takes(c)

FailTorn(c) ==
    /\ "torn" \in faults /\ ~Refused(map, req[c])
    /\ req[c].op \in {"Create", "Update", "Apply"} /\ Answered(c, Error)
    /\ map' = Written(map, req[c]) /\ torn' = torn \cup Touched(req[c])

\* A dry run of Create that could not look.
Guess(c) ==
    /\ "blind" \in faults /\ req[c].op = "Create" /\ req[c].opt = "dryRun"
    /\ Answered(c, [err |-> FALSE, got |-> Empty]) /\ UNCHANGED <<map, torn>>

Return(c) ==
    /\ phase[c] = "done"
    /\ phase' = [phase EXCEPT ![c] = "idle"]
    /\ req' = [req EXCEPT ![c] = NoRequest]
    /\ ans' = [ans EXCEPT ![c] = Error]
    /\ UNCHANGED <<map, torn, faults>>

Next == \E c \in Clients :
    \/ \E r \in Requests : Invoke(c, r)
    \/ Do(c) \/ Fail(c) \/ FailAfter(c) \/ FailTorn(c) \/ Guess(c)
    \/ Return(c)

Spec == Init /\ [][Next]_vars
=============================================================================
