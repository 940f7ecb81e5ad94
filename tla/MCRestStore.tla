---------------------------- MODULE MCRestStore ----------------------------
(***************************************************************************)
(* Two clients, each with a server of its own in front of one store, and    *)
(* each with the calls whose outcomes the other's can change.               *)
(***************************************************************************)
EXTENDS RestStore

CONSTANTS c1, c2, h1, h2, k1, v, misnamed, invalid

MCHostOf(c) == IF c = c1 THEN h1 ELSE h2
MCNameOf(w) == IF w = misnamed THEN misnamed ELSE k1

Request(op, val, opt) ==
    [op |-> op, key |-> IF op = "List" THEN Absent ELSE k1, val |-> val, opt |-> opt]

MCInputs(c) ==
    IF c = c1
    THEN {Request("Create", v, o) : o \in {"none", "dryRun", "clash", "unknown"}}
            \cup {Request("Delete", Absent, "none"), Request("List", Absent, "none")}
    ELSE {Request("Update", w, "none") : w \in {v, misnamed, invalid}}
            \cup {Request("Apply", v, "none")}
            \cup {Request("Read", Absent, o) : o \in {"none", "local"}}
=============================================================================
