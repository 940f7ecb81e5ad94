------------------------------- MODULE Memory -------------------------------
(***************************************************************************)
(* pkg/store/backends/memory: what a call to a key-value store does to the  *)
(* map it holds.  A request carries its operation, its key, the value it    *)
(* writes, and the one option that matters: "dryRun" for writes, "skip" and *)
(* "skipMore" (skip, with other options) for reads through a cache.         *)
(***************************************************************************)

CONSTANTS
    Keys,
    Values,
    Absent    \* no value

ASSUME MemoryAssumption == Absent \notin Values /\ Absent \notin Keys

Maps  == [Keys -> Values \cup {Absent}]
Empty == [k \in Keys |-> Absent]

Writes == {"Create", "Update", "Apply", "Delete"}

Requests ==
    [op : {"Create", "Update", "Apply"}, key : Keys, val : Values, opt : {"none", "dryRun"}]
        \cup [op : {"Delete"}, key : Keys, val : {Absent}, opt : {"none", "dryRun"}]
        \cup [op : {"Read"}, key : Keys, val : {Absent}, opt : {"none", "skip"}]
        \cup [op : {"List"}, key : {Absent}, val : {Absent}, opt : {"none", "skip", "skipMore"}]

NoRequest == [op |-> "none", key |-> Absent, val |-> Absent, opt |-> "none"]

\* Create wants the key absent, Update, Delete and Read want it there; a dry
\* run is refused as the real call would be.
Refused(m, r) ==
    \/ r.op = "Create" /\ m[r.key] # Absent
    \/ r.op \in {"Update", "Delete", "Read"} /\ m[r.key] = Absent

\* The map after a call that is not refused.
Written(m, r) ==
    IF r.op \in Writes /\ r.opt # "dryRun" THEN [m EXCEPT ![r.key] = r.val] ELSE m

\* What a call returns: its error, and what it has read.
Answers == [err : BOOLEAN, got : Maps]
Error   == [err |-> TRUE, got |-> Empty]

Answer(m, r) ==
    IF Refused(m, r) THEN Error
    ELSE [err |-> FALSE,
          got |-> CASE r.op = "Read" -> [Empty EXCEPT ![r.key] = m[r.key]]
                    [] r.op = "List" -> m
                    [] OTHER         -> Empty]
=============================================================================
