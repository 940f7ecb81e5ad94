----------------------------- MODULE MCBackends -----------------------------
(***************************************************************************)
(* Two clients of one backend, each with a value of its own; or two stores  *)
(* that share a database, and tell their items apart by labels or by keys.  *)
(***************************************************************************)
EXTENDS Backends, LabelStore, PrefixStore

CONSTANTS c1, c2, v0, v1, v2

MCValueOf(c) == IF c = c1 THEN v1 ELSE v2

App(v) == [k \in {"app"} |-> v]
Team(v) == [k \in {"team"} |-> v]
MCSetups ==
    {[server |-> <<>>,     immutable |-> App("a"), enriched |-> {<<>>, Team("a")}],
     [server |-> Team("a"), immutable |-> App("b"), enriched |-> {<<>>, App("a")}],
     [server |-> App("b"), immutable |-> <<>>,     enriched |-> {<<>>, App("a")}],
     [server |-> App("a"), immutable |-> App("a"), enriched |-> {<<>>}]}

A == <<"a">>
B == <<"b">>
AB == <<"a", "b">>
MCStacks ==
    {[prefix |-> <<>>, named |-> "no", validating |-> FALSE],
     [prefix |-> A, named |-> "above", validating |-> TRUE],
     [prefix |-> AB, named |-> "above", validating |-> FALSE],
     [prefix |-> B, named |-> "below", validating |-> TRUE],
     [prefix |-> AB, named |-> "no", validating |-> TRUE]}
MCNames == {A, B, AB}

VARIABLE scene  \* what is followed

all == <<scene, vars, labelVars, prefixVars>>

MCInit ==
    /\ scene \in {"backend", "labels", "keys"}
    /\ Init /\ LabelInit /\ PrefixInit
    /\ scene # "backend" => kind = "s3" /\ (\A k \in Keys : map[k] = Absent) /\ ~waits
    /\ scene # "labels" => setup = [u \in Owners |-> CHOOSE s \in Setups : TRUE]
    /\ scene # "keys" => \A t \in Tenants : stack[t].prefix = A

MCNext ==
    \/ scene = "backend" /\ Next /\ UNCHANGED <<scene, labelVars, prefixVars>>
    \/ scene = "labels" /\ LabelNext /\ UNCHANGED <<scene, vars, prefixVars>>
    \/ scene = "keys" /\ PrefixNext /\ UNCHANGED <<scene, vars, labelVars>>

MCSpec == MCInit /\ [][MCNext]_all

\* No client's update is lost, and no store's List is mixed up with another's.
NothingMixedUp == NoLostUpdate /\ ListScoped /\ PrefixScoped
=============================================================================
