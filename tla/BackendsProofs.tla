--------------------------- MODULE BackendsProofs ---------------------------
(***************************************************************************)
(* For any clients, stores, labels, stacks and keys: nothing is mixed up.   *)
(*                                                                         *)
(* An update that takes effect is built on the version that is there, or on *)
(* none, and gives the object a new one.  What a store writes carries the   *)
(* labels that are its own, whatever the caller and the enricher add; so a  *)
(* List, which asks for its own labels, finds what it has written and       *)
(* nothing that carries others.  And what begins with a store's prefix was  *)
(* written by it, if no prefix begins another.                              *)
(*                                                                         *)
(* Each step of a store in one process, or of an API server's clients, is a *)
(* step of the abstract store or none, with the faults that it allows; and  *)
(* what is there is found.                                                  *)
(***************************************************************************)
EXTENDS MCBackends, FiniteSetTheorems, SequenceTheorems, TLAPS

-----------------------------------------------------------------------------
(* Stores with labels.                                                      *)

\* The part of the types that the argument needs.
Typed ==
    /\ setup \in [Owners -> Setups]
    /\ db \in [Items -> [there : BOOLEAN, labels : Labels, by : Owners \cup {"nobody"}]]

\* An item carries every label that its writer's store adds.
Carries ==
    \A k \in Items : db[k].by # "nobody" => db[k].there /\ Selects(Own(db[k].by), db[k].labels)

LabelInv == Typed /\ Carries /\ ListScoped

-----------------------------------------------------------------------------
(* Labels are merged.                                                       *)

\* The union of two sets of labels is one (MergeMap, slices.go:123) ...
LEMMA MergeLabels ==
    ASSUME NEW l \in Labels, NEW m \in Labels
    PROVE  Merge(l, m) \in Labels
<1>1. PICK K \in SUBSET LabelKeys : l \in [K -> LabelValues] BY DEF Labels
<1>2. PICK M \in SUBSET LabelKeys : m \in [M -> LabelValues] BY DEF Labels
<1>3. Merge(l, m) \in [K \cup M -> LabelValues] BY <1>1, <1>2 DEF Merge
<1>4. K \cup M \in SUBSET LabelKeys OBVIOUS
<1> QED BY <1>3, <1>4 DEF Labels

\* ... in which the second wins.
LEMMA MergeValue ==
    ASSUME NEW l, NEW m, NEW x
    PROVE  /\ x \in DOMAIN Merge(l, m) <=> x \in DOMAIN l \/ x \in DOMAIN m
           /\ x \in DOMAIN m => Merge(l, m)[x] = m[x]
           /\ x \in DOMAIN l /\ x \notin DOMAIN m => Merge(l, m)[x] = l[x]
BY DEF Merge

\* No labels are a set of labels.
LEMMA NoLabels == <<>> \in Labels
<1>1. <<>> \in [{} -> LabelValues] OBVIOUS
<1> QED BY <1>1 DEF Labels

\* A store's configuration consists of labels.
LEMMA SetupLabels ==
    ASSUME Typed, NEW u \in Owners
    PROVE  setup[u].server \in Labels /\ setup[u].immutable \in Labels /\ setup[u].enriched \subseteq Labels
<1>1. setup[u] \in Setups BY DEF Typed
<1>2. setup[u] \in [server : Labels, immutable : Labels, enriched : SUBSET Labels]
  BY <1>1, LabelStoreAssumption
<1> QED BY <1>2

-----------------------------------------------------------------------------
(* A write and a List.                                                      *)

\* The labels of a write that is not refused: they are labels, and unless the
\* server has answered 400 its own and the immutable ones are among them
\* (BuildLabels, util.go:78).
LEMMA WriteCarries ==
    ASSUME Typed, NEW u \in Owners, NEW custom \in Labels, NEW object \in setup[u].enriched,
           ~Overridden(u, ServerLabels(u, custom), object)
    PROVE  LET carried == BuildLabels(u, ServerLabels(u, custom), object)
           IN  /\ carried \in Labels
               /\ ~Clashes(setup[u].server, custom) => Selects(Own(u), carried)
<1> DEFINE server == setup[u].server
           immutable == setup[u].immutable
           lbls == ServerLabels(u, custom)
           carried == BuildLabels(u, lbls, object)
<1>1. server \in Labels /\ immutable \in Labels /\ object \in Labels BY SetupLabels
<1>2. Merge(custom, server) \in Labels BY <1>1, MergeLabels
<1>3. lbls \in Labels BY <1>2, NoLabels DEF ServerLabels
<1>4. Merge(object, lbls) \in Labels BY <1>1, <1>3, MergeLabels
<1>5. carried = Merge(Merge(object, lbls), immutable) BY DEF BuildLabels
<1>6. carried \in Labels BY <1>1, <1>4, <1>5, MergeLabels
<1>7. ASSUME ~Clashes(server, custom) PROVE Selects(Own(u), carried)
  <2>1. lbls = Merge(custom, server) BY <1>7 DEF ServerLabels
  <2>2. Own(u) = Merge(server, immutable) BY DEF Own
  <2> SUFFICES ASSUME NEW x \in DOMAIN Own(u)
               PROVE  x \in DOMAIN carried /\ carried[x] = Own(u)[x]
    BY DEF Selects
  <2>3. CASE x \in DOMAIN immutable
    <3>1. Own(u)[x] = immutable[x] BY <1>1, <2>2, <2>3, MergeValue
    <3>2. x \in DOMAIN carried /\ carried[x] = immutable[x] BY <1>1, <1>4, <1>5, <2>3, MergeValue
    <3> QED BY <3>1, <3>2
  <2>4. CASE x \notin DOMAIN immutable
    <3>1. x \in DOMAIN server /\ Own(u)[x] = server[x] BY <1>1, <2>2, <2>4, MergeValue
    <3>2. x \in DOMAIN lbls /\ lbls[x] = server[x] BY <1>1, <2>1, <3>1, MergeValue
    <3>3. x \in DOMAIN Merge(object, lbls) /\ Merge(object, lbls)[x] = lbls[x]
      BY <1>1, <1>3, <3>2, MergeValue
    <3>4. x \in DOMAIN carried /\ carried[x] = Merge(object, lbls)[x]
      BY <1>1, <1>4, <1>5, <2>4, <3>3, MergeValue
    <3> QED BY <3>1, <3>2, <3>3, <3>4
  <2> QED BY <2>3, <2>4
<1> QED BY <1>6, <1>7

\* A write keeps the types and what the items carry.
LEMMA WriteKeeps ==
    ASSUME Typed, Carries, NEW u \in Owners, NEW k \in Items, NEW custom \in Labels,
           NEW object \in setup[u].enriched, NEW failed \in BOOLEAN, Write(u, k, custom, object, failed)
    PROVE  LabelInv'
<1> DEFINE lbls == ServerLabels(u, custom)
           clash == Clashes(setup[u].server, custom)
           new == [there |-> TRUE, labels |-> BuildLabels(u, lbls, object), by |-> IF clash THEN "nobody" ELSE u]
<1>1. setup' = setup /\ listed' = NoAnswer BY DEF Write
<1>2. ListScoped' BY <1>1 DEF ListScoped, NoAnswer
<1>3. CASE failed \/ Overridden(u, lbls, object)
  <2>1. db' = db BY <1>3 DEF Write
  <2> QED BY <1>1, <1>2, <2>1 DEF LabelInv, Typed, Carries, Own
<1>4. CASE ~(failed \/ Overridden(u, lbls, object))
  <2>1. db' = [db EXCEPT ![k] = new] BY <1>4 DEF Write
  <2>2. new.labels \in Labels /\ (~clash => Selects(Own(u), new.labels)) BY <1>4, WriteCarries
  <2>3. new \in [there : BOOLEAN, labels : Labels, by : Owners \cup {"nobody"}] BY <2>2
  <2>4. Typed' BY <1>1, <2>1, <2>3 DEF Typed
  <2>5. ASSUME NEW i \in Items, db'[i].by # "nobody"
        PROVE  db'[i].there /\ Selects(Own(db'[i].by), db'[i].labels)
    <3>1. CASE i = k BY <2>1, <2>2, <2>5, <3>1 DEF Typed
    <3>2. CASE i # k BY <2>1, <2>5, <3>2 DEF Typed, Carries
    <3> QED BY <3>1, <3>2
  <2>6. Carries' BY <1>1, <2>5 DEF Carries, Own
  <2> QED BY <1>2, <2>4, <2>6 DEF LabelInv
<1> QED BY <1>3, <1>4

\* A List (labels.go:64) asks for the store's own labels and the caller's, so
\* it answers with all that is the store's and nothing that is another's.
LEMMA ListKeeps ==
    ASSUME Typed, Carries, NEW u \in Owners, LabelledList(u)
    PROVE  LabelInv'
<1> DEFINE server == setup[u].server
           immutable == setup[u].immutable
<1>1. setup' = setup /\ db' = db BY DEF LabelledList
<1>2. PICK custom \in Labels, failed \in BOOLEAN :
        LET clash  == ~Disjoint(server, custom)
            asked  == IF clash THEN <<>> ELSE GenerateLabelSelector(server, custom)
            err    == clash \/ ~Disjoint(immutable, asked)
            wanted == GenerateLabelSelector(immutable, asked)
        IN  listed' = [by |-> u, err |-> err, failed |-> failed, wanted |-> custom,
                       keys |-> IF err \/ failed THEN {}
                                ELSE {k \in Items : db[k].there /\ Selects(wanted, db[k].labels)}]
  BY DEF LabelledList
<1>3. Typed' /\ Carries' BY <1>1 DEF Typed, Carries, Own
<1>4. server \in Labels /\ immutable \in Labels BY SetupLabels
<1>5. ASSUME ~listed'.err
      PROVE  /\ \A k \in listed'.keys : db[k].by = "nobody" \/ ~Apart(u, db[k].by)
             /\ \A k \in Items :
                  db[k].by = u /\ u # "nobody" /\ Selects(custom, db[k].labels) /\ ~failed => k \in listed'.keys
  <2> DEFINE asked == Merge(server, custom)
             wanted == Merge(immutable, asked)
  <2>1. Disjoint(server, custom) /\ Disjoint(immutable, asked)
    BY <1>2, <1>5 DEF GenerateLabelSelector
  <2>2. listed'.keys = IF failed THEN {} ELSE {k \in Items : db[k].there /\ Selects(wanted, db[k].labels)}
    BY <1>2, <2>1 DEF GenerateLabelSelector
  <2>3. Own(u) = Merge(server, immutable) BY DEF Own
  <2>4. asked \in Labels BY <1>4, MergeLabels
  <2>5. \A x \in DOMAIN immutable : x \notin DOMAIN asked /\ x \in DOMAIN wanted /\ wanted[x] = immutable[x]
    <3>1. \A x \in DOMAIN immutable : x \notin DOMAIN asked BY <2>1 DEF Disjoint
    <3> QED BY <1>4, <2>4, <3>1, MergeValue
  <2>6. \A x \in DOMAIN custom : x \in DOMAIN asked /\ asked[x] = custom[x] BY <1>4, MergeValue
  <2>7. \A x \in DOMAIN server : x \in DOMAIN asked /\ asked[x] = server[x]
    <3>1. \A x \in DOMAIN server : x \notin DOMAIN custom BY <2>1 DEF Disjoint
    <3> QED BY <1>4, <3>1, MergeValue
  <2>8. \A x \in DOMAIN asked : x \in DOMAIN wanted /\ wanted[x] = asked[x]
    BY <1>4, <2>4, MergeValue
  <2>9. \A x \in DOMAIN Own(u) : x \in DOMAIN wanted /\ wanted[x] = Own(u)[x]
    <3> SUFFICES ASSUME NEW x \in DOMAIN Own(u) PROVE x \in DOMAIN wanted /\ wanted[x] = Own(u)[x]
      OBVIOUS
    <3>1. CASE x \in DOMAIN immutable BY <1>4, <2>3, <2>5, <3>1, MergeValue
    <3>2. CASE x \notin DOMAIN immutable
      <4>1. x \in DOMAIN server /\ Own(u)[x] = server[x] BY <1>4, <2>3, <3>2, MergeValue
      <4> QED BY <2>7, <2>8, <4>1
    <3> QED BY <3>1, <3>2
  <2>10. ASSUME NEW k \in listed'.keys, db[k].by # "nobody" PROVE ~Apart(u, db[k].by)
    <3>1. k \in Items /\ Selects(wanted, db[k].labels) BY <2>2, <2>10
    <3>2. Selects(Own(db[k].by), db[k].labels) BY <2>10, <3>1 DEF Carries
    <3> QED BY <2>9, <3>1, <3>2 DEF Apart, Selects
  <2>11. ASSUME NEW k \in Items, db[k].by = u, u # "nobody", Selects(custom, db[k].labels), ~failed
         PROVE  k \in listed'.keys
    <3>1. db[k].there /\ Selects(Own(u), db[k].labels) BY <2>11 DEF Carries
    <3>2. ASSUME NEW x \in DOMAIN wanted PROVE x \in DOMAIN db[k].labels /\ db[k].labels[x] = wanted[x]
      <4>1. x \in DOMAIN immutable \/ x \in DOMAIN asked BY <1>4, <2>4, MergeValue
      <4>2. x \in DOMAIN asked => x \in DOMAIN server \/ x \in DOMAIN custom BY <1>4, MergeValue
      <4>3. CASE x \in DOMAIN custom BY <2>6, <2>8, <2>11, <4>3 DEF Selects
      <4>4. CASE x \in DOMAIN immutable \/ x \in DOMAIN server
        <5>1. x \in DOMAIN Own(u) BY <1>4, <2>3, <4>4, MergeValue
        <5> QED BY <2>9, <3>1, <5>1 DEF Selects
      <4> QED BY <4>1, <4>2, <4>3, <4>4
    <3>3. Selects(wanted, db[k].labels) BY <3>2 DEF Selects
    <3> QED BY <2>2, <2>11, <3>1, <3>3
  <2> QED BY <2>10, <2>11
<1>6. listed'.by = u /\ listed'.wanted = custom /\ listed'.failed = failed BY <1>2
<1>7. ListScoped'
  <2>1. \A w : Apart(u, w)' = Apart(u, w) BY <1>1 DEF Apart, Own
  <2> QED BY <1>1, <1>5, <1>6, <2>1 DEF ListScoped, Apart, Own
<1> QED BY <1>3, <1>7 DEF LabelInv

LEMMA LabelsInit == LabelInit => LabelInv
<1> SUFFICES ASSUME LabelInit PROVE LabelInv OBVIOUS
<1>1. Free \in [there : BOOLEAN, labels : Labels, by : Owners \cup {"nobody"}] BY NoLabels DEF Free
<1>2. Typed BY <1>1 DEF LabelInit, Typed
<1>3. Carries BY DEF LabelInit, Carries, Free
<1>4. ListScoped BY DEF LabelInit, ListScoped, NoAnswer
<1> QED BY <1>2, <1>3, <1>4 DEF LabelInv

LEMMA LabelsNext == LabelInv /\ [LabelNext]_labelVars => LabelInv'
<1> SUFFICES ASSUME LabelInv, [LabelNext]_labelVars PROVE LabelInv' OBVIOUS
<1> USE DEF LabelInv
<1>1. ASSUME NEW u \in Owners, LabelledCreate(u) PROVE LabelInv'
  <2>1. PICK k \in Items, custom \in Labels, object \in setup[u].enriched :
          Write(u, k, custom, object, db[k].there)
    BY <1>1 DEF LabelledCreate
  <2>2. db[k].there \in BOOLEAN BY DEF Typed
  <2> QED BY <2>1, <2>2, WriteKeeps
<1>2. ASSUME NEW u \in Owners, LabelledUpdate(u) PROVE LabelInv'
  <2>1. PICK k \in Items, custom \in Labels, object \in setup[u].enriched :
          Write(u, k, custom, object, ~db[k].there)
    BY <1>2 DEF LabelledUpdate
  <2>2. (~db[k].there) \in BOOLEAN BY DEF Typed
  <2> QED BY <2>1, <2>2, WriteKeeps
<1>3. ASSUME NEW u \in Owners, LabelledApply(u) PROVE LabelInv'
  BY <1>3, WriteKeeps DEF LabelledApply
<1>4. ASSUME NEW u \in Owners, LabelledDelete(u) PROVE LabelInv'
  <2>1. PICK k \in Items : db' = [db EXCEPT ![k] = Free] BY <1>4 DEF LabelledDelete
  <2>2. setup' = setup /\ listed' = NoAnswer BY <1>4 DEF LabelledDelete
  <2>3. Free \in [there : BOOLEAN, labels : Labels, by : Owners \cup {"nobody"}] BY NoLabels DEF Free
  <2>4. Typed' BY <2>1, <2>2, <2>3 DEF Typed
  <2>5. Carries' BY <2>1, <2>2 DEF Carries, Own, Typed, Free
  <2>6. ListScoped' BY <2>2 DEF ListScoped, NoAnswer
  <2> QED BY <2>4, <2>5, <2>6
<1>5. ASSUME NEW u \in Owners, LabelledList(u) PROVE LabelInv'
  BY <1>5, ListKeeps
<1>6. CASE UNCHANGED labelVars
  BY <1>6 DEF labelVars, Typed, Carries, ListScoped, Apart, Own
<1> QED BY <1>1, <1>2, <1>3, <1>4, <1>5, <1>6 DEF LabelNext

-----------------------------------------------------------------------------
(* Versions of an object.                                                   *)

\* Every update that succeeded was built on a version before the one that is
\* there.
VersionsInv ==
    /\ clock \in Nat /\ rev \in [Keys -> Nat] /\ built \in Seq(Nat)
    /\ rev[TheKey] <= clock
    /\ \A i \in DOMAIN built : built[i] < rev[TheKey]
    /\ NoLostUpdate

\* Where a call can be in the middle of, in which backend.
StepOf(c, s) ==
    /\ s \in {"create", "update"} => req[c].op = "Apply"
    /\ s = "update" => kind \in {"kube", "cached"}
    /\ s = "fallback" => kind = "cached" /\ req[c].op \in {"Read", "List"}
    /\ s = "put" => kind = "s3" /\ req[c].op \in {"Create", "Update"}
    /\ s = "write" => IsFs /\ req[c].op \in {"Create", "Update", "Apply"}

\* A call in progress is one of its client's.
RequestsInv ==
    /\ DOMAIN pc = Clients /\ DOMAIN req = Clients /\ DOMAIN ans = Clients /\ DOMAIN why = Clients
    /\ \A c \in Clients : pc[c] # "idle" => req[c] \in Inputs(c)
    /\ \A c \in Clients : StepOf(c, pc[c])

LEMMA VersionsKept ==
    ASSUME VersionsInv, UNCHANGED <<rev, clock, built>>
    PROVE  VersionsInv'
BY DEF VersionsInv, NoLostUpdate

\* A write gives the object a version of its own, and is noted if it was built
\* on the one before.
LEMMA PutVersions ==
    ASSUME VersionsInv, clock' = clock + 1, rev' = [rev EXCEPT ![TheKey] = clock + 1],
           built' = built \/ built' = Append(built, rev[TheKey])
    PROVE  VersionsInv'
<1>0. /\ clock \in Nat /\ rev \in [Keys -> Nat] /\ built \in Seq(Nat)
      /\ rev[TheKey] <= clock /\ TheKey \in Keys /\ rev[TheKey] \in Nat
  BY BackendsAssumption DEF VersionsInv
<1>1. clock' \in Nat /\ rev' \in [Keys -> Nat] /\ rev'[TheKey] = clock + 1 BY <1>0
<1>2. \A i \in DOMAIN built : built[i] \in Nat /\ built[i] < rev[TheKey]
  <2>1. DOMAIN built = 1..Len(built) /\ \A i \in 1..Len(built) : built[i] \in Nat BY <1>0
  <2> QED BY <2>1 DEF VersionsInv
<1>3. \A i, j \in DOMAIN built : built[i] = built[j] => i = j BY DEF VersionsInv, NoLostUpdate
<1>4. CASE built' = built
  <2>1. \A i \in DOMAIN built' : built'[i] < rev'[TheKey] BY <1>0, <1>1, <1>2, <1>4
  <2>2. NoLostUpdate' BY <1>3, <1>4 DEF NoLostUpdate
  <2> QED BY <1>0, <1>1, <1>4, <2>1, <2>2 DEF VersionsInv
<1>5. CASE built' = Append(built, rev[TheKey])
  <2>1. PICK r \in Nat : r = rev[TheKey] BY <1>0
  <2>2. /\ built' \in Seq(Nat) /\ DOMAIN built' = 1..(Len(built) + 1) /\ DOMAIN built = 1..Len(built)
        /\ built'[Len(built) + 1] = r /\ \A i \in 1..Len(built) : built'[i] = built[i]
    BY <1>0, <1>5, <2>1, AppendProperties
  <2>3. Len(built) \in Nat BY <1>0
  <2>4. \A i \in DOMAIN built' : i \in DOMAIN built \/ i = Len(built) + 1 BY <2>2, <2>3
  <2>5. \A i \in DOMAIN built' : built'[i] < rev'[TheKey] BY <1>0, <1>1, <1>2, <2>1, <2>2, <2>4
  <2>6. ASSUME NEW i \in DOMAIN built', NEW j \in DOMAIN built', built'[i] = built'[j] PROVE i = j
    <3>1. \A k \in DOMAIN built : built'[k] = built[k] /\ built'[k] \in Nat /\ built'[k] < r
      BY <1>2, <2>1, <2>2
    <3>2. CASE i \in DOMAIN built /\ j \in DOMAIN built BY <1>3, <2>6, <3>1, <3>2
    <3>3. CASE i \in DOMAIN built /\ j = Len(built) + 1 BY <2>1, <2>2, <2>6, <3>1, <3>3
    <3>4. CASE i = Len(built) + 1 /\ j \in DOMAIN built BY <2>1, <2>2, <2>6, <3>1, <3>4
    <3> QED BY <2>4, <3>2, <3>3, <3>4
  <2>7. NoLostUpdate' BY <2>6 DEF NoLostUpdate
  <2>8. rev'[TheKey] <= clock' BY <1>1
  <2> QED BY <1>1, <2>2, <2>5, <2>7, <2>8 DEF VersionsInv
<1> QED BY <1>4, <1>5

LEMMA AcceptVersions ==
    ASSUME VersionsInv, NEW c \in Clients, Key(c) = TheKey, NEW v,
           Accept(c, v), built' = built \/ (~IsDry(c) /\ built' = Append(built, rev[TheKey]))
    PROVE  VersionsInv'
<1>1. CASE IsDry(c) BY <1>1, VersionsKept DEF Accept, ApiKeeps
<1>2. CASE ~IsDry(c) BY <1>2, PutVersions DEF Accept, ApiPut
<1> QED BY <1>1, <1>2

\* The API server's create, update and delete.
LEMMA ApiVersions ==
    ASSUME VersionsInv, NEW c \in Clients, Key(c) = TheKey, NEW b,
           \/ ApiCreate(c, b) /\ built' = built
           \/ ApiUpdate(c, b)
           \/ ApiDelete(c) /\ built' = built
    PROVE  VersionsInv'
<1>1. CASE Refuse(c) /\ built' = built BY <1>1, VersionsKept DEF Refuse, ApiKeeps
<1>2. CASE ApiCreate(c, b) /\ built' = built BY <1>1, <1>2, AcceptVersions DEF ApiCreate
<1>3. CASE ApiUpdate(c, b)
  <2>1. CASE map[Key(c)] = Absent \/ (b # 0 /\ b # rev[Key(c)]) BY <1>1, <1>3, <2>1 DEF ApiUpdate
  <2>2. CASE ~(map[Key(c)] = Absent \/ (b # 0 /\ b # rev[Key(c)]))
    <3>1. Accept(c, req[c].val) /\ built' = IF b = 0 \/ IsDry(c) THEN built ELSE Append(built, b)
      BY <1>3, <2>2 DEF ApiUpdate
    <3>2. b = 0 \/ b = rev[TheKey] BY <2>2
    <3> QED BY <3>1, <3>2, AcceptVersions
  <2> QED BY <2>1, <2>2
<1>4. CASE ApiDelete(c) /\ built' = built BY <1>1, <1>4, AcceptVersions DEF ApiDelete
<1> QED BY <1>2, <1>3, <1>4

-----------------------------------------------------------------------------
(* The calls of the backends.                                               *)

\* The call of c goes on.
Moves(c) ==
    \E s : /\ pc' = [pc EXCEPT ![c] = s] /\ req' = req /\ kind' = kind
           /\ DOMAIN ans' = DOMAIN ans /\ DOMAIN why' = DOMAIN why
           /\ pc[c] # "idle" /\ s # "idle"
           /\ StepOf(c, s)

LEMMA MovesKeeps ==
    ASSUME RequestsInv, NEW c \in Clients, Moves(c)
    PROVE  RequestsInv'
BY DEF Moves, RequestsInv, StepOf, IsFs

LEMMA FinishMoves ==
    ASSUME NEW c, NEW a, NEW w, pc[c] # "idle", kind' = kind, Finish(c, a, w)
    PROVE  Moves(c)
<1>1. StepOf(c, "return") BY DEF StepOf
<1>2. /\ pc' = [pc EXCEPT ![c] = "return"] /\ req' = req
      /\ DOMAIN ans' = DOMAIN ans /\ DOMAIN why' = DOMAIN why
  BY DEF Finish
<1> QED BY <1>1, <1>2 DEF Moves

LEMMA ApiMoves ==
    ASSUME NEW c, NEW b, pc[c] # "idle", kind' = kind, ApiCreate(c, b) \/ ApiUpdate(c, b) \/ ApiDelete(c)
    PROVE  Moves(c)
<1>0. Done(c) \/ Fails(c) => Moves(c) BY FinishMoves DEF Done, Fails, FailsFor
<1>1. \A v : Accept(c, v) => Moves(c) BY <1>0 DEF Accept
<1>2. Refuse(c) => Moves(c) BY <1>0 DEF Refuse
<1> QED BY <1>1, <1>2 DEF ApiCreate, ApiUpdate, ApiDelete

\* A call in progress that is no List is about the key.
LEMMA OnTheKey ==
    ASSUME RequestsInv, NEW c \in Clients, pc[c] # "idle", req[c].op # "List"
    PROVE  Key(c) = TheKey
BY DEF RequestsInv, Inputs, Key

\* The actions of Next that leave the versions alone.
OtherAction(c) ==
    \/ FsOpen(c) /\ UNCHANGED <<objectVars, kubeVars>>
    \/ FsApplyCreate(c) /\ UNCHANGED <<objectVars, kubeVars>>
    \/ FsWrite(c) /\ UNCHANGED <<objectVars, kubeVars>>
    \/ FsCrash(c) /\ UNCHANGED <<objectVars, kubeVars>>
    \/ FsRemove(c) /\ UNCHANGED <<objectVars, kubeVars>>
    \/ FsDryRun(c) /\ UNCHANGED <<objectVars, kubeVars>>
    \/ FsRead(c) /\ UNCHANGED <<objectVars, kubeVars>>
    \/ S3Unsupported(c) /\ UNCHANGED kubeVars
    \/ S3Look(c) /\ UNCHANGED kubeVars
    \/ S3Put(c) /\ UNCHANGED kubeVars
    \/ S3Delete(c) /\ UNCHANGED kubeVars
    \/ S3Read(c) /\ UNCHANGED kubeVars
    \/ KubeApply(c) \/ KubeFails(c) \/ KubeRead(c) \/ CachedRead(c) \/ CmRead(c)

LEMMA OtherMoves ==
    ASSUME RequestsInv, NEW c \in Clients, OtherAction(c)
    PROVE  Moves(c) /\ UNCHANGED <<rev, clock, built>>
<1>1. pc[c] # "idle" /\ kind' = kind =>
        /\ Done(c) \/ Fails(c) => Moves(c)
        /\ \A w : FailsFor(c, w) => Moves(c)
        /\ \A s \in {"create", "update", "fallback", "put", "write"} :
              Goto(c, s) /\ StepOf(c, s) => Moves(c)
        /\ \A m : Reads(c, m) => Moves(c)
  <2>1. \A a, w : Finish(c, a, w) /\ pc[c] # "idle" /\ kind' = kind => Moves(c) BY FinishMoves
  <2> QED BY <2>1 DEF Done, Fails, FailsFor, Goto, Reads, Moves
<1>2. UNCHANGED kubeVars => UNCHANGED <<rev, clock, built>> BY DEF kubeVars, apiVars
<1>3. CASE FsOpen(c) /\ UNCHANGED <<objectVars, kubeVars>>
  <2>1. pc[c] # "idle" BY <1>3 DEF FsOpen
  <2>2. Moves(c) BY <1>1, <1>3, <2>1 DEF FsOpen, OpenNew, OpenExisting, OpenForWrite, StepOf
  <2> QED BY <1>2, <1>3, <2>2
<1>4. CASE FsApplyCreate(c) /\ UNCHANGED <<objectVars, kubeVars>>
  BY <1>1, <1>2, <1>4 DEF FsApplyCreate, OpenNew, OpenForWrite, StepOf, RequestsInv
<1>5. CASE (FsWrite(c) \/ FsCrash(c) \/ FsRemove(c) \/ FsDryRun(c) \/ FsRead(c)) /\ UNCHANGED <<objectVars, kubeVars>>
  BY <1>1, <1>2, <1>5 DEF FsWrite, FsCrash, FsRemove, FsDryRun, FsRead
<1>6. CASE (S3Unsupported(c) \/ S3Delete(c) \/ S3Put(c) \/ S3Read(c)) /\ UNCHANGED kubeVars
  BY <1>1, <1>2, <1>6 DEF S3Unsupported, S3Delete, S3Put, S3Changes, S3Read, S3Call
<1>7. CASE S3Look(c) /\ UNCHANGED kubeVars
  BY <1>1, <1>2, <1>7 DEF S3Look, S3Call, StepOf
<1>8. CASE KubeApply(c) BY <1>1, <1>8 DEF KubeApply, KubeCall, StepOf, IsKube
<1>9. CASE KubeFails(c) BY <1>1, <1>2, <1>9 DEF KubeFails
<1>10. CASE KubeRead(c) BY <1>1, <1>10 DEF KubeRead
<1>11. CASE CachedRead(c) BY <1>1, <1>11 DEF CachedRead, StepOf
<1>12. CASE CmRead(c) BY <1>1, <1>2, <1>12 DEF CmRead, CmCall
<1> QED BY <1>3, <1>4, <1>5, <1>6, <1>7, <1>8, <1>9, <1>10, <1>11, <1>12 DEF OtherAction

\* A write of the API server's store, of a resource or of a config map.
LEMMA ApiStep ==
    ASSUME VersionsInv, RequestsInv, NEW c \in Clients,
           \/ KubeCreate(c) \/ KubeUpdate(c) \/ KubeApplyCreate(c) \/ KubeApplyUpdate(c) \/ KubeDelete(c)
           \/ CmWrite(c) \/ CmApply(c) \/ CmApplyCreate(c)
    PROVE  VersionsInv' /\ Moves(c)
<1>1. ASSUME pc[c] # "idle", req[c].op # "List", kind' = kind, NEW b,
             \/ ApiCreate(c, b) /\ built' = built
             \/ ApiUpdate(c, b)
             \/ ApiDelete(c) /\ built' = built
      PROVE  VersionsInv' /\ Moves(c)
  BY <1>1, OnTheKey, ApiVersions, ApiMoves
<1>2. pc[c] \in {"create", "update"} => req[c].op # "List" BY DEF RequestsInv, StepOf
<1>3. CASE KubeCreate(c) BY <1>1, <1>3 DEF KubeCreate, KubeCall
<1>4. CASE KubeUpdate(c) BY <1>1, <1>4 DEF KubeUpdate, KubeCall
<1>5. CASE KubeApplyCreate(c) BY <1>1, <1>2, <1>5 DEF KubeApplyCreate
<1>6. CASE KubeApplyUpdate(c) BY <1>1, <1>2, <1>6 DEF KubeApplyUpdate
<1>7. CASE KubeDelete(c) BY <1>1, <1>7 DEF KubeDelete, KubeCall
<1>8. CASE CmWrite(c)
  <2>1. pc[c] # "idle" /\ kind' = kind /\ req[c].op \in {"Create", "Update", "Delete"} BY <1>8 DEF CmWrite, CmCall
  <2>2. CASE req[c].op = "Create" BY <1>1, <1>8, <2>1, <2>2 DEF CmWrite
  <2>3. CASE req[c].op = "Update" BY <1>1, <1>8, <2>1, <2>3 DEF CmWrite
  <2>4. CASE req[c].op = "Delete" BY <1>1, <1>8, <2>1, <2>4 DEF CmWrite
  <2> QED BY <2>1, <2>2, <2>3, <2>4
<1>9. CASE CmApply(c)
  <2>1. pc[c] # "idle" /\ kind' = kind /\ req[c].op = "Apply" BY <1>9 DEF CmApply, CmCall
  <2>2. CASE map[Key(c)] = Absent
    <3>1. Goto(c, "create") /\ ApiKeeps /\ UNCHANGED built BY <1>9, <2>2 DEF CmApply
    <3>2. StepOf(c, "create") BY <2>1 DEF StepOf
    <3>3. Moves(c) BY <2>1, <3>1, <3>2 DEF Goto, Moves
    <3> QED BY <3>1, <3>3, VersionsKept DEF ApiKeeps
  <2>3. CASE map[Key(c)] # Absent BY <1>1, <1>9, <2>1, <2>3 DEF CmApply
  <2> QED BY <2>2, <2>3
<1>10. CASE CmApplyCreate(c)
  <2>1. pc[c] # "idle" /\ kind' = kind /\ req[c].op # "List" /\ built' = built BY <1>2, <1>10 DEF CmApplyCreate
  <2>2. CASE Refuse(c)
    <3>1. UNCHANGED <<rev, clock, built>> BY <2>1, <2>2 DEF Refuse, ApiKeeps
    <3>2. Refuse(c) => Moves(c) BY <2>1, FinishMoves DEF Refuse, Fails, FailsFor
    <3> QED BY <2>2, <3>1, <3>2, VersionsKept
  <2>3. CASE ApiCreate(c, 0) BY <1>1, <2>1, <2>3
  <2> QED BY <1>10, <2>2, <2>3 DEF CmApplyCreate
<1> QED BY <1>3, <1>4, <1>5, <1>6, <1>7, <1>8, <1>9, <1>10

LEMMA BackendsInit == Init => VersionsInv /\ RequestsInv
<1> SUFFICES ASSUME Init PROVE VersionsInv /\ RequestsInv OBVIOUS
<1>1. VersionsInv
  <2>1. clock = 1 /\ rev = [k \in Keys |-> 1] /\ built = <<>> BY DEF Init, KubeInit
  <2>2. built \in Seq(Nat) /\ DOMAIN built = {} BY <2>1
  <2> QED BY <2>1, <2>2, BackendsAssumption DEF VersionsInv, NoLostUpdate
<1>2. RequestsInv BY DEF Init, BackendInit, RequestsInv, StepOf
<1> QED BY <1>1, <1>2

LEMMA BackendsNext == VersionsInv /\ RequestsInv /\ [Next]_vars => VersionsInv' /\ RequestsInv'
<1> SUFFICES ASSUME VersionsInv, RequestsInv, [Next]_vars PROVE VersionsInv' /\ RequestsInv' OBVIOUS
<1>1. ASSUME NEW c \in Clients, NEW r \in Inputs(c), Call(c, r), UNCHANGED kubeVars
      PROVE  VersionsInv' /\ RequestsInv'
  <2>1. RequestsInv' BY <1>1 DEF Call, RequestsInv, Inputs, StepOf, IsFs
  <2> QED BY <1>1, <2>1, VersionsKept DEF kubeVars, apiVars
<1>2. ASSUME NEW c \in Clients, Return(c), UNCHANGED kubeVars PROVE VersionsInv' /\ RequestsInv'
  <2>1. RequestsInv' BY <1>2 DEF Return, RequestsInv, Inputs, StepOf, IsFs
  <2> QED BY <1>2, <2>1, VersionsKept DEF kubeVars, apiVars
<1>3. ASSUME NEW c \in Clients, OtherAction(c) PROVE VersionsInv' /\ RequestsInv'
  BY <1>3, OtherMoves, VersionsKept, MovesKeeps
<1>4. ASSUME Deliver PROVE VersionsInv' /\ RequestsInv'
  BY <1>4, VersionsKept DEF Deliver, baseVars, callVars, apiVars, RequestsInv, Inputs, StepOf, IsFs
<1>5. CASE UNCHANGED vars
  BY <1>5, VersionsKept DEF vars, baseVars, callVars, kubeVars, apiVars, RequestsInv, Inputs, StepOf, IsFs
<1> QED BY <1>1, <1>2, <1>3, <1>4, <1>5, ApiStep, MovesKeeps DEF Next, OtherAction

-----------------------------------------------------------------------------
(* What a Create has found.                                                 *)

\* Between its look and its put, a Create of s3 has found nothing, or its look
\* has failed, or others have written since.
LookInv ==
    \A c \in Clients :
        pc[c] = "put" /\ req[c].op = "Create" => map[TheKey] = Absent \/ c \in blind \cup raced

\* A Create that takes effect in this step replaces nothing.
Keeps(c) ==
    /\ req[c].op = "Create" /\ req[c].opt # "dryRun"
    /\ \/ pc[c] # "write" /\ pc'[c] = "write"
       \/ ~IsFs /\ pc[c] # "return" /\ pc'[c] = "return" /\ (~ans'[c].err \/ map' # map)
    => map[Key(c)] = Absent \/ (kind = "s3" /\ c \in blind \cup raced)

\* A call that fails, and the steps of the others, leave a Create alone.
LEMMA Failing ==
    ASSUME RequestsInv, NEW c \in Clients, NEW w, FailsFor(c, w)
    PROVE  pc'[c] = "return" /\ ans'[c].err /\ why'[c] = w
<1>1. /\ pc' = [pc EXCEPT ![c] = "return"] /\ ans' = [ans EXCEPT ![c] = Error]
      /\ why' = [why EXCEPT ![c] = w]
  BY DEF FailsFor, Finish
<1>2. Error.err BY DEF Error
<1> QED BY <1>1, <1>2 DEF RequestsInv

LEMMA OthersKeep ==
    ASSUME RequestsInv, NEW d \in Clients, Moves(d), Keeps(d)
    PROVE  \A c \in Clients : Keeps(c)
<1>1. \A c \in Clients \ {d} : pc'[c] = pc[c] BY DEF Moves, RequestsInv
<1> QED BY <1>1 DEF Keeps

\* A step after which nobody new is about to put, of a backend that is not s3
\* or that leaves the objects alone.
LEMMA LookStays ==
    ASSUME RequestsInv', LookInv, kind' = kind,
           \A c \in Clients : pc'[c] = "put" => pc[c] = "put" /\ req'[c] = req[c],
           kind = "s3" => UNCHANGED <<map, blind, raced>>
    PROVE  LookInv'
<1> SUFFICES ASSUME NEW c \in Clients, pc'[c] = "put", req'[c].op = "Create"
             PROVE  map'[TheKey] = Absent \/ c \in blind' \cup raced'
  BY DEF LookInv
<1>1. kind = "s3" BY DEF RequestsInv, StepOf
<1> QED BY <1>1 DEF LookInv

\* The file store: a file is opened under O_EXCL (fs.go, Create).
LEMMA FilesKeep ==
    ASSUME RequestsInv, RequestsInv', LookInv, NEW c \in Clients,
           \/ FsOpen(c) \/ FsApplyCreate(c) \/ FsWrite(c) \/ FsCrash(c) \/ FsRemove(c)
           \/ FsDryRun(c) \/ FsRead(c)
    PROVE  Keeps(c) /\ LookInv'
<1>1. IsFs
  <2>1. CASE FsWrite(c) BY <2>1 DEF FsWrite, RequestsInv, StepOf
  <2>2. CASE FsCrash(c) BY <2>2 DEF FsCrash, IsFs
  <2> QED BY <2>1, <2>2 DEF FsOpen, FsApplyCreate, FsRemove, FsDryRun, FsRead
<1>2. LookInv'
  <2>1. kind' = kind BY DEF FsOpen, FsApplyCreate, FsWrite, FsCrash, FsRemove, FsDryRun, FsRead
  <2>2. kind # "s3" BY <1>1 DEF IsFs
  <2>3. \A d \in Clients : pc'[d] # "put" BY <2>1, <2>2 DEF RequestsInv, StepOf
  <2> QED BY <2>3 DEF LookInv
<1>3. Keeps(c)
  <2> SUFFICES ASSUME req[c].op = "Create", pc[c] # "write", pc'[c] = "write" PROVE map[Key(c)] = Absent
    BY <1>1 DEF Keeps
  <2>1. \A a, w : Finish(c, a, w) => pc'[c] = "return" BY DEF Finish, RequestsInv
  <2>2. ~Done(c) /\ ~Fails(c) /\ \A w : ~FailsFor(c, w) BY <2>1 DEF Done, Fails, FailsFor
  <2>3. ~Reads(c, map) BY <2>1, <2>2 DEF Reads
  <2>4. CASE FsOpen(c) BY <2>2, <2>4 DEF FsOpen, OpenNew
  <2>5. CASE FsApplyCreate(c) BY <2>5 DEF FsApplyCreate, RequestsInv, StepOf
  <2> QED BY <2>2, <2>3, <2>4, <2>5 DEF FsWrite, FsCrash, FsRemove, FsDryRun, FsRead
<1> QED BY <1>2, <1>3

\* s3 (s3.go, Create): its look, its put, and what may come between.
LEMMA ObjectsKeep ==
    ASSUME RequestsInv, RequestsInv', LookInv, NEW c \in Clients,
           S3Unsupported(c) \/ S3Look(c) \/ S3Put(c) \/ S3Delete(c) \/ S3Read(c)
    PROVE  Keeps(c) /\ LookInv'
<1>1. kind = "s3" /\ kind' = kind /\ req' = req
  <2>1. kind = "s3"
    BY DEF S3Unsupported, S3Look, S3Put, S3Delete, S3Read, S3Call, RequestsInv, StepOf
  <2>2. kind' = kind BY DEF S3Unsupported, S3Look, S3Put, S3Delete, S3Read
  <2>3. req' = req
    BY DEF S3Unsupported, S3Look, S3Put, S3Delete, S3Changes, S3Read, Fails, FailsFor, Done, Reads,
           Finish, Goto
  <2> QED BY <2>1, <2>2, <2>3
<1>2. ~IsFs BY <1>1 DEF IsFs
<1>3. /\ \A a, w : Finish(c, a, w) => pc' = [pc EXCEPT ![c] = "return"]
      /\ \A s : Goto(c, s) => pc' = [pc EXCEPT ![c] = s]
  BY DEF Finish, Goto
<1>4. CASE S3Unsupported(c)
  <2>1. FailsFor(c, "option") /\ UNCHANGED <<map, blind, raced>> BY <1>4 DEF S3Unsupported, objectVars
  <2>2. pc' = [pc EXCEPT ![c] = "return"] BY <1>3, <2>1 DEF FailsFor
  <2>3. \A d \in Clients : pc'[d] = "put" => pc[d] = "put" BY <2>2 DEF RequestsInv
  <2>4. LookInv' BY <1>1, <2>1, <2>3, LookStays
  <2>5. pc'[c] = "return" /\ ans'[c].err BY <2>1, Failing
  <2> QED BY <2>1, <2>4, <2>5 DEF Keeps
<1>5. CASE S3Look(c)
  <2>1. PICK failed \in BOOLEAN :
          /\ IF (map[Key(c)] # Absent /\ ~failed) <=> req[c].op = "Update"
             THEN Goto(c, "put") ELSE Fails(c)
          /\ blind' = IF failed THEN blind \cup {c} ELSE blind \ {c}
    BY <1>5 DEF S3Look
  <2>2. map' = map /\ raced' = raced \ {c} BY <1>5 DEF S3Look
  <2>3. pc[c] # "idle" /\ req[c].op \in {"Create", "Update"} BY <1>5 DEF S3Look, S3Call
  <2>4. Key(c) = TheKey BY <2>3, OnTheKey
  <2>5. pc' = [pc EXCEPT ![c] = "put"] \/ (pc' = [pc EXCEPT ![c] = "return"] /\ Fails(c))
    BY <1>3, <2>1 DEF Fails, FailsFor
  <2>6. LookInv'
    <3> SUFFICES ASSUME NEW d \in Clients, pc'[d] = "put", req[d].op = "Create"
                 PROVE  map[TheKey] = Absent \/ d \in blind' \cup raced'
      BY <1>1, <2>2 DEF LookInv
    <3>1. CASE d # c
      <4>1. pc[d] = "put" BY <2>5, <3>1 DEF RequestsInv
      <4> QED BY <2>1, <2>2, <3>1, <4>1 DEF LookInv
    <3>2. CASE d = c
      <4>1. ~Fails(c) BY <3>2, Failing DEF Fails
      <4>2. ~(map[TheKey] # Absent /\ ~failed) BY <2>1, <2>4, <3>2, <4>1
      <4> QED BY <2>1, <3>2, <4>2
    <3> QED BY <3>1, <3>2
  <2>7. Keeps(c)
    <3>1. CASE Fails(c) BY <2>2, <3>1, Failing DEF Keeps, Fails
    <3>2. CASE pc' = [pc EXCEPT ![c] = "put"]
      <4>1. pc'[c] = "put" BY <3>2 DEF RequestsInv
      <4> QED BY <4>1 DEF Keeps
    <3> QED BY <2>5, <3>1, <3>2
  <2> QED BY <2>6, <2>7
<1>6. ASSUME pc[c] # "idle", req[c].op # "List", NEW v, S3Changes(c, v), blind' = blind
      PROVE  LookInv'
  <2>1. pc' = [pc EXCEPT ![c] = "return"] BY <1>3, <1>6 DEF S3Changes, Done, Fails, FailsFor
  <2> SUFFICES ASSUME NEW d \in Clients, pc'[d] = "put", req[d].op = "Create"
               PROVE  map'[TheKey] = Absent \/ d \in blind' \cup raced'
    BY <1>1 DEF LookInv
  <2>2. d # c /\ pc[d] = "put" BY <2>1 DEF RequestsInv
  <2>3. Key(c) = TheKey /\ Key(d) = TheKey BY <1>6, <2>2, OnTheKey
  <2>4. CASE raced' = raced \cup Overtaken(c) BY <2>2, <2>3, <2>4 DEF Overtaken
  <2>5. CASE UNCHANGED <<map, raced>> BY <1>6, <2>2, <2>5 DEF LookInv
  <2> QED BY <1>6, <2>4, <2>5 DEF S3Changes
<1>7. CASE S3Put(c)
  <2>1. /\ pc[c] = "put" \/ (pc[c] = "called" /\ req[c].op = "Apply")
        /\ S3Changes(c, req[c].val) /\ blind' = blind
    BY <1>7 DEF S3Put, S3Call
  <2>2. pc[c] # "idle" /\ req[c].op # "List" BY <2>1 DEF RequestsInv, StepOf
  <2>3. LookInv' BY <1>6, <2>1, <2>2
  <2>4. Key(c) = TheKey BY <2>2, OnTheKey
  <2>5. req[c].op = "Create" => map[Key(c)] = Absent \/ c \in blind \cup raced
    BY <2>1, <2>4 DEF LookInv
  <2> QED BY <1>1, <2>3, <2>5 DEF Keeps
<1>8. CASE S3Delete(c)
  <2>1. pc[c] = "called" /\ req[c].op = "Delete" /\ S3Changes(c, Absent) /\ blind' = blind
    BY <1>8 DEF S3Delete, S3Call
  <2>2. LookInv' BY <1>6, <2>1
  <2> QED BY <2>1, <2>2 DEF Keeps
<1>9. CASE S3Read(c)
  <2>1. UNCHANGED <<map, blind, raced>> /\ req[c].op \in {"Read", "List"} BY <1>9 DEF S3Read, S3Call, objectVars
  <2>2. pc' = [pc EXCEPT ![c] = "return"] BY <1>3, <1>9 DEF S3Read, Reads, FailsFor
  <2>3. \A d \in Clients : pc'[d] = "put" => pc[d] = "put" BY <2>2 DEF RequestsInv
  <2>4. LookInv' BY <1>1, <2>1, <2>3, LookStays
  <2> QED BY <2>1, <2>4 DEF Keeps
<1> QED BY <1>4, <1>5, <1>7, <1>8, <1>9

\* The API server's clients: its Create refuses what is there.
LEMMA ResourcesKeep ==
    ASSUME RequestsInv, RequestsInv', LookInv, NEW c \in Clients,
           \/ KubeCreate(c) \/ KubeUpdate(c) \/ KubeApply(c) \/ KubeApplyCreate(c)
           \/ KubeApplyUpdate(c) \/ KubeDelete(c) \/ KubeFails(c) \/ KubeRead(c)
           \/ CachedRead(c) \/ CmWrite(c) \/ CmApply(c) \/ CmApplyCreate(c) \/ CmRead(c)
    PROVE  Keeps(c) /\ LookInv'
<1>1. kind' = kind
  BY DEF KubeCreate, KubeUpdate, KubeApply, KubeApplyCreate, KubeApplyUpdate, KubeDelete,
         KubeFails, KubeRead, CachedRead, CmWrite, CmApply, CmApplyCreate, CmRead
<1>2. ASSUME kind # "s3" PROVE LookInv'
  BY <1>1, <1>2 DEF LookInv, RequestsInv, StepOf
<1>3. ASSUME pc[c] = "create" \/ pc[c] = "update" PROVE req[c].op # "Create"
  BY <1>3 DEF RequestsInv, StepOf
<1>4. ASSUME req[c].op # "Create" PROVE Keeps(c)
  BY <1>4 DEF Keeps
<1>5. CASE KubeCreate(c) \/ CmWrite(c)
  <2>1. kind # "s3" /\ ~IsFs BY <1>5 DEF KubeCreate, CmWrite, KubeCall, CmCall, IsKube, IsFs
  <2>2. ASSUME req[c].op = "Create" PROVE Keeps(c)
    <3>1. PICK b : ApiCreate(c, b) BY <1>5, <2>2 DEF KubeCreate, CmWrite
    <3>2. CASE Refuse(c) BY <3>2, Failing DEF Keeps, Refuse, Fails, ApiKeeps
    <3>3. CASE map[Key(c)] = Absent BY <3>3 DEF Keeps
    <3> QED BY <3>1, <3>2, <3>3 DEF ApiCreate
  <2> QED BY <1>2, <1>4, <2>1, <2>2
<1>6. CASE \/ KubeUpdate(c) \/ KubeApply(c) \/ KubeApplyCreate(c) \/ KubeApplyUpdate(c)
           \/ KubeDelete(c) \/ CmApply(c) \/ CmApplyCreate(c) \/ CmRead(c) \/ CachedRead(c)
  <2>1. kind # "s3"
    BY <1>6 DEF KubeUpdate, KubeApply, KubeApplyCreate, KubeApplyUpdate, KubeDelete, CmApply,
                CmApplyCreate, CmRead, CachedRead, KubeCall, CmCall, IsKube
  <2>2. req[c].op # "Create"
    BY <1>3, <1>6 DEF KubeUpdate, KubeApply, KubeApplyCreate, KubeApplyUpdate, KubeDelete, CmApply,
                      CmApplyCreate, CmRead, CachedRead, KubeCall, CmCall
  <2> QED BY <1>2, <1>4, <2>1, <2>2
<1>7. CASE KubeFails(c)
  <2>1. Fails(c) /\ UNCHANGED <<map, blind, raced>> BY <1>7 DEF KubeFails, objectVars
  <2>2. Keeps(c) BY <2>1, Failing DEF Keeps, Fails
  <2>3. pc' = [pc EXCEPT ![c] = "return"] /\ req' = req BY <2>1 DEF Fails, FailsFor, Finish
  <2>4. \A d \in Clients : pc'[d] = "put" => pc[d] = "put" /\ req'[d] = req[d] BY <2>3 DEF RequestsInv
  <2>5. LookInv' BY <1>1, <2>1, <2>4, LookStays
  <2> QED BY <2>2, <2>5
<1>8. CASE KubeRead(c)
  <2>1. req[c].op \in {"Read", "List"} BY <1>8 DEF KubeRead, RequestsInv, StepOf
  <2>2. UNCHANGED <<map, blind, raced>> BY <1>8 DEF KubeRead, objectVars
  <2>3. pc' = [pc EXCEPT ![c] = "return"] /\ req' = req BY <1>8 DEF KubeRead, Reads, FailsFor, Finish
  <2>4. \A d \in Clients : pc'[d] = "put" => pc[d] = "put" /\ req'[d] = req[d] BY <2>3 DEF RequestsInv
  <2>5. LookInv' BY <1>1, <2>2, <2>4, LookStays
  <2> QED BY <1>4, <2>1, <2>5
<1> QED BY <1>5, <1>6, <1>7, <1>8

LEMMA CreatesInit == Init => LookInv
<1> SUFFICES ASSUME Init PROVE LookInv OBVIOUS
<1>1. \A c \in Clients : pc[c] = "idle" BY DEF Init, BackendInit
<1> QED BY <1>1 DEF LookInv

LEMMA CreatesNext ==
    ASSUME VersionsInv, RequestsInv, RequestsInv', LookInv, [Next]_vars
    PROVE  LookInv' /\ [\A c \in Clients : Keeps(c)]_vars
<1>1. ASSUME NEW c \in Clients, NEW r \in Inputs(c), Call(c, r), UNCHANGED <<fileVars, objectVars, kubeVars>>
      PROVE  LookInv' /\ \A d \in Clients : Keeps(d)
  <2>1. /\ pc' = [pc EXCEPT ![c] = "called"] /\ req' = [req EXCEPT ![c] = r]
        /\ UNCHANGED <<kind, map, blind, raced>>
    BY <1>1 DEF Call, objectVars
  <2>2. /\ pc'[c] = "called"
        /\ \A d \in Clients \ {c} : pc'[d] = pc[d] /\ req'[d] = req[d]
    BY <2>1 DEF RequestsInv
  <2>3. LookInv' BY <2>1, <2>2, LookStays
  <2> QED BY <2>2, <2>3 DEF Keeps
<1>2. ASSUME NEW c \in Clients, Return(c), UNCHANGED <<fileVars, objectVars, kubeVars>>
      PROVE  LookInv' /\ \A d \in Clients : Keeps(d)
  <2>1. /\ pc' = [pc EXCEPT ![c] = "idle"] /\ req' = [req EXCEPT ![c] = NoRequest]
        /\ UNCHANGED <<kind, map, blind, raced>>
    BY <1>2 DEF Return, objectVars
  <2>2. /\ pc'[c] = "idle"
        /\ \A d \in Clients \ {c} : pc'[d] = pc[d] /\ req'[d] = req[d]
    BY <2>1 DEF RequestsInv
  <2>3. LookInv' BY <2>1, <2>2, LookStays
  <2> QED BY <2>2, <2>3 DEF Keeps
<1>3. ASSUME NEW c \in Clients, Moves(c), Keeps(c), LookInv'
      PROVE  LookInv' /\ \A d \in Clients : Keeps(d)
  BY <1>3, OthersKeep
<1>4. ASSUME NEW c \in Clients,
             \/ (FsOpen(c) \/ FsApplyCreate(c) \/ FsWrite(c) \/ FsCrash(c) \/ FsRemove(c)
                 \/ FsDryRun(c) \/ FsRead(c)) /\ UNCHANGED <<objectVars, kubeVars>>
             \/ (S3Unsupported(c) \/ S3Look(c) \/ S3Put(c) \/ S3Delete(c) \/ S3Read(c))
                /\ UNCHANGED kubeVars
      PROVE  LookInv' /\ \A d \in Clients : Keeps(d)
  <2>1. Moves(c) BY <1>4, OtherMoves DEF OtherAction
  <2>2. Keeps(c) /\ LookInv' BY <1>4, FilesKeep, ObjectsKeep
  <2> QED BY <1>3, <2>1, <2>2
<1>5. ASSUME NEW c \in Clients,
             \/ KubeCreate(c) \/ KubeUpdate(c) \/ KubeApply(c) \/ KubeApplyCreate(c)
             \/ KubeApplyUpdate(c) \/ KubeDelete(c) \/ KubeFails(c) \/ KubeRead(c)
             \/ CachedRead(c) \/ CmWrite(c) \/ CmApply(c) \/ CmApplyCreate(c) \/ CmRead(c)
      PROVE  LookInv' /\ \A d \in Clients : Keeps(d)
  <2>1. Moves(c) BY <1>5, OtherMoves, ApiStep DEF OtherAction
  <2>2. Keeps(c) /\ LookInv' BY <1>5, ResourcesKeep
  <2> QED BY <1>3, <2>1, <2>2
<1>6. CASE Deliver
  BY <1>6 DEF Deliver, baseVars, callVars, objectVars, LookInv, Keeps
<1>7. CASE UNCHANGED vars
  BY <1>7 DEF vars, baseVars, callVars, objectVars, LookInv
<1> QED BY <1>1, <1>2, <1>4, <1>5, <1>6, <1>7 DEF Next

-----------------------------------------------------------------------------
(* Prefixes of keys.                                                        *)

\* A store finds what begins with its prefix, and shows the rest as the key
\* (WithPrefix, TrimPrefix).
LEMMA PrefixOfConcat ==
    ASSUME NEW p \in Seq(STRING), NEW k \in Seq(STRING)
    PROVE  /\ p \o k \in Seq(STRING)
           /\ IsPrefix(p, p \o k)
           /\ SubSeq(p \o k, Len(p) + 1, Len(p \o k)) = k
<1> DEFINE w == p \o k
<1>1. /\ w \in Seq(STRING) /\ Len(w) = Len(p) + Len(k) /\ Len(p) \in Nat /\ Len(k) \in Nat
      /\ \A i \in 1..(Len(p) + Len(k)) : w[i] = IF i <= Len(p) THEN p[i] ELSE k[i - Len(p)]
  BY ConcatProperties, LenProperties
<1>2. IsPrefix(p, w)
  <2>1. SubSeq(p, 1, Len(p)) = p BY SubSeqFull
  <2>2. \A i \in 1..Len(p) : w[i] \in STRING BY <1>1
  <2>3. /\ SubSeq(w, 1, Len(p)) \in Seq(STRING) /\ Len(SubSeq(w, 1, Len(p))) = Len(p)
        /\ \A i \in 1..Len(p) : SubSeq(w, 1, Len(p))[i] = w[i]
    BY <1>1, <2>2, SubSeqProperties
  <2>4. SubSeq(w, 1, Len(p)) = p BY <1>1, <2>3, SeqEqual
  <2> QED BY <1>1, <2>1, <2>4 DEF IsPrefix
<1>3. SubSeq(w, Len(p) + 1, Len(w)) = k
  <2> DEFINE s == SubSeq(w, Len(p) + 1, Len(w))
  <2>1. \A i \in (Len(p) + 1)..Len(w) : w[i] \in STRING BY <1>1
  <2>2. /\ s \in Seq(STRING)
        /\ Len(s) = IF Len(p) + 1 <= Len(w) THEN Len(w) - (Len(p) + 1) + 1 ELSE 0
        /\ \A i \in 1..(Len(w) - (Len(p) + 1) + 1) : s[i] = w[Len(p) + 1 + i - 1]
    BY <1>1, <2>1, SubSeqProperties
  <2>3. Len(s) = Len(k) BY <1>1, <2>2
  <2>4. \A i \in 1..Len(k) : s[i] = k[i]
    <3> SUFFICES ASSUME NEW i \in 1..Len(k) PROVE s[i] = k[i] OBVIOUS
    <3>1. i \in 1..(Len(w) - (Len(p) + 1) + 1) /\ Len(p) + 1 + i - 1 = Len(p) + i BY <1>1
    <3>2. s[i] = w[Len(p) + i] BY <2>2, <3>1
    <3>3. w[Len(p) + i] = k[Len(p) + i - Len(p)] /\ Len(p) + i - Len(p) = i BY <1>1
    <3> QED BY <3>2, <3>3
  <2> HIDE DEF s
  <2> QED BY <2>2, <2>3, <2>4, SeqEqual DEF s
<1> QED BY <1>1, <1>2, <1>3

\* A prefix is the beginning.
LEMMA PrefixMeans ==
    ASSUME NEW s \in Seq(STRING), NEW w \in Seq(STRING)
    PROVE  IsPrefix(s, w) <=> Len(s) <= Len(w) /\ \A i \in 1..Len(s) : s[i] = w[i]
<1>1. Len(s) \in Nat /\ Len(w) \in Nat BY LenProperties
<1>2. SubSeq(s, 1, Len(s)) = s BY SubSeqFull
<1>3. ASSUME Len(s) <= Len(w)
      PROVE  SubSeq(w, 1, Len(s)) = s <=> \A i \in 1..Len(s) : s[i] = w[i]
  <2>1. \A i \in 1..Len(s) : w[i] \in STRING BY <1>1, <1>3
  <2>2. /\ SubSeq(w, 1, Len(s)) \in Seq(STRING) /\ Len(SubSeq(w, 1, Len(s))) = Len(s)
        /\ \A i \in 1..Len(s) : SubSeq(w, 1, Len(s))[i] = w[i]
    BY <1>1, <2>1, SubSeqProperties
  <2>3. ASSUME \A i \in 1..Len(s) : s[i] = w[i] PROVE SubSeq(w, 1, Len(s)) = s
    BY <2>2, <2>3, SeqEqual
  <2>4. ASSUME SubSeq(w, 1, Len(s)) = s PROVE \A i \in 1..Len(s) : s[i] = w[i]
    BY <2>2, <2>4
  <2> QED BY <2>3, <2>4
<1> QED BY <1>2, <1>3 DEF IsPrefix

\* Of two that begin the same key, one begins the other.
LEMMA PrefixesNest ==
    ASSUME NEW s \in Seq(STRING), NEW t \in Seq(STRING), NEW w \in Seq(STRING),
           IsPrefix(s, w), IsPrefix(t, w)
    PROVE  IsPrefix(s, t) \/ IsPrefix(t, s)
<1>1. \A i \in 1..Len(s) : s[i] = w[i] BY PrefixMeans
<1>2. \A i \in 1..Len(t) : t[i] = w[i] BY PrefixMeans
<1>3. Len(s) \in Nat /\ Len(t) \in Nat BY LenProperties
<1>4. CASE Len(s) <= Len(t) BY <1>1, <1>2, <1>3, <1>4, PrefixMeans
<1>5. CASE Len(t) <= Len(s) BY <1>1, <1>2, <1>3, <1>5, PrefixMeans
<1> QED BY <1>3, <1>4, <1>5

-----------------------------------------------------------------------------
(* The stores with prefixes.                                                *)

\* What is in the database was let through by the stack of the store that wrote
\* it, under a key of its own.
EntriesInv ==
    /\ stack \in [Tenants -> Stacks]
    /\ \A e \in entries :
          /\ e.by \in Tenants
          /\ \E k \in Names : e.key = FullKey(e.by, k) /\ ~Turned(e.by, k, e.value)

PrefixInv == EntriesInv /\ PrefixScoped

LEMMA KeysAreSequences ==
    ASSUME EntriesInv
    PROVE  /\ \A t \in Tenants : stack[t].prefix \in Seq(STRING)
           /\ \A k \in Names : k \in Seq(STRING)
<1>1. \A t \in Tenants : stack[t].prefix \in Seq(STRING)
  <2> SUFFICES ASSUME NEW t \in Tenants PROVE stack[t].prefix \in Seq(STRING) OBVIOUS
  <2>1. stack[t] \in Stacks BY DEF EntriesInv
  <2>2. stack[t] \in [prefix : Seq(STRING), named : {"above", "below", "no"}, validating : BOOLEAN]
    BY <2>1, PrefixStoreAssumption
  <2> QED BY <2>2
<1>2. \A k \in Names : k \in Seq(STRING) BY PrefixStoreAssumption
<1> QED BY <1>1, <1>2

\* What a store's own key comes to and back.
LEMMA OwnKey ==
    ASSUME EntriesInv, NEW t \in Tenants, NEW k \in Names
    PROVE  /\ FullKey(t, k) \in Seq(STRING)
           /\ IsPrefix(stack[t].prefix, FullKey(t, k))
           /\ Strip(t, FullKey(t, k)) = k
BY KeysAreSequences, PrefixOfConcat DEF FullKey, Strip

LEMMA WriteThroughKeeps ==
    ASSUME PrefixInv, NEW t \in Tenants, NEW k \in Names, NEW v, NEW refused,
           WriteThrough(t, k, v, refused)
    PROVE  PrefixInv'
<1>1. stack' = stack /\ shown' = Nothing BY DEF WriteThrough
<1>2. PrefixScoped' BY <1>1 DEF PrefixScoped, Nothing
<1>3. EntriesInv'
  <2> SUFFICES ASSUME NEW e \in entries'
               PROVE  /\ e.by \in Tenants
                      /\ \E i \in Names : e.key = FullKey(e.by, i) /\ ~Turned(e.by, i, e.value)
    BY <1>1 DEF PrefixInv, EntriesInv, FullKey, Turned, Misnamed
  <2>1. CASE e \in entries BY <2>1 DEF PrefixInv, EntriesInv
  <2>2. CASE e \notin entries
    <3>1. ~Turned(t, k, v) /\ e = [key |-> FullKey(t, k), value |-> v, by |-> t]
      BY <2>2 DEF WriteThrough
    <3> QED BY <3>1
  <2> QED BY <2>1, <2>2
<1> QED BY <1>2, <1>3 DEF PrefixInv

LEMMA PrefixListKeeps ==
    ASSUME PrefixInv, NEW t \in Tenants, PrefixList(t)
    PROVE  PrefixInv'
<1>0. EntriesInv BY DEF PrefixInv
<1> DEFINE mine == {e \in entries : IsPrefix(stack[t].prefix, e.key)}
           items == {[key |-> Strip(t, e.key), value |-> e.value] : e \in mine}
           own == {x \in Names \X entries : x[2].by = t /\ x[2].key = FullKey(t, x[1])}
           wanted == {[key |-> x[1], value |-> x[2].value] : x \in own}
<1>1. UNCHANGED <<stack, entries>> /\ shown' \in {Nothing, [by |-> t, items |-> items]}
  BY DEF PrefixList
<1>2. EntriesInv' BY <1>0, <1>1 DEF EntriesInv, FullKey, Turned, Misnamed
<1>3. ASSUME \A u, w \in Tenants : Separate(u, w)
      PROVE  items = wanted /\ \A i \in wanted : ~Turned(t, i.key, i.value)
  <2>1. ASSUME NEW e \in mine PROVE e.by = t
    <3>1. PICK k \in Names : e.key = FullKey(e.by, k) BY <1>0 DEF EntriesInv
    <3>2. e.by \in Tenants /\ e \in entries BY <1>0 DEF EntriesInv
    <3>3. IsPrefix(stack[e.by].prefix, e.key) /\ e.key \in Seq(STRING) BY <1>0, <3>1, <3>2, OwnKey
    <3>4. IsPrefix(stack[t].prefix, e.key) OBVIOUS
    <3>5. stack[t].prefix \in Seq(STRING) /\ stack[e.by].prefix \in Seq(STRING)
      BY <1>0, <3>2, KeysAreSequences
    <3>6. IsPrefix(stack[t].prefix, stack[e.by].prefix) \/ IsPrefix(stack[e.by].prefix, stack[t].prefix)
      BY <3>3, <3>4, <3>5, PrefixesNest
    <3>7. Separate(t, e.by) BY <1>3, <3>2
    <3> QED BY <3>6, <3>7 DEF Separate
  <2>2. ASSUME NEW e \in mine
        PROVE  \E k \in Names : <<k, e>> \in own /\ Strip(t, e.key) = k
    <3>1. e \in entries /\ e.by = t BY <2>1
    <3>2. PICK k \in Names : e.key = FullKey(t, k) BY <1>0, <3>1 DEF EntriesInv
    <3>3. Strip(t, e.key) = k BY <1>0, <3>2, OwnKey
    <3> QED BY <3>1, <3>2, <3>3
  <2>3. ASSUME NEW x \in own
        PROVE  /\ x[1] \in Names /\ x[2] \in mine /\ Strip(t, x[2].key) = x[1]
               /\ ~Turned(t, x[1], x[2].value)
    <3>1. x[1] \in Names /\ x[2] \in entries /\ x[2].by = t /\ x[2].key = FullKey(t, x[1]) OBVIOUS
    <3>2. IsPrefix(stack[t].prefix, x[2].key) /\ Strip(t, x[2].key) = x[1] BY <1>0, <3>1, OwnKey
    <3>3. PICK k \in Names : x[2].key = FullKey(t, k) /\ ~Turned(t, k, x[2].value)
      BY <1>0, <3>1 DEF EntriesInv
    <3>4. k = x[1] BY <1>0, <3>1, <3>2, <3>3, OwnKey
    <3> QED BY <3>1, <3>2, <3>3, <3>4
  <2>4. ASSUME NEW i \in items PROVE i \in wanted
    <3>1. PICK e \in mine : i = [key |-> Strip(t, e.key), value |-> e.value] OBVIOUS
    <3>2. PICK k \in Names : <<k, e>> \in own /\ Strip(t, e.key) = k BY <2>2
    <3>3. PICK x \in own : x = <<k, e>> BY <3>2
    <3>4. x[1] = k /\ x[2] = e BY <3>3
    <3>5. i = [key |-> x[1], value |-> x[2].value] BY <3>1, <3>2, <3>4
    <3> QED BY <3>5
  <2>5. ASSUME NEW i \in wanted PROVE i \in items /\ ~Turned(t, i.key, i.value)
    <3>1. PICK x \in own : i = [key |-> x[1], value |-> x[2].value] OBVIOUS
    <3>2. x[2] \in mine /\ Strip(t, x[2].key) = x[1] /\ ~Turned(t, x[1], x[2].value) BY <2>3
    <3>3. i = [key |-> Strip(t, x[2].key), value |-> x[2].value] BY <3>1, <3>2
    <3>4. i \in items BY <3>2, <3>3
    <3>5. i.key = x[1] /\ i.value = x[2].value BY <3>1
    <3> QED BY <3>2, <3>4, <3>5
  <2> QED BY <2>4, <2>5
<1>4. PrefixScoped'
  <2> HIDE DEF items
  <2>1. CASE shown' = Nothing BY <2>1 DEF PrefixScoped, Nothing
  <2>2. CASE shown' = [by |-> t, items |-> items]
    <3> HIDE DEF wanted
    <3>1. shown'.by = t /\ shown'.items = items BY <2>2
    <3>2. \A u, w : Separate(u, w)' <=> Separate(u, w) BY <1>1 DEF Separate
    <3>3. (\A u, w \in Tenants : Separate(u, w))' => shown'.items = wanted /\ \A i \in shown'.items : ~Turned(t, i.key, i.value)
      BY <1>3, <3>1, <3>2
    <3>4. wanted = {[key |-> x[1], value |-> x[2].value] :
                      x \in {y \in Names \X entries' : y[2].by = t /\ y[2].key = FullKey(t, y[1])'}}
      BY <1>1 DEF wanted, FullKey
    <3>5. \A k, v : Turned(t, k, v)' <=> Turned(t, k, v) BY <1>1 DEF Turned, Misnamed, FullKey
    <3> QED BY <3>1, <3>3, <3>4, <3>5 DEF PrefixScoped
  <2> QED BY <1>1, <2>1, <2>2
<1> QED BY <1>2, <1>4 DEF PrefixInv

LEMMA PrefixStays ==
    ASSUME PrefixInv, UNCHANGED prefixVars
    PROVE  PrefixInv'
<1>1. UNCHANGED <<stack, entries, shown>> BY DEF prefixVars
<1>2. EntriesInv' BY <1>1 DEF PrefixInv, EntriesInv, FullKey, Turned, Misnamed
<1>3. PrefixScoped' BY <1>1 DEF PrefixInv, PrefixScoped, Separate, FullKey, Turned, Misnamed
<1> QED BY <1>2, <1>3 DEF PrefixInv

LEMMA PrefixKeeps ==
    ASSUME PrefixInv, PrefixNext
    PROVE  PrefixInv'
<1>1. PICK t \in Tenants :
        PrefixCreate(t) \/ PrefixUpdate(t) \/ PrefixApply(t) \/ PrefixDelete(t) \/ PrefixList(t)
  BY DEF PrefixNext
<1>2. CASE PrefixCreate(t) BY <1>2, WriteThroughKeeps DEF PrefixCreate
<1>3. CASE PrefixUpdate(t) BY <1>3, WriteThroughKeeps DEF PrefixUpdate
<1>4. CASE PrefixApply(t) BY <1>4, WriteThroughKeeps DEF PrefixApply
<1>5. CASE PrefixDelete(t)
  <2>1. entries' \subseteq entries /\ shown' = Nothing /\ stack' = stack BY <1>5 DEF PrefixDelete
  <2>2. PrefixScoped' BY <2>1 DEF PrefixScoped, Nothing
  <2>3. EntriesInv' BY <2>1 DEF PrefixInv, EntriesInv, FullKey, Turned, Misnamed
  <2> QED BY <2>2, <2>3 DEF PrefixInv
<1>6. CASE PrefixList(t) BY <1>6, PrefixListKeeps
<1> QED BY <1>1, <1>2, <1>3, <1>4, <1>5, <1>6

-----------------------------------------------------------------------------
\* No client's update is lost: what two updates that took effect were built on
\* differs, if their answers were lost, too (resource.go, Update and apply; configmap.go).  A List shows what its
\* store has written and nothing of a store whose own labels differ, or whose
\* prefix neither begins the other's (labels.go:64-83, util.go:13-49, 78-110;
\* prefix.go), for any clients, stores, labels, stacks and keys.
THEOREM NothingIsMixedUp == MCSpec => []NothingMixedUp
<1> DEFINE Inv == VersionsInv /\ RequestsInv /\ LabelInv /\ PrefixInv
<1>1. MCInit => Inv
  <2> SUFFICES ASSUME MCInit PROVE Inv OBVIOUS
  <2>1. Init /\ LabelInit /\ PrefixInit BY DEF MCInit
  <2>2. VersionsInv /\ RequestsInv BY <2>1, BackendsInit
  <2>3. LabelInv BY <2>1, LabelsInit
  <2>4. PrefixInv BY <2>1 DEF PrefixInit, PrefixInv, EntriesInv, PrefixScoped, Nothing
  <2> QED BY <2>2, <2>3, <2>4
<1>2. Inv /\ [MCNext]_all => Inv'
  <2> SUFFICES ASSUME Inv, [MCNext]_all PROVE Inv' OBVIOUS
  <2>1. [Next]_vars BY DEF MCNext, all
  <2>2. [LabelNext]_labelVars BY DEF MCNext, all
  <2>3. PrefixNext \/ UNCHANGED prefixVars BY DEF MCNext, all
  <2>4. VersionsInv' /\ RequestsInv' BY <2>1, BackendsNext
  <2>5. LabelInv' BY <2>2, LabelsNext
  <2>6. PrefixInv' BY <2>3, PrefixKeeps, PrefixStays
  <2> QED BY <2>4, <2>5, <2>6
<1>3. Inv => NothingMixedUp BY DEF VersionsInv, LabelInv, PrefixInv, NothingMixedUp
<1> QED BY <1>1, <1>2, <1>3, PTL DEF MCSpec

\* A Create that takes effect, whatever it returns, has replaced nothing, in any backend and with any
\* clients, but that of s3 when its look failed or its object came since (fs.go,
\* s3.go, resource.go and configmap.go, Create).
THEOREM CreatesReplaceNothing == MCSpec => CreateKeeps
<1> DEFINE Inv == VersionsInv /\ RequestsInv /\ LookInv
<1>1. MCInit => Inv BY BackendsInit, CreatesInit DEF MCInit
<1>2. Inv /\ [MCNext]_all => Inv' /\ [\A c \in Clients : Keeps(c)]_vars
  <2> SUFFICES ASSUME Inv, [MCNext]_all PROVE Inv' /\ [\A c \in Clients : Keeps(c)]_vars OBVIOUS
  <2>1. [Next]_vars BY DEF MCNext, all
  <2>2. VersionsInv' /\ RequestsInv' BY <2>1, BackendsNext
  <2> QED BY <2>1, <2>2, CreatesNext
<1>3. Inv /\ [MCNext]_all => [\A c \in Clients :
        /\ req[c].op = "Create" /\ req[c].opt # "dryRun"
        /\ \/ pc[c] # "write" /\ pc'[c] = "write"
           \/ ~IsFs /\ pc[c] # "return" /\ pc'[c] = "return" /\ (~ans'[c].err \/ map' # map)
        => map[Key(c)] = Absent \/ (kind = "s3" /\ c \in blind \cup raced)]_vars
  BY <1>2 DEF Keeps
<1> QED BY <1>1, <1>2, <1>3, PTL DEF MCSpec, CreateKeeps

-----------------------------------------------------------------------------
(* What is there.                                                           *)

\* What is in the store is what was put there last, but for files that are
\* open for writing, or torn.
ContentsInv ==
    /\ map \in [Keys -> Values \cup {Absent, Hole}] /\ old \in Maps
    /\ \A k \in Keys : map[k] \in {old[k], Hole}
    /\ torn \subseteq {TheKey}
    /\ ~IsFs => torn = {} /\ \A k \in Keys : map[k] # Hole

\* The client that holds the lock of fs: it has opened the file, or is about to.
Holds(c) == pc[c] \in {"write", "create"}

\* What is known to the one that has opened it.
Opened(c) ==
    /\ c \in linked
    /\ req[c].opt # "dryRun"
    /\ ~Refused(old, req[c])

\* In one process there is one such client, and no other file is open; a torn
\* file is there, and has no value.
LockInv ==
    kind = "fs" =>
        /\ \A c, d \in Clients : Holds(c) /\ Holds(d) => c = d
        /\ \A k \in Keys : map[k] = Hole => k = TheKey /\ (k \in torn \/ \E c \in Clients : pc[c] = "write")
        /\ TheKey \in torn => map[TheKey] = Hole /\ old[TheKey] # Absent
        /\ \A c \in Clients : pc[c] = "write" => Opened(c)
        /\ \A c \in Clients : pc[c] = "create" => req[c].opt # "dryRun"

\* The options of a call are those that its request comes with.
OptionsInv ==
    /\ DOMAIN opts = Clients
    /\ kind \in {"fs", "kube", "cached"} =>
        \A c \in Clients : pc[c] # "idle" => opts[c] \in OptionLists(req[c])

StoreInv == ContentsInv /\ LockInv /\ OptionsInv /\ RequestsInv

-----------------------------------------------------------------------------
(* Facts about calls.                                                       *)

LEMMA RequestFacts ==
    ASSUME RequestsInv, NEW c \in Clients, pc[c] # "idle"
    PROVE  /\ req[c] \in Requests
           /\ req[c].op # "List" => Key(c) = TheKey /\ Key(c) \in Keys
           /\ req[c].op \in {"Create", "Update", "Apply"} => req[c].val \in Values
           /\ req[c].op = "Delete" => req[c].val = Absent
           /\ req[c].op \in Writes \cup {"Read", "List"}
<1>1. req[c] \in Inputs(c) BY DEF RequestsInv
<1>2. req[c] \in Requests BY <1>1 DEF Inputs
<1>3. req[c].op # "List" => Key(c) = TheKey BY <1>1 DEF Inputs, Key
<1> QED BY <1>2, <1>3, BackendsAssumption DEF Requests, Writes

\* Among the options of fs and of an API server is a dry run if it was asked
\* for; a Read comes with one option at most.
LEMMA OptionFacts ==
    ASSUME OptionsInv, RequestsInv, NEW c \in Clients, pc[c] # "idle"
    PROVE  /\ kind \in {"fs", "kube"} => (IsDry(c) <=> req[c].opt = "dryRun")
           /\ kind = "cached" /\ req[c].op = "Read" => ~(Len(opts[c]) > 1)
<1>1. req[c] \in Requests BY RequestFacts
<1>2. req[c].opt \in {"none", "dryRun", "skip", "skipMore"} BY <1>1 DEF Requests
<1>3. req[c].op = "Read" => req[c].opt \in {"none", "skip"} BY <1>1 DEF Requests
<1>4. kind \in {"fs", "kube", "cached"} => opts[c] \in OptionLists(req[c]) BY DEF OptionsInv
<1>5. ~Has(<<>>, "dryRun") /\ ~Has(<<"resolve">>, "dryRun") /\ ~Has(<<"noCache">>, "dryRun")
      /\ ~Has(<<"noCache", "keysOnly">>, "dryRun") /\ Has(<<"dryRun">>, "dryRun")
  BY DEF Has
<1>6. kind \in {"fs", "kube"} => opts[c] \in IF req[c].opt = "dryRun" THEN {<<"dryRun">>}
                 ELSE {<<>>, <<"resolve">>, <<"noCache">>, <<"noCache", "keysOnly">>}
  BY <1>2, <1>4 DEF OptionLists
<1>7. kind = "cached" /\ req[c].op = "Read" => opts[c] \in {<<>>, <<"noCache">>}
  BY <1>3, <1>4 DEF OptionLists
<1>8. kind \in {"fs", "kube"} => (Has(opts[c], "dryRun") <=> req[c].opt = "dryRun") BY <1>5, <1>6
<1>9. ~(Len(<<>>) > 1) /\ ~(Len(<<"noCache">>) > 1) OBVIOUS
<1> QED BY <1>7, <1>8, <1>9 DEF IsDry

\* While no file is open, what is there is what was put there last, if it is
\* not torn.
LEMMA NoHoles ==
    ASSUME ContentsInv, LockInv, ~IsFs \/ (kind = "fs" /\ ~Locked)
    PROVE  /\ ~IsFs => map = old
           /\ \A k \in Keys : map[k] = IF k \in torn THEN Hole ELSE old[k]
           /\ \A k \in Keys : old[k] # Hole /\ (map[k] = Absent <=> old[k] = Absent)
<1>0. /\ old \in [Keys -> Values \cup {Absent}] /\ DOMAIN map = Keys
      /\ \A k \in Keys : map[k] = old[k] \/ map[k] = Hole
      /\ ~IsFs => torn = {} /\ \A k \in Keys : map[k] # Hole
  BY DEF ContentsInv, Maps
<1>1. ASSUME NEW k \in Keys PROVE old[k] # Hole /\ Hole # Absent
  <2>1. old[k] \in Values \cup {Absent} BY <1>0
  <2> QED BY <2>1, BackendAssumption
<1>2. ASSUME NEW k \in Keys PROVE map[k] = IF k \in torn THEN Hole ELSE old[k]
  <2>1. CASE ~IsFs
    <3>1. k \notin torn BY <1>0, <2>1
    <3> QED BY <1>0, <2>1, <3>1
  <2>2. CASE kind = "fs" /\ ~Locked
    <3>1. map[k] = Hole <=> k \in torn BY <2>2 DEF LockInv, ContentsInv, Locked
    <3> QED BY <3>1 DEF ContentsInv
  <2> QED BY <2>1, <2>2
<1>3. ASSUME NEW k \in Keys PROVE map[k] = Absent <=> old[k] = Absent
  <2>1. CASE k \notin torn BY <1>2, <2>1
  <2>2. CASE k \in torn
    <3>1. kind = "fs" /\ k = TheKey BY <2>2 DEF ContentsInv
    <3> QED BY <1>1, <1>2, <2>2, <3>1 DEF LockInv
  <2> QED BY <2>1, <2>2
<1>4. ASSUME ~IsFs PROVE map = old
  <2>1. ASSUME NEW k \in Keys PROVE map[k] = old[k] BY <1>0, <1>4
  <2> QED BY <1>0, <2>1 DEF ContentsInv
<1> QED BY <1>1, <1>2, <1>3, <1>4

\* So a call is refused as it would be on what was put there last.
LEMMA SameRefusal ==
    ASSUME ContentsInv, LockInv, ~IsFs \/ (kind = "fs" /\ ~Locked), NEW r, r.key \in Keys
    PROVE  Refused(map, r) <=> Refused(old, r)
BY NoHoles DEF Refused

-----------------------------------------------------------------------------
(* The effects of a step.                                                   *)

\* A file that is being written stays the one of its key.
StaysLinked == kind = "fs" => \A d \in Clients : pc[d] = "write" /\ d \in linked => d \in linked'

\* The call of c goes on, or ends, and changes nothing ...
Rests(c) ==
    /\ UNCHANGED <<kind, map, old, req, torn>> /\ StaysLinked
    /\ pc[c] \notin {"idle", "return"}
    /\ \E s : /\ pc' = [pc EXCEPT ![c] = s]
              /\ kind = "fs" => /\ pc[c] # "write" /\ s # "write"
                                /\ s = "create" => ~Locked /\ req[c].opt # "dryRun"

\* ... or it opens a file ...
Opens(c) ==
    /\ IsFs /\ UNCHANGED <<kind, old, req, torn>> /\ pc[c] \notin {"idle", "return"}
    /\ map' = [map EXCEPT ![TheKey] = Hole]
    /\ linked' = linked \cup {c}
    /\ pc' = [pc EXCEPT ![c] = "write"]
    /\ kind = "fs" => /\ \A d \in Clients \ {c} : ~Holds(d)
                      /\ req[c].opt # "dryRun"
                      /\ ~Refused(old, req[c])

\* ... or it puts a value there, or a part of one, and ends.
PutsPart(v, cut) ==
    /\ old' = [old EXCEPT ![TheKey] = v]
    /\ map' = [map EXCEPT ![TheKey] = IF cut THEN Hole ELSE v]
    /\ torn' = IF cut THEN torn \cup {TheKey} ELSE torn \ {TheKey}
    /\ cut => IsFs /\ v # Absent

Puts(c) ==
    /\ UNCHANGED <<kind, req>> /\ pc[c] \notin {"idle", "return"}
    /\ \E v \in Values \cup {Absent}, cut \in BOOLEAN : PutsPart(v, cut)
    /\ pc' = [pc EXCEPT ![c] = "return"]
    /\ kind = "fs" => \A d \in Clients \ {c} : ~Holds(d)

LEMMA RestsKeeps ==
    ASSUME StoreInv, RequestsInv', NEW c \in Clients, Rests(c)
    PROVE  ContentsInv' /\ LockInv'
<1> USE DEF StoreInv
<1>1. ContentsInv' BY DEF Rests, ContentsInv, IsFs
<1>2. PICK s : pc' = [pc EXCEPT ![c] = s] /\ (kind = "fs" => pc[c] # "write" /\ s # "write" /\ (s = "create" => ~Locked /\ req[c].opt # "dryRun"))
  BY DEF Rests
<1>3. UNCHANGED <<kind, map, old, req, torn>> /\ StaysLinked BY DEF Rests
<1>4. ASSUME kind = "fs"
      PROVE  /\ \A d, e \in Clients : pc'[d] \in {"write", "create"} /\ pc'[e] \in {"write", "create"} => d = e
             /\ \A k \in Keys : map'[k] = Hole => k = TheKey /\ (k \in torn' \/ \E d \in Clients : pc'[d] = "write")
             /\ \A d \in Clients : pc'[d] = "write" => pc[d] = "write"
             /\ \A d \in Clients : pc'[d] = "create" => req'[d].opt # "dryRun"
  <2>1. \A d \in Clients : pc'[d] = IF d = c THEN s ELSE pc[d] BY <1>2 DEF RequestsInv
  <2>2. s = "create" => \A d \in Clients : pc[d] \notin {"write", "create"} BY <1>2, <1>4 DEF Locked
  <2>3. \A d \in Clients : pc'[d] = "write" <=> pc[d] = "write" BY <1>2, <1>4, <2>1
  <2>4. \A d, e \in Clients : pc[d] \in {"write", "create"} /\ pc[e] \in {"write", "create"} => d = e
    BY <1>4 DEF LockInv, Holds
  <2>5. \A d, e \in Clients : pc'[d] \in {"write", "create"} /\ pc'[e] \in {"write", "create"} => d = e
    BY <1>2, <1>4, <2>1, <2>2, <2>4
  <2>6. \A k \in Keys : map'[k] = Hole => k = TheKey /\ (k \in torn' \/ \E d \in Clients : pc'[d] = "write")
    BY <1>3, <1>4, <2>3 DEF LockInv
  <2>7. \A d \in Clients : pc'[d] = "create" => req'[d].opt # "dryRun"
    BY <1>2, <1>3, <1>4, <2>1 DEF LockInv
  <2> QED BY <2>3, <2>5, <2>6, <2>7
<1>5. LockInv'
  <2>1. ASSUME kind = "fs", NEW d \in Clients, pc'[d] = "write" PROVE Opened(d)'
    <3>1. pc[d] = "write" BY <1>4, <2>1
    <3>2. Opened(d) BY <2>1, <3>1 DEF LockInv
    <3>3. d \in linked' BY <1>3, <2>1, <3>1, <3>2 DEF StaysLinked, Opened
    <3> QED BY <1>3, <3>2, <3>3 DEF Opened, Refused
  <2> QED BY <1>3, <1>4, <2>1 DEF LockInv, Holds
<1> QED BY <1>1, <1>5

LEMMA OpensKeeps ==
    ASSUME StoreInv, NEW c \in Clients, Opens(c)
    PROVE  ContentsInv' /\ LockInv'
<1> USE DEF StoreInv
<1>1. /\ IsFs /\ UNCHANGED <<kind, old, req, torn>> /\ map' = [map EXCEPT ![TheKey] = Hole]
      /\ linked' = linked \cup {c} /\ pc' = [pc EXCEPT ![c] = "write"] /\ TheKey \in Keys
  BY BackendsAssumption DEF Opens
<1>2. ContentsInv'
  <2>1. map' \in [Keys -> Values \cup {Absent, Hole}] BY <1>1 DEF ContentsInv
  <2>2. \A k \in Keys : map'[k] \in {old[k], Hole} BY <1>1 DEF ContentsInv
  <2> QED BY <1>1, <2>1, <2>2 DEF ContentsInv, IsFs
<1>3. \A d \in Clients : pc'[d] = IF d = c THEN "write" ELSE pc[d] BY <1>1 DEF RequestsInv
<1>4. ASSUME kind = "fs" PROVE LockInv'
  <2>1. \A d \in Clients \ {c} : pc[d] \notin {"write", "create"} BY <1>4 DEF Opens, Holds
  <2>2. \A d, e \in Clients : pc'[d] \in {"write", "create"} /\ pc'[e] \in {"write", "create"} => d = e
    BY <1>3, <2>1
  <2>3. /\ \A k \in Keys : map'[k] = Hole => k = TheKey /\ \E d \in Clients : pc'[d] = "write"
        /\ TheKey \in torn' => map'[TheKey] = Hole /\ old'[TheKey] # Absent
    <3>1. \A k \in Keys : map[k] = Hole => k = TheKey BY <1>4 DEF LockInv
    <3>2. TheKey \in torn' => map'[TheKey] = Hole /\ old'[TheKey] # Absent
      BY <1>1, <1>4 DEF LockInv, ContentsInv
    <3> QED BY <1>1, <1>3, <3>1, <3>2 DEF ContentsInv
  <2>4. \A d \in Clients : pc'[d] = "write" => d = c BY <1>3, <2>1
  <2>5. \A d \in Clients : pc'[d] # "create" BY <1>3, <2>1
  <2>6. Opened(c)' BY <1>1, <1>4 DEF Opens, Opened, Refused
  <2> QED BY <2>2, <2>3, <2>4, <2>5, <2>6 DEF LockInv, Holds
<1>5. LockInv' BY <1>1, <1>4 DEF LockInv
<1> QED BY <1>2, <1>5

LEMMA PutsKeeps ==
    ASSUME StoreInv, NEW c \in Clients, Puts(c)
    PROVE  ContentsInv' /\ LockInv'
<1> USE DEF StoreInv
<1>1. PICK v \in Values \cup {Absent}, cut \in BOOLEAN : PutsPart(v, cut) BY DEF Puts
<1>2. /\ UNCHANGED <<kind, req>> /\ pc' = [pc EXCEPT ![c] = "return"] /\ TheKey \in Keys
      /\ map' = [map EXCEPT ![TheKey] = IF cut THEN Hole ELSE v] /\ old' = [old EXCEPT ![TheKey] = v]
      /\ torn' = IF cut THEN torn \cup {TheKey} ELSE torn \ {TheKey}
      /\ cut => IsFs /\ v # Absent
  BY <1>1, BackendsAssumption DEF Puts, PutsPart
<1>3. ContentsInv'
  <2>1. map' \in [Keys -> Values \cup {Absent, Hole}] /\ old' \in Maps BY <1>2 DEF ContentsInv, Maps
  <2>2. \A k \in Keys : map'[k] \in {old'[k], Hole} BY <1>2 DEF ContentsInv, Maps
  <2>3. torn' \subseteq {TheKey} BY <1>2 DEF ContentsInv
  <2>4. ~IsFs => torn' = {} /\ \A k \in Keys : map'[k] # Hole BY <1>2, BackendAssumption DEF ContentsInv
  <2> QED BY <1>2, <2>1, <2>2, <2>3, <2>4 DEF ContentsInv, IsFs
<1>4. \A d \in Clients : pc'[d] = IF d = c THEN "return" ELSE pc[d] BY <1>2 DEF RequestsInv
<1>5. ASSUME kind = "fs" PROVE LockInv'
  <2>1. \A d \in Clients \ {c} : pc[d] \notin {"write", "create"} BY <1>5 DEF Puts, Holds
  <2>2. \A d \in Clients : pc'[d] \notin {"write", "create"} BY <1>4, <2>1
  <2>3. \A k \in Keys : map'[k] = Hole => k = TheKey /\ k \in torn'
    <3>1. \A k \in Keys : map[k] = Hole => k = TheKey BY <1>5 DEF LockInv
    <3>2. map'[TheKey] = IF cut THEN Hole ELSE v BY <1>2 DEF ContentsInv
    <3>3. \A k \in Keys \ {TheKey} : map'[k] # Hole BY <1>2, <3>1 DEF ContentsInv
    <3>4. v # Hole BY BackendAssumption
    <3> QED BY <1>2, <3>2, <3>3, <3>4
  <2>4. TheKey \in torn' => map'[TheKey] = Hole /\ old'[TheKey] # Absent
    BY <1>2 DEF ContentsInv, Maps
  <2> QED BY <2>2, <2>3, <2>4 DEF LockInv, Holds
<1>6. LockInv' BY <1>2, <1>5 DEF LockInv
<1> QED BY <1>3, <1>6

-----------------------------------------------------------------------------
(* What the calls do.                                                       *)

\* A call has happened, with its answer or without; or it has failed and changed
\* nothing, or left its file torn; or it could not look.
Touches(r) == IF r.op \in Writes /\ r.opt # "dryRun" THEN {r.key} ELSE {}
Takes(c) == old' = Written(old, req[c]) /\ torn' = torn \ Touches(req[c])

Happens(c) ==
    /\ ~(req[c].op = "Read" /\ req[c].key \in torn) /\ ~(req[c].op = "List" /\ torn # {})
    /\ ans' = [ans EXCEPT ![c] = Answer(old, req[c])]
    /\ IF Refused(old, req[c]) THEN UNCHANGED <<old, torn>> ELSE Takes(c)
Denied(c) == ans' = [ans EXCEPT ![c] = Error] /\ UNCHANGED <<old, torn>>
Unheard(c) == ans' = [ans EXCEPT ![c] = Error] /\ ~Refused(old, req[c]) /\ Takes(c)
Tears(c) ==
    /\ kind = "fs" /\ ans' = [ans EXCEPT ![c] = Error] /\ ~Refused(old, req[c])
    /\ req[c].op \in {"Create", "Update", "Apply"}
    /\ old' = Written(old, req[c]) /\ torn' = torn \cup Touches(req[c])
Supposes(c) ==
    /\ kind = "fs" /\ req[c].op = "Create" /\ req[c].opt = "dryRun"
    /\ ans' = [ans EXCEPT ![c] = [err |-> FALSE, got |-> Empty]] /\ UNCHANGED <<old, torn>>

\* Either way it ends ...
Ends(c) ==
    /\ pc[c] \notin {"idle", "return"} /\ pc' = [pc EXCEPT ![c] = "return"]
    /\ req' = req /\ kind' = kind
    /\ Happens(c) \/ Denied(c) \/ Unheard(c) \/ Tears(c) \/ Supposes(c)

\* ... and one that goes on has done nothing yet.
Passes(c) ==
    /\ pc[c] \notin {"idle", "return"}
    /\ \E s : s \notin {"idle", "return"} /\ pc' = [pc EXCEPT ![c] = s]
    /\ UNCHANGED <<kind, old, torn, req, ans>>

\* The effect of an action on the contents, and what the callers see of it.
Effect(c) ==
    /\ Rests(c) \/ Opens(c) \/ Puts(c)
    /\ ans' = ans \/ \E a : ans' = [ans EXCEPT ![c] = a]
    /\ IsAtomic => Ends(c) \/ Passes(c)

LEMMA RestsAtEnd ==
    ASSUME NEW c \in Clients, pc' = [pc EXCEPT ![c] = "return"], UNCHANGED <<kind, map, old, req, torn>>,
           StaysLinked, pc[c] \notin {"idle", "return"}, kind = "fs" => pc[c] # "write"
    PROVE  Rests(c)
<1>1. \E s : /\ pc' = [pc EXCEPT ![c] = s]
             /\ kind = "fs" => /\ pc[c] # "write" /\ s # "write"
                               /\ s = "create" => ~Locked /\ req[c].opt # "dryRun"
  <2>1. "return" # "write" /\ "return" # "create" OBVIOUS
  <2> WITNESS "return"
  <2> QED BY <2>1
<1> QED BY <1>1 DEF Rests

LEMMA FailsEffect ==
    ASSUME NEW c \in Clients, NEW w, FailsFor(c, w), UNCHANGED <<kind, map, old, torn>>, StaysLinked,
           pc[c] \notin {"idle", "return"}, kind = "fs" => pc[c] # "write"
    PROVE  Effect(c)
<1>1. pc' = [pc EXCEPT ![c] = "return"] /\ ans' = [ans EXCEPT ![c] = Error] /\ req' = req
  BY DEF FailsFor, Finish
<1>2. Rests(c) BY <1>1, RestsAtEnd
<1>3. Ends(c) BY <1>1 DEF Ends, Denied
<1> QED BY <1>1, <1>2, <1>3 DEF Effect

\* A call that ends with an answer and has written nothing, as it need not:
\* it is a dry run, or a Read or a List.
LEMMA AnswersEffect ==
    ASSUME NEW c \in Clients, NEW a, NEW w, Finish(c, a, w), UNCHANGED <<kind, map, old, torn>>,
           StaysLinked,
           pc[c] \notin {"idle", "return"}, kind = "fs" => pc[c] # "write",
           IsAtomic => Happens(c) \/ Supposes(c)
    PROVE  Effect(c)
<1>1. pc' = [pc EXCEPT ![c] = "return"] /\ ans' = [ans EXCEPT ![c] = a] /\ req' = req
  BY DEF Finish
<1>2. Rests(c) BY <1>1, RestsAtEnd
<1>3. IsAtomic => Ends(c) BY <1>1 DEF Ends
<1> QED BY <1>1, <1>2, <1>3 DEF Effect

\* What a write answers that is not refused.
LEMMA WriteAnswers ==
    ASSUME NEW m, NEW r, r.op \in Writes, ~Refused(m, r)
    PROVE  Answer(m, r) = [err |-> FALSE, got |-> Empty]
BY DEF Answer, Writes

\* A Read or a List while no file is open.
LEMMA ReadsEffect ==
    ASSUME StoreInv, NEW c \in Clients, Reads(c, map), UNCHANGED <<kind, map, old, torn>>,
           StaysLinked,
           pc[c] \notin {"idle", "return"}, kind = "fs" => pc[c] # "write",
           req[c].op \in {"Read", "List"}, IsAtomic => ~IsFs \/ (kind = "fs" /\ ~Locked)
    PROVE  Effect(c)
<1> USE DEF StoreInv
<1>1. CASE FailsFor(c, "unreadable") BY <1>1, FailsEffect
<1>2. CASE ~FailsFor(c, "unreadable")
  <2>1. PICK w : Finish(c, Answer(map, req[c]), w) BY <1>2 DEF Reads
  <2>2. \A k \in Keys : req[c].op = "List" \/ k = Key(c) => map[k] # Hole BY <1>2 DEF Reads
  <2>3. ASSUME IsAtomic PROVE Happens(c)
    <3>1. \A k \in Keys : map[k] = IF k \in torn THEN Hole ELSE old[k] BY <2>3, NoHoles
    <3>2. torn \subseteq {TheKey} /\ TheKey \in Keys BY BackendsAssumption DEF ContentsInv
    <3>3. CASE req[c].op = "Read"
      <4>1. Key(c) \in Keys BY <3>3, RequestFacts
      <4>2. Key(c) \notin torn /\ map[Key(c)] = old[Key(c)] BY <2>2, <3>1, <3>3, <4>1
      <4>3. Answer(map, req[c]) = Answer(old, req[c]) BY <3>3, <4>2 DEF Answer, Refused, Key
      <4>4. Written(old, req[c]) = old /\ Touches(req[c]) = {} BY <3>3 DEF Written, Touches, Writes
      <4> QED BY <2>1, <3>3, <4>2, <4>3, <4>4 DEF Happens, Takes, Finish, Key
    <3>4. CASE req[c].op = "List"
      <4>1. torn = {} BY <2>2, <3>1, <3>2, <3>4
      <4>2. \A k \in Keys : map[k] = old[k] BY <3>1, <4>1
      <4>3. map = old BY <4>2 DEF ContentsInv, Maps
      <4>4. Written(old, req[c]) = old /\ Touches(req[c]) = {} BY <3>4 DEF Written, Touches, Writes
      <4> QED BY <2>1, <3>4, <4>1, <4>3, <4>4 DEF Happens, Takes, Finish
    <3> QED BY <3>3, <3>4
  <2> QED BY <2>1, <2>3, AnswersEffect
<1> QED BY <1>1, <1>2

\* A step that opens and closes no file.
LEMMA SameLinks == linked' = linked => StaysLinked
BY DEF StaysLinked

LEMMA GotoEffect ==
    ASSUME NEW c \in Clients, NEW s, Goto(c, s), s \notin {"idle", "return"},
           UNCHANGED <<kind, map, old, torn>>, StaysLinked,
           pc[c] \notin {"idle", "return"},
           kind = "fs" => pc[c] # "write" /\ s # "write" /\ (s = "create" => ~Locked /\ req[c].opt # "dryRun")
    PROVE  Effect(c)
<1>1. pc' = [pc EXCEPT ![c] = s] /\ UNCHANGED <<req, ans>> BY DEF Goto
<1>2. Rests(c) BY <1>1 DEF Rests
<1>3. Passes(c) BY <1>1 DEF Passes
<1> QED BY <1>1, <1>2, <1>3 DEF Effect

\* A write that takes place, answered or not; or, under fs, in part.
LEMMA PutEffect ==
    ASSUME RequestsInv, NEW c \in Clients, Done(c) \/ Fails(c), req[c].op \in Writes,
           NEW cut \in BOOLEAN, PutsPart(req[c].val, cut), cut => kind = "fs" /\ Fails(c),
           kind' = kind, pc[c] \notin {"idle", "return"},
           kind = "fs" => \A d \in Clients \ {c} : ~Holds(d),
           IsAtomic => ~Refused(old, req[c]) /\ req[c].opt # "dryRun"
    PROVE  Effect(c)
<1>1. /\ pc' = [pc EXCEPT ![c] = "return"] /\ req' = req
      /\ \/ ans' = [ans EXCEPT ![c] = [err |-> FALSE, got |-> Empty]]
         \/ ans' = [ans EXCEPT ![c] = Error]
      /\ Fails(c) => ans' = [ans EXCEPT ![c] = Error]
  BY DEF Done, Fails, FailsFor, Finish
<1>2. Key(c) = TheKey /\ req[c].val \in Values \cup {Absent}
  BY RequestFacts DEF Writes
<1>3. Puts(c) BY <1>1, <1>2 DEF Puts
<1>4. ASSUME IsAtomic PROVE Ends(c)
  <2>1. Answer(old, req[c]) = [err |-> FALSE, got |-> Empty] BY <1>4, WriteAnswers
  <2>2. old' = Written(old, req[c]) BY <1>2, <1>4 DEF PutsPart, Written, Key
  <2>3. Touches(req[c]) = {TheKey} BY <1>2, <1>4 DEF Touches, Key
  <2>4. CASE cut
    <3>1. req[c].op \in {"Create", "Update", "Apply"} BY <2>4, RequestFacts DEF PutsPart, Writes
    <3>2. torn' = torn \cup Touches(req[c]) BY <2>3, <2>4 DEF PutsPart
    <3>3. Tears(c) BY <1>1, <1>4, <2>2, <2>4, <3>1, <3>2 DEF Tears
    <3> QED BY <1>1, <3>3 DEF Ends
  <2>5. CASE ~cut
    <3>1. Takes(c) BY <2>2, <2>3, <2>5 DEF Takes, PutsPart
    <3>2. req[c].op # "Read" /\ req[c].op # "List" BY DEF Writes
    <3>3. Happens(c) \/ Unheard(c) BY <1>1, <1>4, <2>1, <3>1, <3>2 DEF Happens, Unheard
    <3> QED BY <1>1, <3>3 DEF Ends
  <2> QED BY <2>4, <2>5
<1>5. \E a : ans' = [ans EXCEPT ![c] = a] BY <1>1
<1> QED BY <1>3, <1>4, <1>5 DEF Effect

\* A value that is put as a whole.
LEMMA PutIsWhole ==
    ASSUME NEW v, Put(TheKey, v), torn' = torn \ {TheKey}
    PROVE  PutsPart(v, FALSE)
BY DEF Put, PutsPart

-----------------------------------------------------------------------------
(* fs.                                                                      *)

\* A file is opened: created, or found.
LEMMA OpenEffect ==
    ASSUME RequestsInv, NEW c \in Clients, OpenForWrite(c), UNCHANGED <<kind, old, torn>>, IsFs,
           Key(c) = TheKey, pc[c] \notin {"idle", "return"},
           kind = "fs" => /\ \A d \in Clients \ {c} : ~Holds(d)
                          /\ req[c].opt # "dryRun"
                          /\ ~Refused(old, req[c])
    PROVE  Effect(c)
<1>1. /\ map' = [map EXCEPT ![TheKey] = Hole] /\ linked' = linked \cup {c}
      /\ pc' = [pc EXCEPT ![c] = "write"] /\ UNCHANGED <<req, ans>>
  BY DEF OpenForWrite, Goto
<1>2. Opens(c) BY <1>1 DEF Opens
<1>3. Passes(c) BY <1>1 DEF Passes
<1> QED BY <1>1, <1>2, <1>3 DEF Effect

\* O_CREATE | O_EXCL, under the lock.
LEMMA OpenNewEffect ==
    ASSUME StoreInv, NEW c \in Clients, OpenNew(c), UNCHANGED <<kind, old, torn>>, IsFs,
           pc[c] \notin {"idle", "return", "write"},
           req[c].op \in {"Create", "Apply"},
           kind = "fs" => (\A d \in Clients \ {c} : ~Holds(d)) /\ req[c].opt # "dryRun"
    PROVE  Effect(c)
<1> USE DEF StoreInv
<1>1. Key(c) = TheKey /\ Key(c) \in Keys BY RequestFacts
<1>2. CASE map[Key(c)] = Absent /\ OpenForWrite(c)
  <2>1. kind = "fs" => ~Refused(old, req[c])
    <3>1. map[Key(c)] # Hole BY <1>2, BackendAssumption
    <3>2. old[Key(c)] = Absent BY <1>1, <1>2, <3>1 DEF ContentsInv
    <3> QED BY <3>2 DEF Refused, Key
  <2> QED BY <1>1, <1>2, <2>1, OpenEffect
<1>3. CASE Fails(c) /\ UNCHANGED <<map, linked>> BY <1>3, FailsEffect, SameLinks DEF Fails
<1> QED BY <1>2, <1>3 DEF OpenNew

LEMMA FsOpenEffect ==
    ASSUME StoreInv, NEW c \in Clients, FsOpen(c)
    PROVE  Effect(c)
<1> USE DEF StoreInv
<1>1. /\ IsFs /\ pc[c] = "called" /\ req[c].op \in {"Create", "Update", "Apply"} /\ ~IsDry(c)
      /\ ~Locked /\ UNCHANGED <<kind, old, torn>>
  BY DEF FsOpen
<1>2. kind = "fs" => (\A d \in Clients : ~Holds(d)) /\ req[c].opt # "dryRun"
  BY <1>1, OptionFacts DEF Locked, Holds
<1>3. Key(c) = TheKey /\ Key(c) \in Keys BY <1>1, RequestFacts
<1>4. CASE req[c].op = "Create" BY <1>1, <1>2, <1>4, OpenNewEffect DEF FsOpen
<1>5. CASE req[c].op \in {"Update", "Apply"}
  <2>1. OpenExisting(c) BY <1>5 DEF FsOpen
  <2>2. CASE map[Key(c)] # Absent /\ OpenForWrite(c)
    <3>1. kind = "fs" => ~Refused(old, req[c])
      <4>1. kind = "fs" => old[Key(c)] # Absent BY <1>1, <1>3, <2>2, NoHoles
      <4> QED BY <1>5, <4>1 DEF Refused, Key
    <3> QED BY <1>1, <1>2, <1>3, <2>2, <3>1, OpenEffect
  <2>3. CASE /\ IF req[c].op = "Apply" THEN Goto(c, "create") ELSE Fails(c)
             /\ UNCHANGED <<map, linked>>
    <3>1. CASE Goto(c, "create") BY <1>1, <1>2, <2>3, <3>1, GotoEffect, SameLinks
    <3>2. CASE Fails(c) BY <1>1, <2>3, <3>2, FailsEffect, SameLinks DEF Fails
    <3> QED BY <2>3, <3>1, <3>2
  <2> QED BY <2>1, <2>2, <2>3 DEF OpenExisting
<1> QED BY <1>1, <1>4, <1>5

LEMMA FsWriteEffect ==
    ASSUME StoreInv, NEW c \in Clients, FsWrite(c)
    PROVE  Effect(c)
<1> USE DEF StoreInv
<1>1. pc[c] = "write" /\ UNCHANGED kind BY DEF FsWrite
<1>2. IsFs /\ req[c].op \in {"Create", "Update", "Apply"} BY <1>1 DEF RequestsInv, StepOf
<1>3. PICK failed \in BOOLEAN, cut \in BOOLEAN :
        /\ cut => failed
        /\ IF failed THEN Fails(c) ELSE Done(c)
        /\ IF c \in linked
           THEN /\ map' = [map EXCEPT ![Key(c)] = IF cut THEN Hole ELSE req[c].val]
                /\ old' = [old EXCEPT ![Key(c)] = req[c].val]
                /\ torn' = IF cut THEN torn \cup {Key(c)} ELSE torn \ {Key(c)}
           ELSE UNCHANGED <<map, old, torn>>
  BY DEF FsWrite
<1>4. Done(c) \/ Fails(c) BY <1>3
<1>5. pc' = [pc EXCEPT ![c] = "return"] /\ req' = req /\ \E a : ans' = [ans EXCEPT ![c] = a]
  BY <1>4 DEF Done, Fails, FailsFor, Finish
<1>6. IsAtomic => kind = "fs" BY <1>2 DEF IsAtomic, IsFs
<1>7. Key(c) = TheKey /\ req[c].val \in Values BY <1>1, <1>2, RequestFacts
<1>8. CASE c \in linked
  <2>1. PutsPart(req[c].val, cut)
    <3>1. req[c].val # Absent BY <1>7, MemoryAssumption
    <3> QED BY <1>2, <1>3, <1>7, <1>8, <3>1 DEF PutsPart
  <2>2. CASE kind = "fs"
    <3>1. (\A d \in Clients \ {c} : ~Holds(d)) /\ ~Refused(old, req[c]) /\ req[c].opt # "dryRun"
      BY <1>1, <2>2 DEF LockInv, Holds, Opened
    <3>2. cut => Fails(c) BY <1>3
    <3>3. req[c].op \in Writes BY <1>2 DEF Writes
    <3> QED BY <1>1, <1>4, <2>1, <2>2, <3>1, <3>2, <3>3, PutEffect
  <2>3. CASE kind # "fs"
    <3>1. Puts(c) BY <1>1, <1>5, <1>7, <2>1, <2>3 DEF Puts
    <3> QED BY <1>5, <1>6, <2>3, <3>1 DEF Effect
  <2> QED BY <2>2, <2>3
<1>9. CASE c \notin linked
  <2>1. kind # "fs" BY <1>1, <1>9 DEF LockInv, Opened
  <2>2. UNCHANGED <<map, old, torn>> BY <1>3, <1>9
  <2>3. Rests(c) BY <1>1, <1>5, <2>1, <2>2, RestsAtEnd DEF StaysLinked
  <2> QED BY <1>5, <1>6, <2>1, <2>3 DEF Effect
<1> QED BY <1>8, <1>9

LEMMA FsRemoveEffect ==
    ASSUME StoreInv, NEW c \in Clients, FsRemove(c)
    PROVE  Effect(c)
<1> USE DEF StoreInv
<1>1. IsFs /\ pc[c] = "called" /\ req[c].op = "Delete" /\ ~IsDry(c) /\ ~Locked /\ kind' = kind
  BY DEF FsRemove
<1>2. req[c].val = Absent /\ Key(c) = TheKey /\ Key(c) \in Keys BY <1>1, RequestFacts
<1>3. CASE map[Key(c)] # Absent /\ Put(Key(c), Absent) /\ Done(c) /\ torn' = torn \ {Key(c)}
  <2>1. kind = "fs" => (\A d \in Clients \ {c} : ~Holds(d)) /\ req[c].opt # "dryRun"
    BY <1>1, OptionFacts DEF Locked, Holds
  <2>2. kind = "fs" => ~Refused(old, req[c])
    <3>1. kind = "fs" => old[Key(c)] # Absent BY <1>1, <1>2, <1>3, NoHoles
    <3> QED BY <1>1, <3>1 DEF Refused, Key
  <2>3. IsAtomic => kind = "fs" BY <1>1 DEF IsAtomic, IsFs
  <2>4. PutsPart(req[c].val, FALSE) BY <1>2, <1>3, PutIsWhole
  <2>5. req[c].op \in Writes BY <1>1 DEF Writes
  <2> QED BY <1>1, <1>3, <2>1, <2>2, <2>3, <2>4, <2>5, PutEffect
<1>4. CASE Fails(c) /\ UNCHANGED <<map, old, linked, torn>>
  BY <1>1, <1>4, FailsEffect, SameLinks DEF Fails
<1> QED BY <1>3, <1>4 DEF FsRemove

LEMMA FsDryRunEffect ==
    ASSUME StoreInv, NEW c \in Clients, FsDryRun(c)
    PROVE  Effect(c)
<1> USE DEF StoreInv
<1>1. /\ IsFs /\ pc[c] = "called" /\ req[c].op \in Writes /\ IsDry(c)
      /\ UNCHANGED <<kind, map, old, torn, linked>>
  BY DEF FsDryRun, fileVars
<1>2. IsAtomic => kind = "fs" BY <1>1 DEF IsAtomic, IsFs
<1>3. kind = "fs" => req[c].opt = "dryRun" BY <1>1, OptionFacts
<1>4. StaysLinked BY <1>1, SameLinks
<1>5. CASE Fails(c) BY <1>1, <1>4, <1>5, FailsEffect DEF Fails
<1>6. ASSUME Done(c), IsAtomic => ~Refused(old, req[c]) \/ req[c].op = "Create" PROVE Effect(c)
  <2>1. Finish(c, [err |-> FALSE, got |-> Empty], "none") BY <1>6 DEF Done
  <2>2. ans' = [ans EXCEPT ![c] = [err |-> FALSE, got |-> Empty]] BY <2>1 DEF Finish
  <2>3. ASSUME IsAtomic, ~Refused(old, req[c]) PROVE Happens(c)
    <3>1. Answer(old, req[c]) = [err |-> FALSE, got |-> Empty] BY <1>1, <2>3, WriteAnswers
    <3>2. Written(old, req[c]) = old /\ Touches(req[c]) = {} BY <1>2, <1>3, <2>3 DEF Written, Touches
    <3>3. req[c].op # "Read" /\ req[c].op # "List" BY <1>1 DEF Writes
    <3>4. Takes(c) BY <1>1, <3>2 DEF Takes
    <3> QED BY <2>2, <2>3, <3>1, <3>3, <3>4 DEF Happens
  <2>4. ASSUME IsAtomic, req[c].op = "Create" PROVE Supposes(c)
    BY <1>1, <1>2, <1>3, <2>2, <2>4 DEF Supposes
  <2> QED BY <1>1, <1>4, <1>6, <2>1, <2>3, <2>4, AnswersEffect
<1>7. CASE req[c].op = "Apply" /\ Done(c) BY <1>6, <1>7 DEF Refused
<1>8. CASE ~Locked /\ ~Refused(map, req[c]) /\ Done(c)
  <2>1. req[c].key \in Keys BY <1>1, RequestFacts DEF Key, Writes
  <2>2. IsAtomic => ~Refused(old, req[c]) BY <1>2, <1>8, <2>1, SameRefusal
  <2> QED BY <1>6, <1>8, <2>2
<1>9. CASE req[c].op = "Create" /\ Done(c) BY <1>6, <1>9
<1> QED BY <1>5, <1>7, <1>8, <1>9 DEF FsDryRun

LEMMA FsEffect ==
    ASSUME StoreInv, NEW c \in Clients,
           \/ FsOpen(c) \/ FsApplyCreate(c) \/ FsWrite(c) \/ FsCrash(c) \/ FsRemove(c)
           \/ FsDryRun(c) \/ FsRead(c)
    PROVE  Effect(c)
<1> USE DEF StoreInv
<1>1. CASE FsApplyCreate(c)
  <2>1. pc[c] = "create" /\ IsFs /\ OpenNew(c) /\ UNCHANGED <<kind, old, torn>> BY <1>1 DEF FsApplyCreate
  <2>2. req[c].op = "Apply" BY <2>1 DEF RequestsInv, StepOf
  <2>3. kind = "fs" => (\A d \in Clients \ {c} : ~Holds(d)) /\ req[c].opt # "dryRun"
    BY <2>1 DEF LockInv, Holds
  <2> QED BY <2>1, <2>2, <2>3, OpenNewEffect
<1>2. CASE FsCrash(c)
  <2>1. kind = "fsShared" /\ pc[c] = "write" /\ Fails(c) /\ UNCHANGED <<kind, map, old, torn>>
    BY <1>2 DEF FsCrash
  <2>2. StaysLinked BY <2>1 DEF StaysLinked
  <2> QED BY <2>1, <2>2, FailsEffect DEF Fails
<1>3. CASE FsRead(c)
  <2>1. /\ IsFs /\ pc[c] = "called" /\ req[c].op \in {"Read", "List"}
        /\ UNCHANGED <<kind, map, old, torn, linked>>
    BY <1>3 DEF FsRead, fileVars
  <2>2. StaysLinked BY <2>1, SameLinks
  <2>3. ASSUME NEW w, FailsFor(c, w) PROVE Effect(c) BY <2>1, <2>2, <2>3, FailsEffect
  <2>4. CASE ~Locked /\ Reads(c, map)
    <3>1. IsAtomic => kind = "fs" BY <2>1 DEF IsAtomic, IsFs
    <3> QED BY <2>1, <2>2, <2>4, <3>1, ReadsEffect
  <2> QED BY <1>3, <2>3, <2>4 DEF FsRead
<1> QED BY <1>1, <1>2, <1>3, FsOpenEffect, FsWriteEffect, FsRemoveEffect, FsDryRunEffect
-----------------------------------------------------------------------------
(* s3.                                                                      *)

LEMMA S3Effect ==
    ASSUME StoreInv, NEW c \in Clients,
           S3Unsupported(c) \/ S3Look(c) \/ S3Put(c) \/ S3Delete(c) \/ S3Read(c)
    PROVE  Effect(c)
<1> USE DEF StoreInv
<1>1. kind = "s3" /\ kind' = kind /\ pc[c] \notin {"idle", "return"} /\ UNCHANGED <<linked, torn>>
  <2>1. kind = "s3"
    BY DEF S3Unsupported, S3Look, S3Put, S3Delete, S3Read, S3Call, RequestsInv, StepOf
  <2> QED BY <2>1 DEF S3Unsupported, S3Look, S3Put, S3Delete, S3Read, S3Call, fileVars
<1>2. ~IsAtomic /\ StaysLinked /\ torn = {} BY <1>1, SameLinks DEF IsAtomic, ContentsInv, IsFs
<1>3. ASSUME NEW w, FailsFor(c, w), UNCHANGED <<map, old>> PROVE Effect(c)
  BY <1>1, <1>2, <1>3, FailsEffect
<1>4. CASE S3Unsupported(c) BY <1>3, <1>4 DEF S3Unsupported
<1>5. CASE S3Look(c)
  <2>1. Goto(c, "put") \/ Fails(c) BY <1>5 DEF S3Look
  <2>2. UNCHANGED <<map, old>> BY <1>5 DEF S3Look
  <2>3. CASE Goto(c, "put") BY <1>1, <1>2, <2>2, <2>3, GotoEffect
  <2> QED BY <1>3, <2>1, <2>2, <2>3 DEF Fails
<1>6. ASSUME req[c].op \in Writes, NEW v \in Values \cup {Absent}, S3Changes(c, v) PROVE Effect(c)
  <2>1. Key(c) = TheKey BY <1>1, <1>6, RequestFacts DEF Writes
  <2>2. CASE Put(Key(c), v) /\ (Done(c) \/ Fails(c))
    <3>1. pc' = [pc EXCEPT ![c] = "return"] /\ req' = req /\ \E a : ans' = [ans EXCEPT ![c] = a]
      BY <2>2 DEF Done, Fails, FailsFor, Finish
    <3>2. torn' = torn \ {TheKey} BY <1>1, <1>2
    <3>3. PutsPart(v, FALSE) BY <2>1, <2>2, <3>2, PutIsWhole
    <3>4. Puts(c) BY <1>1, <3>1, <3>3 DEF Puts
    <3> QED BY <1>2, <3>1, <3>4 DEF Effect
  <2>3. CASE Fails(c) /\ UNCHANGED <<map, old>> BY <1>3, <2>3 DEF Fails
  <2> QED BY <1>6, <2>2, <2>3 DEF S3Changes
<1>7. CASE S3Put(c)
  <2>1. req[c].op \in {"Create", "Update", "Apply"} BY <1>7 DEF S3Put, S3Call, RequestsInv, StepOf
  <2>2. req[c].val \in Values BY <1>1, <2>1, RequestFacts
  <2> QED BY <1>6, <1>7, <2>1, <2>2 DEF S3Put, Writes
<1>8. CASE S3Delete(c)
  <2>1. req[c].op \in Writes BY <1>8 DEF S3Delete, S3Call, Writes
  <2> QED BY <1>6, <1>8, <2>1 DEF S3Delete
<1>9. CASE S3Read(c)
  <2>1. UNCHANGED <<map, old>> BY <1>9 DEF S3Read
  <2>2. ASSUME NEW w, FailsFor(c, w) PROVE Effect(c) BY <1>3, <2>1, <2>2
  <2>3. ASSUME NEW m, Reads(c, m) PROVE Effect(c)
    <3>1. PICK a, w : Finish(c, a, w) BY <2>3 DEF Reads, FailsFor
    <3> QED BY <1>1, <1>2, <2>1, <3>1, AnswersEffect
  <2> QED BY <1>9, <2>2, <2>3 DEF S3Read
<1> QED BY <1>4, <1>5, <1>7, <1>8, <1>9

-----------------------------------------------------------------------------
(* An API server.                                                           *)

\* The API server's create, update and delete (resource.go, configmap.go).
LEMMA ApiEffect ==
    ASSUME StoreInv, NEW c \in Clients, NEW b, OfApi, UNCHANGED <<kind, linked, torn>>,
           pc[c] \notin {"idle", "return"},
           \/ Refuse(c)
           \/ ApiCreate(c, b) /\ req[c].op \in {"Create", "Apply"}
           \/ ApiUpdate(c, b) /\ req[c].op \in {"Update", "Apply"}
           \/ ApiDelete(c) /\ req[c].op = "Delete"
    PROVE  Effect(c)
<1> USE DEF StoreInv
<1>1. kind # "fs" /\ ~IsFs /\ (IsAtomic => kind = "kube") BY DEF OfApi, IsKube, IsFs, IsAtomic
<1>2. map = old /\ torn = {} BY <1>1, NoHoles DEF ContentsInv
<1>3. StaysLinked BY SameLinks
<1>4. ASSUME Fails(c), ApiKeeps PROVE Effect(c) BY <1>1, <1>3, <1>4, FailsEffect DEF Fails, ApiKeeps
<1>5. ASSUME req[c].op \in Writes, ~Refused(old, req[c]), Accept(c, req[c].val) PROVE Effect(c)
  <2>1. Done(c) \/ Fails(c) BY <1>5 DEF Accept
  <2>2. CASE IsDry(c)
    <3>1. ApiKeeps /\ UNCHANGED <<map, old>> BY <1>5, <2>2 DEF Accept, ApiKeeps
    <3>2. CASE Fails(c) BY <1>4, <3>1, <3>2
    <3>3. CASE Done(c)
      <4>1. IsAtomic => Written(old, req[c]) = old /\ Touches(req[c]) = {}
        BY <1>1, <2>2, OptionFacts DEF Written, Touches
      <4>2. Answer(old, req[c]) = [err |-> FALSE, got |-> Empty] BY <1>5, WriteAnswers
      <4>3. Finish(c, [err |-> FALSE, got |-> Empty], "none") BY <3>3 DEF Done
      <4>4. IsAtomic => Takes(c) BY <3>1, <4>1 DEF Takes
      <4>5. IsAtomic => Happens(c) BY <1>2, <1>5, <4>2, <4>3, <4>4 DEF Happens, Finish
      <4> QED BY <1>1, <1>3, <3>1, <4>3, <4>5, AnswersEffect
    <3> QED BY <2>1, <3>2, <3>3
  <2>3. CASE ~IsDry(c)
    <3>1. Put(Key(c), req[c].val) BY <1>5, <2>3 DEF Accept, ApiPut
    <3>2. IsAtomic => req[c].opt # "dryRun" BY <1>1, <2>3, OptionFacts
    <3>3. Key(c) = TheKey /\ torn' = torn \ {TheKey} BY <1>2, <1>5, RequestFacts DEF Writes
    <3>4. PutsPart(req[c].val, FALSE) BY <3>1, <3>3, PutIsWhole
    <3> QED BY <1>1, <1>5, <2>1, <3>2, <3>4, PutEffect
  <2> QED BY <2>2, <2>3
<1>6. CASE ApiCreate(c, b) /\ req[c].op \in {"Create", "Apply"}
  <2>1. CASE map[Key(c)] # Absent \/ b # 0 BY <1>4, <1>6, <2>1 DEF ApiCreate, Refuse
  <2>2. CASE ~(map[Key(c)] # Absent \/ b # 0)
    <3>1. ~Refused(old, req[c]) BY <1>2, <1>6, <2>2 DEF Refused, Key
    <3> QED BY <1>5, <1>6, <2>2, <3>1 DEF ApiCreate, Writes
  <2> QED BY <2>1, <2>2
<1>7. CASE ApiUpdate(c, b) /\ req[c].op \in {"Update", "Apply"}
  <2>1. CASE map[Key(c)] = Absent \/ (b # 0 /\ b # rev[Key(c)]) BY <1>4, <1>7, <2>1 DEF ApiUpdate, Refuse
  <2>2. CASE ~(map[Key(c)] = Absent \/ (b # 0 /\ b # rev[Key(c)]))
    <3>1. ~Refused(old, req[c]) BY <1>2, <1>7, <2>2 DEF Refused, Key
    <3> QED BY <1>5, <1>7, <2>2, <3>1 DEF ApiUpdate, Writes
  <2> QED BY <2>1, <2>2
<1>8. CASE ApiDelete(c) /\ req[c].op = "Delete"
  <2>1. req[c].val = Absent BY <1>8, RequestFacts
  <2>2. CASE map[Key(c)] = Absent BY <1>4, <1>8, <2>2 DEF ApiDelete, Refuse
  <2>3. CASE map[Key(c)] # Absent
    <3>1. ~Refused(old, req[c]) BY <1>2, <1>8, <2>3 DEF Refused, Key
    <3> QED BY <1>5, <1>8, <2>1, <2>3, <3>1 DEF ApiDelete, Writes
  <2> QED BY <2>2, <2>3
<1> QED BY <1>4, <1>6, <1>7, <1>8 DEF Refuse

LEMMA KubeEffect ==
    ASSUME StoreInv, NEW c \in Clients,
           \/ KubeCreate(c) \/ KubeUpdate(c) \/ KubeApply(c) \/ KubeApplyCreate(c)
           \/ KubeApplyUpdate(c) \/ KubeDelete(c) \/ KubeFails(c) \/ KubeRead(c) \/ CachedRead(c)
    PROVE  Effect(c) /\ OfApi /\ (IsKube \/ KubeFails(c))
<1> USE DEF StoreInv
<1>1. OfApi /\ (IsKube \/ KubeFails(c))
  BY DEF KubeCreate, KubeUpdate, KubeApply, KubeApplyCreate, KubeApplyUpdate, KubeDelete, KubeFails,
         KubeRead, CachedRead, KubeCall, OfApi, IsKube, RequestsInv, StepOf
<1> SUFFICES Effect(c) BY <1>1
<1>2. UNCHANGED <<kind, linked, torn>>
  BY DEF KubeCreate, KubeUpdate, KubeApply, KubeApplyCreate, KubeApplyUpdate, KubeDelete, KubeFails,
         KubeRead, CachedRead, fileVars
<1>3. pc[c] \notin {"idle", "return"}
  BY DEF KubeCreate, KubeUpdate, KubeApply, KubeApplyCreate, KubeApplyUpdate, KubeDelete, KubeFails,
         KubeRead, CachedRead, KubeCall
<1>4. kind # "fs" /\ ~IsFs BY <1>1 DEF OfApi, IsKube, IsFs
<1>5. StaysLinked BY <1>2, SameLinks
<1>6. CASE KubeCreate(c) BY <1>1, <1>2, <1>3, <1>4, <1>6, ApiEffect DEF KubeCreate, KubeCall
<1>7. CASE KubeUpdate(c) BY <1>1, <1>2, <1>3, <1>4, <1>7, ApiEffect DEF KubeUpdate, KubeCall
<1>8. CASE KubeApplyCreate(c)
  <2>1. req[c].op = "Apply" BY <1>8 DEF KubeApplyCreate, RequestsInv, StepOf
  <2> QED BY <1>1, <1>2, <1>3, <1>4, <1>8, <2>1, ApiEffect DEF KubeApplyCreate
<1>9. CASE KubeApplyUpdate(c)
  <2>1. req[c].op = "Apply" BY <1>9 DEF KubeApplyUpdate, RequestsInv, StepOf
  <2> QED BY <1>1, <1>2, <1>3, <1>4, <1>9, <2>1, ApiEffect DEF KubeApplyUpdate
<1>10. CASE KubeDelete(c) BY <1>1, <1>2, <1>3, <1>4, <1>10, ApiEffect DEF KubeDelete, KubeCall
<1>11. ASSUME NEW s \in {"create", "update", "fallback"}, Goto(c, s), UNCHANGED <<map, old>> PROVE Effect(c)
  <2>1. s \notin {"idle", "return"} OBVIOUS
  <2> QED BY <1>1, <1>2, <1>3, <1>4, <1>5, <1>11, <2>1, GotoEffect
<1>12. CASE KubeApply(c) BY <1>1, <1>11, <1>12 DEF KubeApply
<1>13. ASSUME NEW w, FailsFor(c, w), UNCHANGED <<map, old>> PROVE Effect(c)
  BY <1>2, <1>3, <1>4, <1>5, <1>13, FailsEffect
<1>14. CASE KubeRead(c)
  <2>1. req[c].op \in {"Read", "List"} /\ UNCHANGED <<map, old>>
    BY <1>14 DEF KubeRead, RequestsInv, StepOf
  <2>2. Reads(c, map) => Effect(c) BY <1>2, <1>3, <1>4, <1>5, <2>1, ReadsEffect
  <2>3. \A w : FailsFor(c, w) => Effect(c) BY <1>13, <2>1
  <2>4. CASE \E w : FailsFor(c, w) BY <2>3, <2>4
  <2> QED BY <1>14, <2>2, <2>4 DEF KubeRead
<1>15. CASE CachedRead(c)
  <2>1. UNCHANGED <<map, old>> /\ ~IsAtomic BY <1>15 DEF CachedRead, IsAtomic
  <2>2. FailsFor(c, "option") \/ Goto(c, "fallback") \/ Reads(c, Cached) BY <1>15 DEF CachedRead
  <2>3. CASE Reads(c, Cached)
    <3>1. PICK a, w : Finish(c, a, w) BY <2>3 DEF Reads, FailsFor
    <3> QED BY <1>2, <1>3, <1>4, <1>5, <2>1, <3>1, AnswersEffect
  <2>4. CASE Goto(c, "fallback") BY <1>11, <2>1, <2>4
  <2>5. \A w : FailsFor(c, w) => Effect(c) BY <1>13, <2>1
  <2> QED BY <2>2, <2>3, <2>4, <2>5, Zenon
<1>16. CASE KubeFails(c) BY <1>13, <1>16 DEF KubeFails, Fails
<1> QED BY <1>6, <1>7, <1>8, <1>9, <1>10, <1>12, <1>14, <1>15, <1>16

LEMMA CmEffect ==
    ASSUME StoreInv, NEW c \in Clients, CmWrite(c) \/ CmApply(c) \/ CmApplyCreate(c) \/ CmRead(c)
    PROVE  Effect(c) /\ kind = "configmap" /\ kind' = kind
<1> USE DEF StoreInv
<1>1. kind = "configmap" /\ UNCHANGED <<kind, linked, torn>> /\ pc[c] \notin {"idle", "return"}
  BY DEF CmWrite, CmApply, CmApplyCreate, CmRead, CmCall, fileVars
<1>2. OfApi /\ ~IsAtomic /\ StaysLinked BY <1>1, SameLinks DEF OfApi, IsAtomic
<1>3. CASE CmWrite(c)
  <2>1. req[c].op \in {"Create", "Update", "Delete"} BY <1>3 DEF CmWrite, CmCall
  <2>2. CASE req[c].op = "Create" BY <1>1, <1>2, <1>3, <2>2, ApiEffect DEF CmWrite
  <2>3. CASE req[c].op = "Update" BY <1>1, <1>2, <1>3, <2>3, ApiEffect DEF CmWrite
  <2>4. CASE req[c].op = "Delete" BY <1>1, <1>2, <1>3, <2>4, ApiEffect DEF CmWrite
  <2> QED BY <2>1, <2>2, <2>3, <2>4
<1>4. CASE CmApply(c)
  <2>1. req[c].op = "Apply" BY <1>4 DEF CmApply, CmCall
  <2>2. CASE map[Key(c)] = Absent
    <3>1. Goto(c, "create") /\ UNCHANGED <<map, old>> BY <1>4, <2>2 DEF CmApply, ApiKeeps
    <3> QED BY <1>1, <1>2, <3>1, GotoEffect
  <2>3. CASE map[Key(c)] # Absent BY <1>1, <1>2, <1>4, <2>1, <2>3, ApiEffect DEF CmApply
  <2> QED BY <2>2, <2>3
<1>5. CASE CmApplyCreate(c)
  <2>1. req[c].op = "Apply" BY <1>5 DEF CmApplyCreate, RequestsInv, StepOf
  <2> QED BY <1>1, <1>2, <1>5, <2>1, ApiEffect DEF CmApplyCreate
<1>6. CASE CmRead(c)
  <2>1. UNCHANGED <<map, old>> BY <1>6 DEF CmRead
  <2>2. FailsFor(c, "option") \/ Reads(c, Cached) BY <1>6 DEF CmRead
  <2>3. CASE Reads(c, Cached)
    <3>1. PICK a, w : Finish(c, a, w) BY <2>3 DEF Reads, FailsFor
    <3> QED BY <1>1, <1>2, <2>1, <3>1, AnswersEffect
  <2> QED BY <1>1, <1>2, <2>1, <2>2, <2>3, FailsEffect
<1> QED BY <1>1, <1>3, <1>4, <1>5, <1>6
-----------------------------------------------------------------------------
(* The refinement.                                                          *)

\* What the abstract store holds is what was put there last.
LEMMA AbstractIsOld ==
    ASSUME ContentsInv, ContentsInv'
    PROVE  AbstractMap = old /\ AbstractMap' = old'
<1>1. \A k \in Keys : (IF map[k] = Hole THEN old[k] ELSE map[k]) = old[k] BY DEF ContentsInv
<1>2. \A k \in Keys : (IF map'[k] = Hole THEN old'[k] ELSE map'[k]) = old'[k] BY DEF ContentsInv
<1>3. old = [k \in Keys |-> old[k]] /\ old' = [k \in Keys |-> old'[k]] BY DEF ContentsInv, Maps
<1> QED BY <1>1, <1>2, <1>3 DEF AbstractMap

\* Where a call is, seen from outside.
Phase(s) == IF s = "idle" THEN "idle" ELSE IF s = "return" THEN "done" ELSE "called"

LEMMA PhaseStep ==
    ASSUME DOMAIN pc = Clients, NEW c \in Clients, NEW s, pc' = [pc EXCEPT ![c] = s]
    PROVE  /\ AbstractPhase[c] = Phase(pc[c])
           /\ AbstractPhase' = [AbstractPhase EXCEPT ![c] = Phase(s)]
<1>1. AbstractPhase = [d \in Clients |-> Phase(pc[d])] BY DEF AbstractPhase, Phase
<1>2. AbstractPhase' = [d \in Clients |-> Phase(pc'[d])] BY DEF AbstractPhase, Phase
<1>3. \A d \in Clients : pc'[d] = IF d = c THEN s ELSE pc[d] OBVIOUS
<1> QED BY <1>1, <1>2, <1>3

\* A step of the abstract store, or none.
AbstractStep == AbstractStore!Next \/ UNCHANGED AbstractStore!vars

\* The operators of the abstract store are those of the stores.
LEMMA AbstractOperators ==
    /\ AbstractStore!Error = Error /\ AbstractStore!Empty = Empty
    /\ AbstractStore!NoRequest = NoRequest /\ AbstractStore!Requests = Requests
    /\ \A r : /\ AbstractStore!Touched(r) = Touches(r)
              /\ AbstractStore!Unreadable(r)
                    <=> (r.op = "Read" /\ r.key \in torn) \/ (r.op = "List" /\ torn # {})
    /\ \A m, r : /\ AbstractStore!Refused(m, r) <=> Refused(m, r)
                 /\ AbstractStore!Written(m, r) = Written(m, r)
                 /\ AbstractStore!Answer(m, r) = Answer(m, r)
<1>1. AbstractStore!Error = Error /\ AbstractStore!Empty = Empty
  BY DEF AbstractStore!Error, AbstractStore!Empty, Error, Empty
<1>2. AbstractStore!NoRequest = NoRequest /\ AbstractStore!Requests = Requests
  BY DEF AbstractStore!NoRequest, NoRequest, AbstractStore!Requests, Requests
<1>3. \A r : AbstractStore!Touched(r) = Touches(r)
  BY DEF AbstractStore!Touched, AbstractStore!Writes, Touches, Writes
<1>4. \A r : AbstractStore!Unreadable(r)
                <=> (r.op = "Read" /\ r.key \in torn) \/ (r.op = "List" /\ torn # {})
  BY DEF AbstractStore!Unreadable
<1>5. \A m, r : AbstractStore!Refused(m, r) <=> Refused(m, r) BY DEF AbstractStore!Refused, Refused
<1>6. \A m, r : AbstractStore!Written(m, r) = Written(m, r)
  BY DEF AbstractStore!Written, AbstractStore!Writes, Written, Writes
<1>7. ASSUME NEW m, NEW r PROVE AbstractStore!Answer(m, r) = Answer(m, r)
  BY <1>1, <1>5 DEF AbstractStore!Answer, AbstractStore!Empty, Answer, Empty
<1> QED BY <1>1, <1>2, <1>3, <1>4, <1>5, <1>6, <1>7

LEMMA EffectIsAbstract ==
    ASSUME RequestsInv, ContentsInv, ContentsInv', NEW c \in Clients, Ends(c) \/ Passes(c)
    PROVE  AbstractStep
<1>1. AbstractMap = old /\ AbstractMap' = old' BY AbstractIsOld
<1>2. DOMAIN pc = Clients BY DEF RequestsInv
<1>3. CASE Passes(c)
  <2>1. PICK s : s \notin {"idle", "return"} /\ pc' = [pc EXCEPT ![c] = s] BY <1>3 DEF Passes
  <2>2. AbstractPhase[c] = "called" /\ Phase(s) = "called" BY <1>2, <1>3, <2>1, PhaseStep DEF Passes, Phase
  <2>3. AbstractPhase' = [AbstractPhase EXCEPT ![c] = "called"] BY <1>2, <2>1, <2>2, PhaseStep
  <2>4. AbstractPhase' = AbstractPhase BY <2>2, <2>3 DEF AbstractPhase
  <2>5. UNCHANGED <<old, torn, req, ans>> /\ Faults' = Faults BY <1>3 DEF Passes, Faults
  <2> QED BY <1>1, <2>4, <2>5 DEF AbstractStep, AbstractStore!vars
<1>4. CASE Ends(c)
  <2>1. pc' = [pc EXCEPT ![c] = "return"] /\ pc[c] \notin {"idle", "return"} /\ req' = req
    BY <1>4 DEF Ends
  <2>2. AbstractPhase[c] = "called" /\ AbstractPhase' = [AbstractPhase EXCEPT ![c] = "done"]
    BY <1>2, <2>1, PhaseStep DEF Phase
  <2>3. Faults' = Faults BY <1>4 DEF Ends, Faults
  <2>4. AbstractStore!Answered(c, ans'[c]) /\ \A a : ans' = [ans EXCEPT ![c] = a] => AbstractStore!Answered(c, a)
    BY <1>4, <2>1, <2>2, <2>3 DEF Ends, Happens, Denied, Unheard, Tears, Supposes, AbstractStore!Answered, RequestsInv
  <2>5. Takes(c) => AbstractStore!Takes(c) BY <1>1, AbstractOperators DEF Takes, AbstractStore!Takes
  <2>6. CASE Happens(c)
    <3>1. AbstractStore!Do(c) BY <1>1, <2>4, <2>5, <2>6, AbstractOperators DEF Happens, AbstractStore!Do
    <3> QED BY <3>1 DEF AbstractStep, AbstractStore!Next
  <2>7. CASE Denied(c)
    <3>1. AbstractStore!Fail(c) BY <1>1, <2>4, <2>7, AbstractOperators DEF Denied, AbstractStore!Fail
    <3> QED BY <3>1 DEF AbstractStep, AbstractStore!Next
  <2>8. CASE Unheard(c)
    <3>1. AbstractStore!FailAfter(c)
      BY <1>1, <2>4, <2>5, <2>8, AbstractOperators DEF Unheard, AbstractStore!FailAfter, Faults
    <3> QED BY <3>1 DEF AbstractStep, AbstractStore!Next
  <2>9. CASE Tears(c)
    <3>1. AbstractStore!FailTorn(c)
      BY <1>1, <2>4, <2>9, AbstractOperators DEF Tears, AbstractStore!FailTorn, Faults
    <3> QED BY <3>1 DEF AbstractStep, AbstractStore!Next
  <2>10. CASE Supposes(c)
    <3>1. AbstractStore!Guess(c)
      BY <1>1, <2>4, <2>10, AbstractOperators DEF Supposes, AbstractStore!Guess, Faults
    <3> QED BY <3>1 DEF AbstractStep, AbstractStore!Next
  <2> QED BY <1>4, <2>6, <2>7, <2>8, <2>9, <2>10 DEF Ends
<1> QED BY <1>3, <1>4

\* A call begins, and returns.
LEMMA CallIsAbstract ==
    ASSUME RequestsInv, ContentsInv, ContentsInv', UNCHANGED <<kind, old, torn>>, NEW c \in Clients,
           (\E r \in Inputs(c) : Call(c, r)) \/ Return(c)
    PROVE  AbstractStep
<1>1. AbstractMap = old /\ AbstractMap' = old' BY AbstractIsOld
<1>2. DOMAIN pc = Clients /\ Faults' = Faults BY DEF RequestsInv, Faults
<1>3. ASSUME NEW r \in Inputs(c), Call(c, r) PROVE AbstractStep
  <2>1. r \in Requests BY DEF Inputs
  <2>2. pc[c] = "idle" /\ pc' = [pc EXCEPT ![c] = "called"] /\ req' = [req EXCEPT ![c] = r] /\ ans' = ans
    BY <1>3 DEF Call
  <2>3. AbstractPhase[c] = "idle" /\ AbstractPhase' = [AbstractPhase EXCEPT ![c] = "called"]
    BY <1>2, <2>2, PhaseStep DEF Phase
  <2>4. AbstractStore!Invoke(c, r) BY <1>1, <1>2, <2>2, <2>3 DEF AbstractStore!Invoke
  <2> QED BY <2>1, <2>4, AbstractOperators DEF AbstractStep, AbstractStore!Next
<1>4. CASE Return(c)
  <2>1. /\ pc[c] = "return" /\ pc' = [pc EXCEPT ![c] = "idle"]
        /\ req' = [req EXCEPT ![c] = NoRequest] /\ ans' = [ans EXCEPT ![c] = Error]
    BY <1>4 DEF Return
  <2>2. AbstractPhase[c] = "done" /\ AbstractPhase' = [AbstractPhase EXCEPT ![c] = "idle"]
    BY <1>2, <2>1, PhaseStep DEF Phase
  <2>3. AbstractStore!Return(c)
    BY <1>1, <1>2, <2>1, <2>2, AbstractOperators DEF AbstractStore!Return
  <2> QED BY <2>3 DEF AbstractStep, AbstractStore!Next
<1> QED BY <1>3, <1>4

-----------------------------------------------------------------------------
(* The invariant of the stores.                                             *)

\* The actions of one client.
FileAction(c) ==
    /\ \/ FsOpen(c) \/ FsApplyCreate(c) \/ FsWrite(c) \/ FsCrash(c) \/ FsRemove(c)
       \/ FsDryRun(c) \/ FsRead(c)
    /\ UNCHANGED <<objectVars, kubeVars>>
ObjectAction(c) ==
    /\ S3Unsupported(c) \/ S3Look(c) \/ S3Put(c) \/ S3Delete(c) \/ S3Read(c)
    /\ UNCHANGED kubeVars
KubeAction(c) ==
    \/ KubeCreate(c) \/ KubeUpdate(c) \/ KubeApply(c) \/ KubeApplyCreate(c)
    \/ KubeApplyUpdate(c) \/ KubeDelete(c) \/ KubeFails(c) \/ KubeRead(c) \/ CachedRead(c)
ConfigAction(c) == CmWrite(c) \/ CmApply(c) \/ CmApplyCreate(c) \/ CmRead(c)
ClientAction(c) == FileAction(c) \/ ObjectAction(c) \/ KubeAction(c) \/ ConfigAction(c)

LEMMA ClientEffect ==
    ASSUME StoreInv, NEW c \in Clients, ClientAction(c)
    PROVE  Effect(c)
BY FsEffect, S3Effect, KubeEffect, CmEffect
   DEF ClientAction, FileAction, ObjectAction, KubeAction, ConfigAction

LEMMA OptionsKept ==
    ASSUME OptionsInv, kind' = kind, req' = req,
           opts' = opts \/ (kind = "configmap" /\ DOMAIN opts' = DOMAIN opts),
           \A d \in Clients : pc'[d] # "idle" => pc[d] # "idle"
    PROVE  OptionsInv'
<1>1. \A r : OptionLists(r)' = OptionLists(r) BY DEF OptionLists
<1> QED BY <1>1 DEF OptionsInv

LEMMA ClientOptions ==
    ASSUME StoreInv, NEW c \in Clients, ClientAction(c)
    PROVE  OptionsInv'
<1> USE DEF StoreInv
<1>1. kind' = kind /\ req' = req /\ pc[c] # "idle" /\ \E s : pc' = [pc EXCEPT ![c] = s]
  BY ClientEffect DEF Effect, Rests, Opens, Puts
<1>2. \A d \in Clients : pc'[d] # "idle" => pc[d] # "idle" BY <1>1 DEF RequestsInv
<1>3. opts' = opts \/ (kind = "configmap" /\ DOMAIN opts' = DOMAIN opts)
  <2>1. CASE FileAction(c)
    BY <2>1 DEF FileAction, FsOpen, FsApplyCreate, FsWrite, FsCrash, FsRemove, FsDryRun, FsRead
  <2>2. CASE ObjectAction(c)
    BY <2>2 DEF ObjectAction, S3Unsupported, S3Look, S3Put, S3Delete, S3Read
  <2>3. CASE KubeAction(c)
    BY <2>3 DEF KubeAction, KubeCreate, KubeUpdate, KubeApply, KubeApplyCreate, KubeApplyUpdate, KubeDelete,
       KubeFails, KubeRead, CachedRead
  <2>4. CASE ConfigAction(c)
    <3>1. CASE CmApply(c)
      <4>1. opts' = opts \/ opts' = [opts EXCEPT ![c] = PassedOn(@)] BY <3>1 DEF CmApply
      <4>2. kind = "configmap" BY <3>1, CmEffect
      <4> QED BY <4>1, <4>2
    <3> QED BY <2>4, <3>1 DEF ConfigAction, CmWrite, CmApplyCreate, CmRead
  <2> QED BY <2>1, <2>2, <2>3, <2>4 DEF ClientAction
<1> QED BY <1>1, <1>2, <1>3, OptionsKept

\* A call begins with the options of its request.
LEMMA CallKeeps ==
    ASSUME StoreInv, NEW c \in Clients, NEW r, Call(c, r), UNCHANGED fileVars
    PROVE  ContentsInv' /\ LockInv' /\ OptionsInv'
<1> USE DEF StoreInv
<1>1. /\ UNCHANGED <<kind, map, old, linked, torn>>
      /\ pc[c] = "idle" /\ pc' = [pc EXCEPT ![c] = "called"] /\ req' = [req EXCEPT ![c] = r]
  BY DEF Call, fileVars
<1>2. ContentsInv' BY <1>1 DEF ContentsInv, IsFs
<1>3. \A d \in Clients : /\ pc'[d] \in {"write", "create"} <=> pc[d] \in {"write", "create"}
                         /\ pc'[d] = "write" <=> pc[d] = "write"
                         /\ pc'[d] = "create" <=> pc[d] = "create"
                         /\ pc[d] \in {"write", "create"} => req'[d] = req[d]
  BY <1>1 DEF RequestsInv
<1>4. LockInv' BY <1>1, <1>3 DEF LockInv, Holds, Opened, Refused
<1>5. \A q : OptionLists(q)' = OptionLists(q) BY <1>1 DEF OptionLists
<1>6. PICK o \in OptionLists(r) : opts' = [opts EXCEPT ![c] = o] BY DEF Call
<1>7. OptionsInv' BY <1>1, <1>5, <1>6 DEF OptionsInv, RequestsInv
<1> QED BY <1>2, <1>4, <1>7

LEMMA ReturnKeeps ==
    ASSUME StoreInv, NEW c \in Clients, Return(c), UNCHANGED fileVars
    PROVE  ContentsInv' /\ LockInv' /\ OptionsInv'
<1> USE DEF StoreInv
<1>1. /\ UNCHANGED <<kind, map, old, linked, torn>>
      /\ pc[c] = "return" /\ pc' = [pc EXCEPT ![c] = "idle"] /\ req' = [req EXCEPT ![c] = NoRequest]
      /\ opts' = [opts EXCEPT ![c] = <<>>]
  BY DEF Return, fileVars
<1>2. ContentsInv' BY <1>1 DEF ContentsInv, IsFs
<1>3. \A d \in Clients : /\ pc'[d] \in {"write", "create"} <=> pc[d] \in {"write", "create"}
                         /\ pc'[d] = "write" <=> pc[d] = "write"
                         /\ pc'[d] = "create" <=> pc[d] = "create"
                         /\ pc'[d] # "idle" => d # c
                         /\ d # c => req'[d] = req[d] /\ opts'[d] = opts[d] /\ pc'[d] = pc[d]
  BY <1>1 DEF RequestsInv
<1>4. LockInv' BY <1>1, <1>3 DEF LockInv, Holds, Opened, Refused
<1>5. \A q : OptionLists(q)' = OptionLists(q) BY <1>1 DEF OptionLists
<1>6. OptionsInv' BY <1>1, <1>3, <1>5 DEF OptionsInv
<1> QED BY <1>2, <1>4, <1>6

LEMMA StoreInit == Init => StoreInv /\ AbstractMap = old
<1> SUFFICES ASSUME Init PROVE StoreInv /\ AbstractMap = old OBVIOUS
<1>1. /\ map \in Maps /\ old = map /\ linked = {} /\ torn = {} /\ pc = [c \in Clients |-> "idle"]
      /\ opts = [c \in Clients |-> <<>>]
  BY DEF Init, BackendInit, FileInit
<1>2. \A k \in Keys : map[k] # Hole BY <1>1, BackendAssumption DEF Maps
<1>3. ContentsInv BY <1>1, <1>2 DEF ContentsInv, Maps
<1>4. LockInv BY <1>1, <1>2 DEF LockInv, Holds
<1>5. OptionsInv BY <1>1 DEF OptionsInv
<1>6. AbstractMap = old BY <1>1, <1>2 DEF AbstractMap, Maps
<1> QED BY <1>3, <1>4, <1>5, <1>6, BackendsInit DEF StoreInv

\* Every step keeps the invariant, and is one of the abstract store or none.
LEMMA StoreNext ==
    ASSUME StoreInv, RequestsInv', [Next]_vars
    PROVE  StoreInv' /\ (IsAtomic => AbstractStep)
<1> USE DEF StoreInv
<1>1. ASSUME NEW c \in Clients, ClientAction(c) PROVE StoreInv' /\ (IsAtomic => AbstractStep)
  <2>1. Effect(c) BY <1>1, ClientEffect
  <2>2. OptionsInv' BY <1>1, ClientOptions
  <2>3. ContentsInv' /\ LockInv' BY <2>1, RestsKeeps, OpensKeeps, PutsKeeps DEF Effect
  <2>4. IsAtomic => AbstractStep BY <2>1, <2>3, EffectIsAbstract DEF Effect
  <2> QED BY <2>2, <2>3, <2>4
<1>2. ASSUME NEW c \in Clients, NEW r \in Inputs(c), Call(c, r), UNCHANGED fileVars
      PROVE  StoreInv' /\ (IsAtomic => AbstractStep)
  <2>1. ContentsInv' /\ LockInv' /\ OptionsInv' BY <1>2, CallKeeps
  <2>2. UNCHANGED <<kind, old, torn>> BY <1>2 DEF Call, fileVars
  <2> QED BY <1>2, <2>1, <2>2, CallIsAbstract
<1>3. ASSUME NEW c \in Clients, Return(c), UNCHANGED fileVars
      PROVE  StoreInv' /\ (IsAtomic => AbstractStep)
  <2>1. ContentsInv' /\ LockInv' /\ OptionsInv' BY <1>3, ReturnKeeps
  <2>2. UNCHANGED <<kind, old, torn>> BY <1>3 DEF Return, fileVars
  <2> QED BY <1>3, <2>1, <2>2, CallIsAbstract
<1>4. ASSUME UNCHANGED <<kind, map, old, callVars, linked, torn>> PROVE StoreInv' /\ (IsAtomic => AbstractStep)
  <2>1. ContentsInv' BY <1>4 DEF ContentsInv, IsFs
  <2>2. LockInv' BY <1>4 DEF LockInv, Holds, Opened, Refused, callVars
  <2>3. OptionsInv' BY <1>4, OptionsKept DEF callVars
  <2>4. AbstractStep
    <3>1. AbstractMap' = AbstractMap BY <1>4 DEF AbstractMap
    <3>2. AbstractPhase' = AbstractPhase /\ Faults' = Faults BY <1>4 DEF AbstractPhase, Faults, callVars
    <3> QED BY <1>4, <3>1, <3>2 DEF AbstractStep, AbstractStore!vars, callVars
  <2> QED BY <2>1, <2>2, <2>3, <2>4
<1>5. CASE Deliver BY <1>4, <1>5 DEF Deliver, baseVars, fileVars
<1>6. CASE UNCHANGED vars BY <1>4, <1>6 DEF vars, baseVars, fileVars
<1>7. Next => \/ \E c \in Clients : ClientAction(c)
              \/ \E c \in Clients : \E r \in Inputs(c) : Call(c, r) /\ UNCHANGED fileVars
              \/ \E c \in Clients : Return(c) /\ UNCHANGED fileVars
              \/ Deliver
  BY DEF Next, ClientAction, FileAction, ObjectAction, KubeAction, ConfigAction
<1> QED BY <1>1, <1>2, <1>3, <1>5, <1>6, <1>7

\* In one process, or at one API server, every call that returns no error happens
\* at one instant between its start and its end, on one map (fs.go: the lock is
\* held from open to close; resource.go: a write at the API server is refused if
\* it comes too late).  One that fails changes nothing; or it has happened at such
\* an instant; or it leaves the file of its key without a value, until the key is
\* written again (fs.go:139, 173, 200).  A dry run of Create that cannot open its
\* file is the one success that tells nothing (fs.go:118).  For any clients, keys
\* and values.
THEOREM StoresAreAtomic == MCSpec => ImplementsKeyValue
<1> DEFINE Inv == VersionsInv /\ StoreInv
<1>1. MCInit => Inv /\ (IsAtomic => AbstractStore!Init)
  <2> SUFFICES ASSUME MCInit PROVE Inv /\ (IsAtomic => AbstractStore!Init) OBVIOUS
  <2>1. Init BY DEF MCInit
  <2>2. VersionsInv /\ StoreInv /\ AbstractMap = old BY <2>1, BackendsInit, StoreInit
  <2>3. AbstractMap \in AbstractStore!Maps BY <2>2 DEF AbstractStore!Maps, StoreInv, ContentsInv, Maps
  <2>4. AbstractStore!Init
    <3>1. Faults \in SUBSET {"before", "after", "torn", "blind"} BY DEF Faults
    <3>2. torn = {} BY <2>1 DEF Init, FileInit
    <3> QED BY <2>1, <2>3, <3>1, <3>2, AbstractOperators DEF Init, BackendInit, AbstractPhase, AbstractStore!Init
  <2> QED BY <2>2, <2>4
<1>2. Inv /\ [MCNext]_all => Inv' /\ [IsAtomic => AbstractStore!Next]_(AbstractStore!vars)
  <2> SUFFICES ASSUME Inv, [MCNext]_all
               PROVE  Inv' /\ [IsAtomic => AbstractStore!Next]_(AbstractStore!vars)
    OBVIOUS
  <2>1. [Next]_vars BY DEF MCNext, all
  <2>2. VersionsInv' /\ RequestsInv' BY <2>1, BackendsNext DEF StoreInv
  <2>3. StoreInv' /\ (IsAtomic => AbstractStep) BY <2>1, <2>2, StoreNext
  <2> QED BY <2>2, <2>3 DEF AbstractStep
<1> QED BY <1>1, <1>2, PTL DEF MCSpec, ImplementsKeyValue

-----------------------------------------------------------------------------
(* What an informer has heard.                                              *)

\* Its copy and its news are of values, never of files.
InformerInv ==
    /\ cache \in [Keys -> [val : Values \cup {Absent}, rev : Nat]]
    /\ news \in Seq([key : Keys, val : Values \cup {Absent}, rev : Nat])
    /\ unsynced \in Nat /\ unsynced <= Len(news)

\* A key that has been there all the time is in the copy or in what is left of
\* the first list, and no news say that it is gone; no call begins before the
\* first list is through.
SyncInv ==
    waits =>
        /\ kind = "cached"
        /\ \A k \in always : map[k] # Absent
        /\ \A i \in DOMAIN news : news[i].key \in always => news[i].val # Absent
        /\ \A k \in always : cache[k].val # Absent \/ \E i \in 1..unsynced : news[i].key = k
        /\ unsynced = 0 \/ \A c \in Clients : pc[c] = "idle"

HeardInv == InformerInv /\ SyncInv /\ always \subseteq Keys

\* The API server has changed the object, and told the informers, or nothing
\* has changed.
Tells ==
    \/ UNCHANGED <<map, always, news>>
    \/ \E v \in Values \cup {Absent}, n \in Nat :
        /\ map' = [map EXCEPT ![TheKey] = v]
        /\ news' = IF HasNews THEN Append(news, [key |-> TheKey, val |-> v, rev |-> n]) ELSE news
        /\ always' = IF v = Absent THEN always \ {TheKey} ELSE always

LEMMA AcceptTells ==
    ASSUME RequestsInv, VersionsInv, NEW c \in Clients, pc[c] # "idle", req[c].op # "List",
           NEW v \in Values \cup {Absent}, Accept(c, v)
    PROVE  Tells
<1>1. CASE IsDry(c) BY <1>1 DEF Accept, ApiKeeps, Tells
<1>2. CASE ~IsDry(c)
  <2>1. ApiPut(c, v) /\ Key(c) = TheKey /\ clock + 1 \in Nat BY <1>2, RequestFacts DEF Accept, VersionsInv
  <2> QED BY <2>1 DEF ApiPut, Put, Tells
<1> QED BY <1>1, <1>2

LEMMA ApiTells ==
    ASSUME RequestsInv, VersionsInv, NEW c \in Clients, pc[c] # "idle", req[c].op \in Writes, NEW b,
           Refuse(c) \/ ApiCreate(c, b) \/ ApiUpdate(c, b) \/ ApiDelete(c)
    PROVE  Tells
<1>1. CASE Refuse(c) BY <1>1 DEF Refuse, ApiKeeps, Tells
<1>2. req[c].op # "List" /\ req[c].val \in Values \cup {Absent} /\ Absent \in Values \cup {Absent}
  BY RequestFacts DEF Writes
<1>3. Accept(c, req[c].val) \/ Accept(c, Absent) => Tells BY <1>2, AcceptTells
<1>4. CASE ApiCreate(c, b) BY <1>1, <1>3, <1>4 DEF ApiCreate
<1>5. CASE ApiUpdate(c, b) BY <1>1, <1>3, <1>5 DEF ApiUpdate
<1>6. CASE ApiDelete(c) BY <1>1, <1>3, <1>6 DEF ApiDelete
<1> QED BY <1>1, <1>4, <1>5, <1>6

LEMMA ServerTells ==
    ASSUME StoreInv, VersionsInv, NEW c \in Clients, KubeAction(c) \/ ConfigAction(c)
    PROVE  Tells /\ UNCHANGED <<cache, unsynced, waits>>
<1> USE DEF StoreInv
<1>1. UNCHANGED <<cache, unsynced, waits>>
  BY DEF KubeAction, ConfigAction, KubeCreate, KubeUpdate, KubeApply, KubeApplyCreate, KubeApplyUpdate,
     KubeDelete, KubeFails, KubeRead, CachedRead, CmWrite, CmApply, CmApplyCreate, CmRead, kubeVars, infVars
<1>2. pc[c] \in {"create", "update"} => req[c].op \in Writes BY DEF RequestsInv, StepOf, Writes
<1>3. ASSUME pc[c] # "idle", req[c].op \in Writes, NEW b,
             Refuse(c) \/ ApiCreate(c, b) \/ ApiUpdate(c, b) \/ ApiDelete(c)
      PROVE  Tells
  BY <1>3, ApiTells
<1>4. CASE KubeCreate(c) BY <1>3, <1>4 DEF KubeCreate, KubeCall, Writes
<1>5. CASE KubeUpdate(c) BY <1>3, <1>5 DEF KubeUpdate, KubeCall, Writes
<1>6. CASE KubeApplyCreate(c) BY <1>2, <1>3, <1>6 DEF KubeApplyCreate
<1>7. CASE KubeApplyUpdate(c) BY <1>2, <1>3, <1>7 DEF KubeApplyUpdate
<1>8. CASE KubeDelete(c) BY <1>3, <1>8 DEF KubeDelete, KubeCall, Writes
<1>9. CASE KubeApply(c) \/ KubeFails(c) \/ KubeRead(c) \/ CachedRead(c) \/ CmRead(c)
  BY <1>9 DEF KubeApply, KubeFails, KubeRead, CachedRead, CmRead, kubeVars, apiVars, infVars, Tells
<1>10. CASE CmWrite(c) BY <1>3, <1>10 DEF CmWrite, CmCall, Writes
<1>11. CASE CmApply(c)
  <2>1. pc[c] # "idle" /\ req[c].op \in Writes BY <1>11 DEF CmApply, CmCall, Writes
  <2>2. CASE map[Key(c)] = Absent BY <1>11, <2>2 DEF CmApply, ApiKeeps, Tells
  <2>3. CASE map[Key(c)] # Absent BY <1>3, <1>11, <2>1, <2>3 DEF CmApply
  <2> QED BY <2>2, <2>3
<1>12. CASE CmApplyCreate(c) BY <1>2, <1>3, <1>12 DEF CmApplyCreate
<1> QED BY <1>1, <1>4, <1>5, <1>6, <1>7, <1>8, <1>9, <1>10, <1>11, <1>12 DEF KubeAction, ConfigAction

LEMMA TellsKeeps ==
    ASSUME HeardInv, StoreInv, NEW c \in Clients, pc[c] # "idle", Tells,
           UNCHANGED <<kind, cache, unsynced, waits>>, \A d \in Clients : pc[d] = "idle" => pc'[d] = "idle"
    PROVE  HeardInv'
<1> USE DEF StoreInv, HeardInv
<1>1. CASE UNCHANGED <<map, always, news>> BY <1>1 DEF Tells, InformerInv, SyncInv
<1>2. ASSUME NEW v \in Values \cup {Absent}, NEW n \in Nat,
             map' = [map EXCEPT ![TheKey] = v],
             news' = IF HasNews THEN Append(news, [key |-> TheKey, val |-> v, rev |-> n]) ELSE news,
             always' = IF v = Absent THEN always \ {TheKey} ELSE always
      PROVE  HeardInv'
  <2> DEFINE T == [key : Keys, val : Values \cup {Absent}, rev : Nat]
             e == [key |-> TheKey, val |-> v, rev |-> n]
  <2>1. e \in T /\ TheKey \in Keys BY BackendsAssumption
  <2>2. news \in Seq(T) /\ unsynced \in Nat /\ unsynced <= Len(news) BY DEF InformerInv
  <2>3. e.key = TheKey /\ e.val = v OBVIOUS
  <2> HIDE DEF e, T
  <2>4. /\ Append(news, e) \in Seq(T) /\ Len(Append(news, e)) = Len(news) + 1
        /\ \A i \in 1..Len(news) : Append(news, e)[i] = news[i]
        /\ Append(news, e)[Len(news) + 1] = e
    BY <2>1, <2>2, AppendProperties
  <2>5. news' = IF HasNews THEN Append(news, e) ELSE news BY <1>2 DEF e
  <2>6. Len(news) \in Nat /\ DOMAIN news = 1..Len(news) BY <2>2
  <2>7. news' \in Seq(T) /\ unsynced <= Len(news') /\ Len(news') \in Nat BY <2>2, <2>4, <2>5, <2>6
  <2>8. InformerInv' BY <2>7 DEF InformerInv, T
  <2>9. always' \subseteq always BY <1>2
  <2>10. ASSUME waits PROVE SyncInv'
    <3>1. kind = "cached" /\ HasNews BY <2>10 DEF SyncInv, HasNews
    <3>2. news' = Append(news, e) /\ DOMAIN news' = 1..(Len(news) + 1) BY <2>4, <2>5, <2>6, <3>1
    <3>3. \A k \in always' : map'[k] # Absent BY <1>2, <2>9, <2>10 DEF SyncInv, ContentsInv
    <3>4. ASSUME NEW i \in DOMAIN news', news'[i].key \in always' PROVE news'[i].val # Absent
      <4>1. CASE i \in 1..Len(news) BY <2>4, <2>6, <2>9, <2>10, <3>2, <3>4, <4>1 DEF SyncInv
      <4>2. CASE i = Len(news) + 1 BY <1>2, <2>3, <2>4, <3>2, <3>4, <4>2
      <4> QED BY <2>6, <3>2, <4>1, <4>2
    <3>5. unsynced = 0 BY <2>10 DEF SyncInv
    <3>6. \A k \in always' : cache[k].val # Absent BY <2>9, <2>10, <3>5 DEF SyncInv
    <3> QED BY <3>1, <3>3, <3>4, <3>5, <3>6 DEF SyncInv
  <2>11. SyncInv' BY <2>10 DEF SyncInv
  <2> QED BY <2>8, <2>9, <2>11
<1> QED BY <1>1, <1>2 DEF Tells

\* The informer hears of a change.
LEMMA DeliverKeeps ==
    ASSUME HeardInv, Deliver
    PROVE  HeardInv'
<1> USE DEF HeardInv
<1> DEFINE T == [key : Keys, val : Values \cup {Absent}, rev : Nat]
           h == Head(news)
<1>1. /\ news # <<>> /\ news \in Seq(T) /\ unsynced \in Nat /\ unsynced <= Len(news)
      /\ cache' = [cache EXCEPT ![h.key] = [val |-> h.val, rev |-> h.rev]]
      /\ news' = Tail(news) /\ unsynced' = IF unsynced > 0 THEN unsynced - 1 ELSE 0
      /\ UNCHANGED <<kind, map, pc, always, waits>>
  BY DEF Deliver, InformerInv, baseVars, callVars, apiVars
<1> HIDE DEF T
<1>2. /\ h \in T /\ h = news[1] /\ Len(news) \in Nat \ {0}
      /\ Tail(news) \in Seq(T) /\ Len(Tail(news)) = Len(news) - 1
      /\ \A i \in 1..(Len(news) - 1) : Tail(news)[i] = news[i + 1]
  BY <1>1, HeadTailProperties, EmptySeq, LenProperties
<1>3. h.key \in Keys /\ h.val \in Values \cup {Absent} /\ h.rev \in Nat BY <1>2 DEF T
<1>4. InformerInv'
  <2>1. cache' \in [Keys -> [val : Values \cup {Absent}, rev : Nat]] BY <1>1, <1>3 DEF InformerInv
  <2>2. unsynced' \in Nat /\ unsynced' <= Len(news') BY <1>1, <1>2
  <2> QED BY <1>1, <1>2, <2>1, <2>2 DEF InformerInv, T
<1>5. ASSUME waits PROVE SyncInv'
  <2>1. DOMAIN news = 1..Len(news) /\ DOMAIN news' = 1..(Len(news) - 1) BY <1>1, <1>2
  <2>2. \A i \in DOMAIN news' : news'[i] = news[i + 1] /\ i + 1 \in DOMAIN news BY <1>1, <1>2, <2>1
  <2>3. \A i \in DOMAIN news' : news'[i].key \in always => news'[i].val # Absent
    BY <1>5, <2>2 DEF SyncInv
  <2>4. 1 \in DOMAIN news BY <1>2, <2>1
  <2>5. h.key \in always => h.val # Absent BY <1>2, <1>5, <2>4 DEF SyncInv
  <2>6. ASSUME NEW k \in always, cache'[k].val = Absent PROVE \E i \in 1..unsynced' : news'[i].key = k
    <3>1. k # h.key /\ cache'[k] = cache[k]
      <4>1. k \in Keys /\ DOMAIN cache = Keys BY DEF InformerInv
      <4>2. CASE k = h.key
        <5>1. cache'[k] = [val |-> h.val, rev |-> h.rev] BY <1>1, <4>1, <4>2
        <5> QED BY <2>5, <2>6, <4>2, <5>1
      <4>3. CASE k # h.key BY <1>1, <4>1, <4>3
      <4> QED BY <4>2, <4>3
    <3>2. PICK i \in 1..unsynced : news[i].key = k BY <1>5, <2>6, <3>1 DEF SyncInv
    <3>3. i # 1 BY <1>2, <3>1, <3>2
    <3>4. PICK j \in Nat : j = i - 1 BY <3>2, <1>1
    <3>5. j \in 1..unsynced' /\ j \in 1..(Len(news) - 1) /\ j + 1 = i BY <1>1, <1>2, <3>2, <3>3, <3>4
    <3>6. news'[j].key = k BY <2>1, <2>2, <3>2, <3>5
    <3> QED BY <3>5, <3>6
  <2>7. unsynced' = 0 \/ \A d \in Clients : pc[d] = "idle" BY <1>1, <1>5 DEF SyncInv
  <2>8. kind = "cached" /\ \A k \in always : map[k] # Absent BY <1>5 DEF SyncInv
  <2> QED BY <1>1, <2>3, <2>6, <2>7, <2>8 DEF SyncInv
<1>6. SyncInv' BY <1>1, <1>5 DEF SyncInv
<1> QED BY <1>1, <1>4, <1>6

\* A list of all objects, none twice, has each of them.
LEMMA ListedOnce ==
    ASSUME NEW S, IsFiniteSet(S), NEW s \in [1..Cardinality(S) -> S],
           \A i, j \in DOMAIN s : s[i] = s[j] => i = j, NEW k \in S
    PROVE  \E i \in 1..Cardinality(S) : s[i] = k
<1> SUFFICES ASSUME \A i \in 1..Cardinality(S) : s[i] # k PROVE FALSE OBVIOUS
<1> DEFINE n == Cardinality(S)
<1>1. n \in Nat BY FS_CardinalityType
<1>2. IsFiniteSet(S \ {k}) /\ Cardinality(S \ {k}) = n - 1 BY FS_RemoveElement
<1>3. n >= 1 BY <1>1, <1>2, FS_CardinalityType
<1>4. IsFiniteSet(1..n) /\ Cardinality(1..n) = n BY <1>1, <1>3, FS_Interval
<1>5. s \in [1..n -> S \ {k}] OBVIOUS
<1> DEFINE D == 1..n
           R == S \ {k}
<1>6. /\ IsFiniteSet(D) /\ IsFiniteSet(R) /\ s \in [D -> R] /\ Cardinality(R) < Cardinality(D)
      /\ D = DOMAIN s
  BY <1>1, <1>2, <1>4, <1>5
<1> HIDE DEF D, R
<1>7. \E x, y \in D : x # y /\ s[x] = s[y] BY <1>6, FS_PigeonHole
<1> QED BY <1>6, <1>7

\* The informer begins with a list of what is there.
LEMMA HeardInit == Init => HeardInv
<1> SUFFICES ASSUME Init PROVE HeardInv OBVIOUS
<1> USE DEF HeardInv
<1> DEFINE T == [key : Keys, val : Values \cup {Absent}, rev : Nat]
<1>1. /\ KubeInit /\ map \in Maps /\ pc = [c \in Clients |-> "idle"] BY DEF Init, BackendInit
<1>2. /\ always = Present /\ unsynced = Len(news) /\ cache = [k \in Keys |-> [val |-> Absent, rev |-> 0]]
      /\ (waits => kind = "cached")
  BY <1>1 DEF KubeInit
<1>3. Present \subseteq Keys /\ IsFiniteSet(Present)
  <2>1. Present \in SUBSET Keys BY DEF Present
  <2> QED BY <2>1, KubeStoreAssumption, FS_Subset
<1>4. Cardinality(Present) \in Nat BY <1>3, FS_CardinalityType
<1>5. CASE HasNews
  <2>1. PICK order \in [1..Cardinality(Present) -> Present] :
          /\ \A i, j \in DOMAIN order : order[i] = order[j] => i = j
          /\ news = [i \in DOMAIN order |-> [key |-> order[i], val |-> map[order[i]], rev |-> 1]]
    BY <1>1, <1>5 DEF KubeInit
  <2> DEFINE n == Cardinality(Present)
  <2>2. \A i \in 1..n : order[i] \in Keys /\ map[order[i]] \in Values \cup {Absent} /\ map[order[i]] # Absent
    BY <1>1, <1>3, <2>1 DEF Maps, Present
  <2>3. news = [i \in 1..n |-> [key |-> order[i], val |-> map[order[i]], rev |-> 1]] BY <2>1
  <2>4. n \in Nat BY <1>4
  <2> HIDE DEF n
  <2>5. news \in [1..n -> T] BY <2>2, <2>3
  <2>6. news \in Seq(T) /\ Len(news) = n
    <3> HIDE DEF T
    <3>1. news \in Seq(T) BY <2>4, <2>5, SeqDef
    <3>2. DOMAIN news = 1..n BY <2>5
    <3> QED BY <2>4, <3>1, <3>2, LenProperties
  <2>7. InformerInv BY <1>2, <2>4, <2>6 DEF InformerInv
  <2>8. \A i \in DOMAIN news : news[i].val # Absent BY <2>2, <2>3
  <2>9. ASSUME NEW k \in always PROVE \E i \in 1..unsynced : news[i].key = k
    <3>1. \E i \in 1..n : order[i] = k BY <1>2, <1>3, <2>1, <2>9, ListedOnce DEF n
    <3> QED BY <1>2, <2>3, <2>6, <3>1
  <2>10. SyncInv BY <1>1, <1>2, <2>8, <2>9 DEF SyncInv, Present
  <2> QED BY <1>2, <1>3, <2>7, <2>10
<1>6. CASE ~HasNews
  <2>1. news = <<>> BY <1>1, <1>6 DEF KubeInit
  <2>2. news \in Seq(T) /\ Len(news) = 0 BY <2>1
  <2>3. InformerInv BY <1>2, <2>2 DEF InformerInv
  <2>4. ~waits BY <1>2, <1>6 DEF HasNews
  <2> QED BY <1>2, <1>3, <2>3, <2>4 DEF SyncInv
<1> QED BY <1>5, <1>6

-----------------------------------------------------------------------------
(* What is there is found.                                                  *)

\* What a Read or a List of these contents answers.
LEMMA ReadsAnswer ==
    ASSUME RequestsInv, NEW c \in Clients, pc[c] # "idle", NEW m, req[c].op \in {"Read", "List"},
           Reads(c, m)
    PROVE  /\ req[c].op = "Read" /\ ans'[c].err =>
                \/ why'[c] = "notFound" /\ m[Key(c)] = Absent
                \/ why'[c] = "unreadable" /\ m[Key(c)] = Hole
           /\ req[c].op = "List" /\ ~ans'[c].err => ans'[c].got = m
<1>1. CASE \E k \in Keys : m[k] = Hole /\ (req[c].op = "List" \/ k = Key(c))
  <2>1. FailsFor(c, "unreadable") BY <1>1 DEF Reads
  <2>2. ans'[c].err /\ why'[c] = "unreadable" BY <2>1, Failing
  <2>3. req[c].op = "Read" => m[Key(c)] = Hole BY <1>1
  <2> QED BY <2>2, <2>3
<1>2. CASE ~\E k \in Keys : m[k] = Hole /\ (req[c].op = "List" \/ k = Key(c))
  <2>1. /\ ans' = [ans EXCEPT ![c] = Answer(m, req[c])]
        /\ why' = [why EXCEPT ![c] = IF Refused(m, req[c]) THEN "notFound" ELSE "none"]
    BY <1>2 DEF Reads, Finish
  <2>2. /\ ans'[c] = Answer(m, req[c])
        /\ why'[c] = IF Refused(m, req[c]) THEN "notFound" ELSE "none"
    BY <2>1 DEF RequestsInv
  <2>3. req[c].op = "Read" => (Refused(m, req[c]) <=> m[Key(c)] = Absent) BY DEF Refused, Key
  <2>4. req[c].op = "List" => ~Refused(m, req[c]) BY DEF Refused
  <2>5. Refused(m, req[c]) <=> ans'[c].err BY <2>2 DEF Answer, Error
  <2> QED BY <2>2, <2>3, <2>4, <2>5 DEF Answer
<1> QED BY <1>1, <1>2

\* A Read that ends in this step with an error has had a reason ...
ReadsWell(c) ==
    /\ kind \in {"fs", "kube", "cached"}
    /\ req[c].op = "Read" /\ pc[c] # "return" /\ pc'[c] = "return" /\ ans'[c].err
    => \/ why'[c] = "notFound" /\ map[Key(c)] = Absent
       \/ why'[c] = "unopened" /\ kind = "fs"
       \/ why'[c] = "unreadable" /\ kind = "fs" /\ Key(c) \in torn
       \/ why'[c] = "option" /\ kind # "cached" /\ opts[c] # <<>>
       \/ why'[c] = "fault" /\ (kind = "kube" \/ pc[c] = "fallback")

LEMMA ReasonsSuffice ==
    ASSUME \A c \in Clients : ReadsWell(c)
    PROVE  NotFoundMeansAbsent
<1> SUFFICES ASSUME NEW c \in Clients, kind \in {"fs", "kube", "cached"},
                    req[c].op = "Read", pc[c] # "return", pc'[c] = "return", ans'[c].err
             PROVE  CASE why'[c] = "notFound"   -> map[Key(c)] = Absent
                      [] why'[c] = "unopened"   -> kind = "fs"
                      [] why'[c] = "unreadable" -> kind = "fs" /\ Key(c) \in torn
                      [] why'[c] = "option"     -> kind # "cached" /\ opts[c] # <<>>
                      [] OTHER                  -> why'[c] = "fault" /\ (kind = "kube" \/ pc[c] = "fallback")
  BY DEF NotFoundMeansAbsent
<1> QED BY DEF ReadsWell

\* ... and a List shows what has been there all the time.
ListsWell(c) ==
    waits /\ req[c].op = "List" /\ pc'[c] = "return" /\ ~ans'[c].err
        => \A k \in always : ans'[c].got[k] # Absent

LEMMA FilesRead ==
    ASSUME StoreInv, HeardInv, NEW c \in Clients, FileAction(c) \/ ObjectAction(c) \/ ConfigAction(c)
    PROVE  ReadsWell(c) /\ ListsWell(c)
<1> USE DEF StoreInv, HeardInv
<1>1. CASE ObjectAction(c)
  <2>1. kind = "s3"
    BY <1>1 DEF ObjectAction, S3Unsupported, S3Look, S3Put, S3Delete, S3Read, S3Call, RequestsInv, StepOf
  <2> QED BY <2>1 DEF ReadsWell, ListsWell, SyncInv
<1>2. CASE ConfigAction(c)
  <2>1. kind = "configmap" BY <1>2, CmEffect DEF ConfigAction
  <2> QED BY <2>1 DEF ReadsWell, ListsWell, SyncInv
<1>3. CASE FileAction(c)
  <2>1. IsFs
    <3>1. CASE FsWrite(c) BY <3>1 DEF FsWrite, RequestsInv, StepOf
    <3>2. CASE FsCrash(c) BY <3>2 DEF FsCrash, IsFs
    <3> QED BY <1>3, <3>1, <3>2 DEF FileAction, FsOpen, FsApplyCreate, FsRemove, FsDryRun, FsRead
  <2>2. ListsWell(c) BY <2>1 DEF ListsWell, SyncInv, IsFs
  <2>3. CASE FsRead(c)
    <3>1. pc[c] = "called" /\ req[c].op \in {"Read", "List"} BY <2>3 DEF FsRead
    <3>2. CASE opts[c] # <<>>
      <4>1. why'[c] = "option" BY <2>3, <3>2, Failing DEF FsRead
      <4> QED BY <2>1, <2>2, <3>2, <4>1 DEF ReadsWell, IsFs
    <3>3. CASE opts[c] = <<>> /\ FailsFor(c, "unopened")
      <4>1. why'[c] = "unopened" BY <3>3, Failing
      <4> QED BY <2>1, <2>2, <4>1 DEF ReadsWell, IsFs
    <3>4. CASE ~Locked /\ Reads(c, map)
      <4>1. kind = "fs" /\ req[c].op = "Read" /\ map[Key(c)] = Hole => Key(c) \in torn
        <5>1. kind = "fs" => \A k \in Keys : map[k] = IF k \in torn THEN Hole ELSE old[k]
          BY <3>4, NoHoles
        <5>2. kind = "fs" => \A k \in Keys : old[k] # Hole BY <3>4, NoHoles
        <5>3. req[c].op = "Read" => Key(c) \in Keys BY <3>1, RequestFacts
        <5> QED BY <5>1, <5>2, <5>3
      <4>2. req[c].op = "Read" /\ ans'[c].err =>
              \/ why'[c] = "notFound" /\ map[Key(c)] = Absent
              \/ why'[c] = "unreadable" /\ map[Key(c)] = Hole
        BY <3>1, <3>4, ReadsAnswer
      <4>3. ReadsWell(c) BY <2>1, <4>1, <4>2 DEF ReadsWell, IsFs
      <4> QED BY <2>2, <4>3
    <3> QED BY <2>3, <3>2, <3>3, <3>4 DEF FsRead
  <2>4. CASE ~FsRead(c)
    <3>1. req[c].op # "Read"
      BY <1>3, <2>4 DEF FileAction, FsOpen, FsApplyCreate, FsWrite, FsCrash, FsRemove, FsDryRun, RequestsInv,
         StepOf, Writes
    <3> QED BY <2>2, <3>1 DEF ReadsWell
  <2> QED BY <2>2, <2>3, <2>4
<1> QED BY <1>1, <1>2, <1>3

LEMMA ResourcesRead ==
    ASSUME StoreInv, HeardInv, NEW c \in Clients, KubeAction(c)
    PROVE  ReadsWell(c) /\ ListsWell(c)
<1> USE DEF StoreInv, HeardInv
<1>1. OfApi BY KubeEffect DEF KubeAction
<1>2. \A k \in Keys : map[k] # Hole BY <1>1 DEF OfApi, IsKube, IsFs, ContentsInv
<1>3. pc[c] \notin {"idle", "return"} BY ClientEffect DEF ClientAction, Effect, Rests, Opens, Puts
<1>4. CASE KubeRead(c)
  <2>1. req[c].op \in {"Read", "List"} BY <1>4 DEF KubeRead, RequestsInv, StepOf
  <2>2. CASE kind = "kube" /\ FailsFor(c, "option") /\ opts[c] # <<>>
    <3>1. kind # "cached" /\ ~waits BY <2>2 DEF SyncInv
    <3>2. why'[c] = "option" BY <2>2, Failing
    <3> QED BY <2>2, <3>1, <3>2 DEF ReadsWell, ListsWell
  <2>3. CASE FailsFor(c, "fault")
    <3>1. kind = "kube" \/ pc[c] = "fallback" BY <1>4 DEF KubeRead
    <3>2. why'[c] = "fault" /\ ans'[c].err BY <2>3, Failing
    <3> QED BY <3>1, <3>2 DEF ReadsWell, ListsWell
  <2>4. CASE Reads(c, map)
    <3>1. req[c].op = "Read" /\ ans'[c].err => why'[c] = "notFound" /\ map[Key(c)] = Absent
      <4>1. req[c].op = "Read" => map[Key(c)] # Hole BY <1>2, <1>3, RequestFacts
      <4> QED BY <1>3, <2>1, <2>4, <4>1, ReadsAnswer
    <3>2. req[c].op = "List" /\ ~ans'[c].err => ans'[c].got = map BY <1>3, <2>1, <2>4, ReadsAnswer
    <3>3. waits => \A k \in always : map[k] # Absent BY DEF SyncInv
    <3>4. ReadsWell(c) BY <3>1 DEF ReadsWell
    <3>5. ListsWell(c) BY <3>2, <3>3 DEF ListsWell
    <3> QED BY <3>4, <3>5
  <2> QED BY <1>4, <2>2, <2>3, <2>4 DEF KubeRead
<1>5. CASE CachedRead(c)
  <2>1. kind = "cached" /\ req[c].op \in {"Read", "List"} BY <1>5 DEF CachedRead
  <2>2. CASE Len(opts[c]) > 1
    <3>1. FailsFor(c, "option") BY <1>5, <2>2 DEF CachedRead
    <3>2. ans'[c].err BY <3>1, Failing
    <3>3. req[c].op # "Read" BY <1>3, <2>1, <2>2, OptionFacts
    <3> QED BY <3>2, <3>3 DEF ReadsWell, ListsWell
  <2>3. CASE Goto(c, "fallback")
    <3>1. pc'[c] = "fallback" BY <2>3 DEF Goto, RequestsInv
    <3> QED BY <3>1 DEF ReadsWell, ListsWell
  <2>4. CASE ~(Len(opts[c]) > 1) /\ ~Goto(c, "fallback")
    <3>1. Reads(c, Cached) /\ (req[c].op = "Read" => Cached[Key(c)] # Absent)
      BY <1>5, <2>4 DEF CachedRead
    <3>2. \A k \in Keys : Cached[k] # Hole
      <4>1. \A k \in Keys : Cached[k] \in Values \cup {Absent} BY DEF Cached, InformerInv
      <4> QED BY <4>1, BackendAssumption
    <3>3. req[c].op = "Read" => ~ans'[c].err
      <4>1. req[c].op = "Read" => Cached[Key(c)] # Hole BY <1>3, <3>2, RequestFacts
      <4> QED BY <1>3, <2>1, <3>1, <4>1, ReadsAnswer
    <3>4. req[c].op = "List" /\ ~ans'[c].err => ans'[c].got = Cached BY <1>3, <2>1, <3>1, ReadsAnswer
    <3>5. waits => \A k \in always : Cached[k] # Absent
      <4> SUFFICES ASSUME waits, NEW k \in always PROVE Cached[k] # Absent OBVIOUS
      <4>1. unsynced = 0 BY <1>3 DEF SyncInv
      <4>2. cache[k].val # Absent BY <4>1 DEF SyncInv
      <4> QED BY <4>2 DEF Cached
    <3> QED BY <3>3, <3>4, <3>5 DEF ReadsWell, ListsWell
  <2> QED BY <2>2, <2>3, <2>4
<1>6. CASE ~KubeRead(c) /\ ~CachedRead(c)
  <2>1. req[c].op \in Writes
    BY <1>6 DEF KubeAction, KubeCreate, KubeUpdate, KubeApply, KubeApplyCreate, KubeApplyUpdate, KubeDelete,
       KubeFails, KubeCall, RequestsInv, StepOf, Writes
  <2> QED BY <2>1 DEF ReadsWell, ListsWell, Writes
<1> QED BY <1>4, <1>5, <1>6

\* The steps of a client keep what is known of the informer ...
LEMMA ClientHeard ==
    ASSUME StoreInv, VersionsInv, HeardInv, NEW c \in Clients, ClientAction(c)
    PROVE  HeardInv' /\ always' \subseteq always /\ waits' = waits
<1> USE DEF StoreInv
<1>1. /\ pc[c] \notin {"idle", "return"} /\ kind' = kind /\ req' = req /\ \E s : pc' = [pc EXCEPT ![c] = s]
  BY ClientEffect DEF Effect, Rests, Opens, Puts
<1>2. \A d \in Clients : pc[d] = "idle" => pc'[d] = "idle" BY <1>1 DEF RequestsInv
<1>3. CASE KubeAction(c) \/ ConfigAction(c)
  <2>1. Tells /\ UNCHANGED <<cache, unsynced, waits>> BY <1>3, ServerTells
  <2>2. HeardInv' BY <1>1, <1>2, <2>1, TellsKeeps
  <2>3. always' \subseteq always BY <2>1 DEF Tells
  <2> QED BY <2>1, <2>2, <2>3
<1>4. CASE FileAction(c) \/ ObjectAction(c)
  <2>1. UNCHANGED <<cache, news, unsynced, waits, always>>
    BY <1>4 DEF FileAction, ObjectAction, kubeVars, apiVars, infVars
  <2>2. kind # "cached"
    <3>1. CASE FsWrite(c) BY <3>1 DEF FsWrite, RequestsInv, StepOf, IsFs
    <3>2. CASE FsCrash(c) BY <3>2 DEF FsCrash
    <3>3. CASE ObjectAction(c)
      BY <3>3 DEF ObjectAction, S3Unsupported, S3Look, S3Put, S3Delete, S3Read, S3Call, RequestsInv, StepOf
    <3>4. CASE FsOpen(c) \/ FsApplyCreate(c) \/ FsRemove(c) \/ FsDryRun(c) \/ FsRead(c)
      BY <3>4 DEF FsOpen, FsApplyCreate, FsRemove, FsDryRun, FsRead, IsFs
    <3> QED BY <1>4, <3>1, <3>2, <3>3, <3>4 DEF FileAction
  <2>3. ~waits BY <2>2 DEF HeardInv, SyncInv
  <2> QED BY <2>1, <2>3 DEF HeardInv, InformerInv, SyncInv
<1> QED BY <1>3, <1>4 DEF ClientAction

\* ... and what the callers have been told.
LEMMA ClientReads ==
    ASSUME StoreInv, VersionsInv, HeardInv, ListShowsAll, NEW c \in Clients, ClientAction(c)
    PROVE  NotFoundMeansAbsent /\ ListShowsAll'
<1> USE DEF StoreInv
<1>1. /\ pc[c] \notin {"idle", "return"} /\ req' = req /\ \E s : pc' = [pc EXCEPT ![c] = s]
      /\ ans' = ans \/ \E a : ans' = [ans EXCEPT ![c] = a]
  BY ClientEffect DEF Effect, Rests, Opens, Puts
<1>2. \A d \in Clients \ {c} : pc'[d] = pc[d] /\ ans'[d] = ans[d] BY <1>1 DEF RequestsInv
<1>3. ReadsWell(c) /\ ListsWell(c) BY FilesRead, ResourcesRead DEF ClientAction
<1>4. always' \subseteq always /\ waits' = waits BY ClientHeard
<1>5. NotFoundMeansAbsent
  <2>1. \A d \in Clients \ {c} : ReadsWell(d) BY <1>2, Zenon DEF ReadsWell
  <2>2. \A d \in Clients : ReadsWell(d) BY <1>3, <2>1
  <2> QED BY <2>2, ReasonsSuffice
<1>6. ListShowsAll'
  <2> SUFFICES ASSUME NEW d \in Clients, waits, pc'[d] = "return", req[d].op = "List", ~ans'[d].err,
                      NEW k \in always'
               PROVE  ans'[d].got[k] # Absent
    BY <1>1, <1>4 DEF ListShowsAll
  <2>1. k \in always BY <1>4
  <2>2. CASE d = c BY <1>3, <2>1, <2>2 DEF ListsWell
  <2>3. CASE d # c BY <1>2, <2>1, <2>3 DEF ListShowsAll
  <2> QED BY <2>2, <2>3
<1> QED BY <1>5, <1>6

LEMMA HeardNext ==
    ASSUME StoreInv, VersionsInv, HeardInv, ListShowsAll, [Next]_vars
    PROVE  HeardInv' /\ ListShowsAll' /\ (NotFoundMeansAbsent \/ UNCHANGED vars)
<1> USE DEF StoreInv
<1>1. ASSUME NEW c \in Clients, ClientAction(c) PROVE HeardInv' /\ ListShowsAll' /\ NotFoundMeansAbsent
  BY <1>1, ClientHeard, ClientReads
<1>2. ASSUME NEW c \in Clients, UNCHANGED kubeVars, UNCHANGED <<kind, map>>,
             \/ \E r \in Inputs(c) : Usable /\ Call(c, r)
             \/ Return(c)
      PROVE  HeardInv' /\ ListShowsAll' /\ NotFoundMeansAbsent
  <2>1. UNCHANGED <<cache, news, unsynced, waits, always>> BY <1>2 DEF kubeVars, apiVars, infVars
  <2>2. \A d \in Clients : pc'[d] = "return" => pc[d] = "return" /\ req'[d] = req[d] /\ ans'[d] = ans[d]
    BY <1>2 DEF Call, Return, RequestsInv
  <2>3. waits => unsynced = 0 \/ \A d \in Clients : pc'[d] = "idle"
    BY <1>2 DEF Call, Return, Usable, HeardInv, SyncInv, RequestsInv
  <2>4. HeardInv' BY <1>2, <2>1, <2>3 DEF HeardInv, InformerInv, SyncInv
  <2>5. ListShowsAll' BY <2>1, <2>2 DEF ListShowsAll
  <2>6. NotFoundMeansAbsent BY <2>2, Zenon DEF NotFoundMeansAbsent
  <2> QED BY <2>4, <2>5, <2>6
<1>3. CASE Deliver
  <2>1. HeardInv' BY <1>3, DeliverKeeps
  <2>2. UNCHANGED <<pc, req, ans, always, waits>> BY <1>3 DEF Deliver, baseVars, callVars, apiVars
  <2>3. ListShowsAll' BY <2>2 DEF ListShowsAll
  <2>4. NotFoundMeansAbsent BY <2>2 DEF NotFoundMeansAbsent
  <2> QED BY <2>1, <2>3, <2>4
<1>4. CASE UNCHANGED vars
  <2>1. UNCHANGED <<kind, map, pc, req, ans, cache, news, unsynced, waits, always>>
    BY <1>4 DEF vars, baseVars, callVars, kubeVars, apiVars, infVars
  <2> QED BY <1>4, <2>1 DEF HeardInv, InformerInv, SyncInv, ListShowsAll
<1>5. Next => \/ \E c \in Clients : ClientAction(c)
              \/ \E c \in Clients : /\ UNCHANGED kubeVars
                                    /\ (\E r \in Inputs(c) : Usable /\ Call(c, r)) \/ Return(c)
              \/ Deliver
  BY DEF Next, ClientAction, FileAction, ObjectAction, KubeAction, ConfigAction
<1>6. \A c \in Clients : \A r : Call(c, r) \/ Return(c) => UNCHANGED <<kind, map>> BY DEF Call, Return
<1> QED BY <1>1, <1>2, <1>3, <1>4, <1>5, <1>6

\* What is there is found: a Read says that a key is not found only when it is not
\* there, or when fs cannot open its file; it finds no value in a file only when a
\* write that failed has left none; no other error meets a Read that a cache
\* answers.  And a List of a store that has waited for its cache shows every key
\* that has been there all the time (fs.go and resource.go, Read;
\* informer.go:165-249; newCachedStore), for any clients, keys and values.
THEOREM WhatIsThereIsFound == MCSpec => ReadsSound
<1> DEFINE Inv == VersionsInv /\ StoreInv /\ HeardInv /\ ListShowsAll
<1>1. MCInit => Inv
  <2> SUFFICES ASSUME MCInit PROVE Inv OBVIOUS
  <2>1. Init BY DEF MCInit
  <2>2. ListShowsAll BY <2>1 DEF Init, BackendInit, ListShowsAll
  <2> QED BY <2>1, <2>2, BackendsInit, StoreInit, HeardInit
<1>2. Inv /\ [MCNext]_all => Inv' /\ [NotFoundMeansAbsent /\ ListShowsAll']_vars
  <2> SUFFICES ASSUME Inv, [MCNext]_all PROVE Inv' /\ [NotFoundMeansAbsent /\ ListShowsAll']_vars OBVIOUS
  <2>1. [Next]_vars BY DEF MCNext, all
  <2>2. VersionsInv' /\ RequestsInv' BY <2>1, BackendsNext DEF StoreInv
  <2>3. StoreInv' BY <2>1, <2>2, StoreNext
  <2>4. HeardInv' /\ ListShowsAll' /\ (NotFoundMeansAbsent \/ UNCHANGED vars) BY <2>1, HeardNext
  <2> QED BY <2>2, <2>3, <2>4
<1> QED BY <1>1, <1>2, PTL DEF MCSpec, ReadsSound
=============================================================================
