----------------------------- MODULE LabelStore -----------------------------
(***************************************************************************)
(* pkg/store/backends/labels: stores of several resources share one         *)
(* database, where labels tell their items apart: those of the web server   *)
(* in front (backends/http/server, UseLabels), the immutable ones of the    *)
(* Labeller, those its enricher finds in the object, and the caller's own.  *)
(* A call makes one call to the database, so each is one step.              *)
(***************************************************************************)
EXTENDS Naturals, FiniteSets

CONSTANTS
    Owners,     \* the stores
    Items,      \* keys of the database
    LabelKeys,
    LabelValues,
    Setups      \* configurations: the server's labels, the immutable ones, the
                \* sets an enricher may find in an object

Labels == UNION {[K -> LabelValues] : K \in SUBSET LabelKeys}

ASSUME LabelStoreAssumption ==
    Setups \subseteq [server : Labels, immutable : Labels, enriched : SUBSET Labels]

VARIABLES
    setup,   \* each store's configuration
    db,      \* the labels of each item, and (history) the store that wrote it
    listed   \* (history) the answer of the last call, when it was a List

labelVars == <<setup, db, listed>>

Free == [there |-> FALSE, labels |-> <<>>, by |-> "nobody"]
NoAnswer == [by |-> "nobody", err |-> FALSE, failed |-> FALSE, wanted |-> <<>>, keys |-> {}]

LabelInit ==
    /\ setup \in [Owners -> Setups]
    /\ db = [k \in Items |-> Free]
    /\ listed = NoAnswer

\* MergeMap: the later of the two wins.
Merge(l, m) == [k \in DOMAIN l \cup DOMAIN m |-> IF k \in DOMAIN m THEN m[k] ELSE l[k]]

Disjoint(l, m) == DOMAIN l \cap DOMAIN m = {}

\* The label selector asks for each of these.
Selects(want, l) == \A k \in DOMAIN want : k \in DOMAIN l /\ l[k] = want[k]

-----------------------------------------------------------------------------
(* The labels of a write, and those a List asks for.                        *)

\* EnrichWithLabelsOption looks for the values of the custom labels among the
\* keys of its own.
Clashes(own, custom) == \E k \in DOMAIN custom : custom[k] \in DOMAIN own

\* What comes out of the server: its labels win; after a clash it has taken the
\* custom labels out of the options, answers 400 and goes on.
ServerLabels(u, custom) ==
    IF Clashes(setup[u].server, custom) THEN <<>> ELSE Merge(custom, setup[u].server)

\* BuildLabels
Overridden(u, custom, object) ==
    ~Disjoint(setup[u].immutable, custom) \/ ~Disjoint(setup[u].immutable, object)

BuildLabels(u, custom, object) == Merge(Merge(object, custom), setup[u].immutable)

\* Slip: an additional selector replaces the base.
SelectorReplaced(base, additional) == additional

\* GenerateLabelSelector, when the two have no key in common
GenerateLabelSelector(base, additional) == Merge(base, additional)

-----------------------------------------------------------------------------
(* The calls.  failed: the database answers with an error.                  *)

Write(u, k, custom, object, failed) ==
    LET lbls == ServerLabels(u, custom) IN
    /\ db' = IF failed \/ Overridden(u, lbls, object) THEN db
             ELSE [db EXCEPT ![k] = [there |-> TRUE, labels |-> BuildLabels(u, lbls, object),
                        by |-> IF Clashes(setup[u].server, custom) THEN "nobody" ELSE u]]
    /\ listed' = NoAnswer
    /\ UNCHANGED setup

LabelledCreate(u) ==
    \E k \in Items, custom \in Labels, object \in setup[u].enriched :
        Write(u, k, custom, object, db[k].there)

LabelledUpdate(u) ==
    \E k \in Items, custom \in Labels, object \in setup[u].enriched :
        Write(u, k, custom, object, ~db[k].there)

LabelledApply(u) ==
    \E k \in Items, custom \in Labels, object \in setup[u].enriched, failed \in BOOLEAN :
        Write(u, k, custom, object, failed)

LabelledDelete(u) ==
    /\ \E k \in Items : db' = [db EXCEPT ![k] = Free]
    /\ listed' = NoAnswer
    /\ UNCHANGED setup

\* The server's selector, and then the Labeller's; a List that fails in the
\* database is an empty one.  After a clash of its own the server answers 400,
\* whatever comes after.
LabelledList(u) ==
    /\ \E custom \in Labels, failed \in BOOLEAN :
        LET clash  == ~Disjoint(setup[u].server, custom)
            asked  == IF clash THEN <<>> ELSE GenerateLabelSelector(setup[u].server, custom)
            err    == clash \/ ~Disjoint(setup[u].immutable, asked)
            wanted == GenerateLabelSelector(setup[u].immutable, asked)
        IN  listed' = [by |-> u, err |-> err, failed |-> failed, wanted |-> custom,
                       keys |-> IF err \/ failed THEN {}
                                ELSE {k \in Items : db[k].there /\ Selects(wanted, db[k].labels)}]
    /\ UNCHANGED <<setup, db>>

LabelNext ==
    \E u \in Owners :
        \/ LabelledCreate(u) \/ LabelledUpdate(u) \/ LabelledApply(u) \/ LabelledDelete(u)
        \/ LabelledList(u)

-----------------------------------------------------------------------------
(* Properties.                                                              *)

Own(u) == Merge(setup[u].server, setup[u].immutable)

Apart(u, w) == \E k \in DOMAIN Own(u) \cap DOMAIN Own(w) : Own(u)[k] # Own(w)[k]

\* No store lists an item last written by one that carries another value of a
\* label of its own, whatever labels callers and enrichers add; and, unless the
\* database failed, it lists every item of its own that carries what was asked
\* for (labels.go:19-24 "cannot be overridden by user-provided labels").
ListScoped ==
    listed.by # "nobody" /\ ~listed.err =>
        /\ \A k \in listed.keys : db[k].by = "nobody" \/ ~Apart(listed.by, db[k].by)
        /\ \A k \in Items :
            db[k].by = listed.by /\ Selects(listed.wanted, db[k].labels) /\ ~listed.failed => k \in listed.keys

-----------------------------------------------------------------------------
(* What one would expect of a List and of a write, and the code does not do. *)

\* labels.go:71: a List that failed in the database says so.
ListHonest == listed.failed => listed.err

\* A write leaves the items of the other stores alone.
WritesScoped ==
    [][\A k \in Items : db'[k].by \notin {"nobody", db[k].by} /\ db[k].by # "nobody"
            => ~Apart(db[k].by, db'[k].by)]_labelVars

\* util.go:67 "label %s is immutable and cannot be set as a custom label": a
\* label of the server is never set by a caller and silently replaced.
ClashRefused == \A u \in Owners, custom \in Labels :
    ~Disjoint(setup[u].server, custom) => Clashes(setup[u].server, custom)
=============================================================================
