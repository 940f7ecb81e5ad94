----------------------------- MODULE PrefixStore -----------------------------
(***************************************************************************)
(* pkg/store/middleware/prefix, nameable and validatable: stores on one     *)
(* database, each of which uses the keys that begin with its prefix.  Keys  *)
(* are sequences of letters.                                                *)
(***************************************************************************)
EXTENDS SequencesExt

CONSTANTS
    Tenants,    \* the stores,
    Stacks,     \*   and the middleware of each: prefix, whether names are checked
                \*   above it, below it or not at all, whether values are validated
    Names,      \* keys the callers use, and names of values
    MaxEntries  \* bound: entries of the database

ASSUME PrefixStoreAssumption ==
    /\ Stacks \subseteq [prefix : Seq(STRING), named : {"above", "below", "no"}, validating : BOOLEAN]
    /\ Names \subseteq Seq(STRING) /\ MaxEntries \in Nat

VARIABLES
    stack,    \* the middleware of each store
    entries,  \* the database: key and value, a value being its name and whether
              \* it is valid, and (history) who wrote it
    shown     \* (history) what the last List showed

prefixVars == <<stack, entries, shown>>

Nothing == [by |-> "nobody", items |-> {}]

\* New refuses an empty prefix.
PrefixInit ==
    /\ stack \in [Tenants -> {s \in Stacks : s.prefix # <<>>}]
    /\ entries = {} /\ shown = Nothing

At(key) == {e \in entries : e.key = key}
FullKey(t, k) == stack[t].prefix \o k

\* What Named and Validating refuse, wherever Named is in the stack.
Misnamed(t, k, v) ==
    \/ stack[t].named = "above" /\ k # v.name
    \/ stack[t].named = "below" /\ FullKey(t, k) # v.name
Turned(t, k, v) == Misnamed(t, k, v) \/ (stack[t].validating /\ ~v.valid)

\* The call takes effect unless it is refused.
WriteThrough(t, k, v, refused) ==
    /\ entries' = IF refused \/ Turned(t, k, v) THEN entries
                  ELSE (entries \ At(FullKey(t, k))) \cup {[key |-> FullKey(t, k), value |-> v, by |-> t]}
    /\ Cardinality(entries') <= MaxEntries
    /\ shown' = Nothing
    /\ UNCHANGED stack

ValuesOf(t) == [name : Names \cup {FullKey(t, k) : k \in Names}, valid : BOOLEAN]

PrefixCreate(t) ==
    \E k \in Names, v \in ValuesOf(t) : WriteThrough(t, k, v, At(FullKey(t, k)) # {})

PrefixUpdate(t) ==
    \E k \in Names, v \in ValuesOf(t) : WriteThrough(t, k, v, At(FullKey(t, k)) = {})

PrefixApply(t) ==
    \E k \in Names, v \in ValuesOf(t) : WriteThrough(t, k, v, FALSE)

PrefixDelete(t) ==
    /\ \E k \in Names : entries' = entries \ At(FullKey(t, k))
    /\ shown' = Nothing
    /\ UNCHANGED stack

\* Slip: the keys are shown as the database has them.
StripNothing(t, key) == key

\* TrimPrefix
Strip(t, key) == IF IsPrefix(stack[t].prefix, key) THEN SubSeq(key, Len(stack[t].prefix) + 1, Len(key)) ELSE key

\* WithPrefix is the stack's own; one of the caller's is refused.
PrefixList(t) ==
    /\ shown' \in {Nothing,
        [by |-> t, items |-> {[key |-> Strip(t, e.key), value |-> e.value] :
                                e \in {x \in entries : IsPrefix(stack[t].prefix, x.key)}}]}
    /\ UNCHANGED <<stack, entries>>

PrefixNext ==
    \E t \in Tenants :
        \/ PrefixCreate(t) \/ PrefixUpdate(t) \/ PrefixApply(t) \/ PrefixDelete(t) \/ PrefixList(t)

-----------------------------------------------------------------------------
(* Properties.                                                              *)

\* Neither prefix begins the other.
Separate(t, u) ==
    t = u \/ ~(IsPrefix(stack[t].prefix, stack[u].prefix) \/ IsPrefix(stack[u].prefix, stack[t].prefix))

\* What a store lists under a key is what it wrote under it, valid and of that
\* name where the stack checks it, as long as no prefix begins another; and it
\* lists all of that (nameable.go:3 "makes sure that object keys matches object
\* names").
PrefixScoped ==
    LET t == shown.by IN
    t # "nobody" /\ (\A u, w \in Tenants : Separate(u, w)) =>
        /\ shown.items = {[key |-> x[1], value |-> x[2].value] :
                x \in {y \in Names \X entries : y[2].by = t /\ y[2].key = FullKey(t, y[1])}}
        /\ \A i \in shown.items : ~Turned(t, i.key, i.value)

-----------------------------------------------------------------------------
(* What one would expect of any prefixes, and the code does not do.         *)

\* A value that a store lists under a key has the name that its stack checks.
NamesShown ==
    shown.by # "nobody" => \A i \in shown.items : ~Turned(shown.by, i.key, i.value)
=============================================================================
