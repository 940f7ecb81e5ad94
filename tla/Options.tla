------------------------------- MODULE Options -------------------------------
(***************************************************************************)
(* pkg/store/options.go: the options of a call travel in a variadic slice   *)
(* that every layer of a store passes on.  A layer that matches an option   *)
(* removes it from its own view; RemoveIndex shifts the array that the      *)
(* layers above still look at.                                              *)
(***************************************************************************)
EXTENDS Naturals, Sequences

Has(opts, o) == \E i \in DOMAIN opts : opts[i] = o

First(opts, o) == CHOOSE i \in DOMAIN opts : opts[i] = o /\ \A j \in 1..(i - 1) : opts[j] # o

\* What the layer that matches o goes on with.
Consumed(opts, o) ==
    IF ~Has(opts, o) THEN opts
    ELSE [i \in 1..(Len(opts) - 1) |-> IF i < First(opts, o) THEN opts[i] ELSE opts[i + 1]]

\* What the layers above see afterwards: their slice has kept its length.
LeftBehind(opts, o) ==
    IF ~Has(opts, o) THEN opts
    ELSE [i \in 1..Len(opts) |->
            IF i < First(opts, o) \/ i = Len(opts) THEN opts[i] ELSE opts[i + 1]]
=============================================================================
