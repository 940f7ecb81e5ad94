--------------------------- MODULE MCOrchestration ---------------------------
(* An instance of Orchestration for TLC. *)
EXTENDS Orchestration, TLC

CONSTANTS a, b, c

\* Three stages of one service each: the second has a Recovery function, the
\* third is a dry run service.  (MCRestApiService has services side by side.)
MCServices == {a, b, c}
MCStageOf == (a :> 1) @@ (b :> 2) @@ (c :> 3)
MCRecoverables == {b}
MCDryRunServices == {c}
=============================================================================
