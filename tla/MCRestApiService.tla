-------------------------- MODULE MCRestApiService --------------------------
(* Instances of RestApiService for TLC. *)
EXTENDS RestApiService, TLC

CONSTANTS s1, s2, s3, s4, x, y, z, old, new

MCContents == {old, new}
None == {}

\* A POST and a PUT side by side, then a DELETE beside a GET of the object the
\* PUT has written, each write of its own object.
MCServices == {s1, s2, s3, s4}
MCNames == {x, y, z}
MCStageOf == (s1 :> 1) @@ (s2 :> 1) @@ (s3 :> 2) @@ (s4 :> 2)
MCMethod == (s1 :> "POST") @@ (s2 :> "PUT") @@ (s3 :> "DELETE") @@ (s4 :> "GET")
MCRequestName == (s1 :> x) @@ (s2 :> y) @@ (s3 :> z) @@ (s4 :> y)
MCPayload == [s \in MCServices |-> new]
MCPayloadName == MCRequestName

\* They are services as ApiIsRestored (OrchestrationProofs) speaks of.
ASSUME MCOwnObjects ==
    Services = MCServices => OwnObjects /\ FaultyCalls \subseteq {"RUN"}

\* The object is deleted by the first stage and created anew by the second.
RecreateServices == {s1, s2}
RecreateNames == {x}
RecreateStageOf == (s1 :> 1) @@ (s2 :> 2)
RecreateMethod == (s1 :> "DELETE") @@ (s2 :> "POST")
RecreateRequestName == (s1 :> x) @@ (s2 :> x)
RecreatePayload == (s1 :> new) @@ (s2 :> new)
=============================================================================
