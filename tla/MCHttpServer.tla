---------------------------- MODULE MCHttpServer ----------------------------
(***************************************************************************)
(* A server and what it serves, for TLC: how run() starts and ends, or one *)
(* request on its way through the middleware.                              *)
(***************************************************************************)
EXTENDS HttpServer, Requests

VARIABLE followed

all == <<followed, vars, requestVars>>

Grant(actions) == <<Scope(<<"a">>, <<"dev">>, actions, <<"user">>)>>
MCCertificates ==
  <<[cns |-> {"m"}, scopes |-> Grant(<<"GET">>) \o <<Scope(<<"*">>, <<"dev">>, <<"PUT">>, <<"user">>)>>],
    [cns |-> {"m", "n"}, scopes |-> Grant(<<"GET", "*">>)]>>
\* Two with the same name, and a scope that is none.
MCAllowedNPAs ==
  <<[name |-> "n", scopes |-> Grant(<<"GET">>)], [name |-> "n", scopes |-> Grant(<<"PUT", "GET">>)],
    [name |-> "m", scopes |-> Grant(<<>>)]>>
MCLabels == {"a", "b", "dev", "tst", "acc", "prd", "GET", "PUT", "user", Wildcard}
MCTeamHeaders == {<<>>, <<"b", "a">>}
MCRequired == Scope(<<"a">>, <<"dev">>, <<"GET", "PUT">>, <<"user">>)

MCInit ==
  /\ followed \in {"server", "request"}
  /\ Init /\ RequestInit
  /\ followed = "server" => chain = <<"handler">> /\ ~options.decompress /\ ~options.bypass /\ ~request.health

InServer == followed = "server" /\ UNCHANGED <<followed, requestVars>>
InRequest == followed = "request" /\ UNCHANGED <<followed, vars>>
Answered == InRequest /\ going = "done" /\ UNCHANGED requestVars

MCNext == (InServer /\ Next) \/ (InRequest /\ RequestNext) \/ Answered

\* FairSpec of HttpServer, beside the requests.
MCSpec ==
  /\ MCInit /\ [][MCNext]_all
  /\ WF_all(InServer /\ Tick) /\ WF_all(InServer /\ ListenClosed) /\ WF_all(InServer /\ ShutdownStarts)
  /\ WF_all(InServer /\ ShutdownDrained) /\ WF_all(InServer /\ ShutdownExpires)
  /\ WF_all(InServer /\ Stop) /\ WF_all(InServer /\ (Return \/ GiveUp))
=============================================================================
