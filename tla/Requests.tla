------------------------------ MODULE Requests ------------------------------
(***************************************************************************)
(* One request on its way through the middleware of an engine: pkg/        *)
(* middleware (gzip, metrics, logger, requestid, authorization/...), in    *)
(* the order ServerConfig gives it, then the handler, which may be guarded *)
(* by the trust middleware, and back.                                      *)
(*                                                                         *)
(* What the request carries is chosen where the code looks at it.  A body  *)
(* is the pieces written to the connection: "text", or "zip" and "end",    *)
(* what opens and what closes a gzip stream.                               *)
(***************************************************************************)
EXTENDS Integers, Sequences, SequencesExt

CONSTANTS
  Labels,        \* what a scope may hold: teams, environments, actions, roles
  Certificates,  \* of the certificate middleware: [cns, scopes], in order
  AllowedNPAs,   \* of the NPA middleware: [name, scopes], names in lower case
  Names,         \* the names a certificate or a header may hold
  TeamHeaders,   \* the teams that the header of the teams may hold
  Required       \* the scope the trust middleware requires

Server == INSTANCE ServerConfig WITH
  WebPort <- 1, SidePort <- 2, ProxyPort <- 3, TracerRegistered <- TRUE

VARIABLES
  chain,    \* the handlers of the route
  options,  \* of the gzip and the oauth middleware
  at,       \* the handler that runs, 0 is the engine
  going,    \* "in" by c.Next(), "out" by returns, "done"
  raised,   \* a panic is on its way out
  request,  \* what has been seen of the request
  who,      \* the account in its context
  gz,       \* the gzip middleware: "off", "inner" (in DecompressFn), "on", "late"
  response, \* the status, the header, what was sent
  ran,      \* the handler ran
  recorded  \* the status the metrics and the log have

requestVars == <<chain, options, at, going, raised, request, who, gz, response, ran, recorded>>

(***************************************************************************)
(* pkg/access/node.go: the tree in which the labels of the granted scopes  *)
(* are looked up.  A tree is the set of the paths from its root, the empty *)
(* path excepted; Insert and Find descend one label at a time, and what    *)
(* they come to is said here for the whole descent.                        *)
(***************************************************************************)

Wildcard == "*"

PathTo(l) == {SubSeq(l, 1, n) : n \in 1..Len(l)}
Above(l) == SubSeq(l, 1, Len(l) - 1)

\* The paths strictly below p.
Below(T, p) == {q \in T : Len(q) > Len(p) /\ SubSeq(q, 1, Len(p)) = p}

\* A last label that a wildcard already stands for is not added, and a last
\* label that is a wildcard takes the place of all there is beside it.
Insert(T, l) ==
  IF l \in T \/ Append(Above(l), Wildcard) \in T THEN T
  ELSE (IF l[Len(l)] = Wildcard THEN T \ Below(T, Above(l)) ELSE T) \cup PathTo(l)

\* Label by label: the wildcard stands for any.
Matches(p, r) == \A i \in 1..Len(r) : p[i] = r[i] \/ p[i] = Wildcard

\* Slip: a label that is known is followed, without a way back to the wildcard.
FindGreedy(T, r) ==
  \E p \in T : Len(p) = Len(r) /\ \A i \in 1..Len(r) :
     p[i] = IF Append(SubSeq(p, 1, i - 1), r[i]) \in T THEN r[i] ELSE Wildcard

\* The label itself is tried first, then the wildcard: some path matches.
Find(T, r) == \E p \in T : Len(p) = Len(r) /\ Matches(p, r)

(***************************************************************************)
(* pkg/access: the account a request carries and what it may do.  A scope  *)
(* (scope/basic) grants every combination of its teams, environments,      *)
(* actions and roles.                                                      *)
(***************************************************************************)
Scope(teams, environments, actions, roles) ==
  [teams |-> teams, environments |-> environments, actions |-> actions, roles |-> roles]

Scopes ==
  [teams : Seq(Labels), environments : Seq(Labels), actions : Seq(Labels), roles : Seq(Labels)]

ScopeValid(s) == \A field \in DOMAIN s : s[field] # <<>>

ASSUME ScopesAssumption ==
  /\ {Wildcard, "dev", "tst", "acc", "prd", "user"} \subseteq Labels
  /\ DOMAIN Certificates = 1..Len(Certificates) /\ Len(Certificates) \in Nat
  /\ DOMAIN AllowedNPAs = 1..Len(AllowedNPAs) /\ Len(AllowedNPAs) \in Nat
  /\ \A i \in DOMAIN Certificates : Certificates[i].scopes \in Seq(Scopes)
  /\ \A i \in DOMAIN AllowedNPAs : AllowedNPAs[i].scopes \in Seq(Scopes)
  /\ TeamHeaders \subseteq Seq(Labels)
  /\ Required \in Scopes

\* All combinations of the labels in s with those before it, s running fastest.
Times(before, s) ==
  [i \in 1..(Len(before) * Len(s)) |->
     Append(before[((i - 1) \div Len(s)) + 1], s[((i - 1) % Len(s)) + 1])]

\* A scope without roles has shorter lists of labels.
AsLabels(s) ==
  LET three == Times(Times(Times(<<<<>>>>, s.teams), s.environments), s.actions)
  IN  IF s.roles = <<>> THEN three ELSE Times(three, s.roles)

\* The lists of labels go into the tree one after the other, and so do those
\* of one scope after the other.
Grown(T, lists) ==
  LET grown[n \in 0..Len(lists)] == IF n = 0 THEN T ELSE Insert(grown[n - 1], lists[n])
  IN  grown[Len(lists)]
Root(allowed) ==
  LET root[n \in 0..Len(allowed)] == IF n = 0 THEN {} ELSE Grown(root[n - 1], AsLabels(allowed[n]))
  IN  root[Len(allowed)]

\* Everything granted goes into one tree, everything requested must be found
\* in it.
MatchScope(allowed, requested) ==
  \A i \in DOMAIN AsLabels(requested) : Find(Root(allowed), AsLabels(requested)[i])

NoTrust == [trust |-> "none", scopes |-> <<>>]
Account(trust, scopes) == [trust |-> trust, scopes |-> scopes]
AccountValid(a) == \A i \in DOMAIN a.scopes : ScopeValid(a.scopes[i])

\* The scopes of a user: the teams of a header, in all four environments.
ParseUserHeader(teams) ==
  IF teams = <<>> THEN <<>>
  ELSE <<Scope(teams, <<"dev", "tst">>, <<Wildcard>>, <<"user">>),
         Scope(teams, <<"acc", "prd">>, <<Wildcard>>, <<"user">>)>>

(***************************************************************************)
(* What MatchScope is to compute (access.go:86 "whether requested is a     *)
(* subset of allowed").                                                    *)
(***************************************************************************)
Covers(allowed, requested) ==
  \A r \in Range(AsLabels(requested)) : \E i \in DOMAIN allowed :
     \E l \in Range(AsLabels(allowed[i])) : Len(l) >= Len(r) /\ Matches(l, r)

-----------------------------------------------------------------------------

Unseen ==
  [names |-> {}, named |-> FALSE, teams |-> <<>>, npa |-> "", session |-> FALSE, health |-> FALSE]
NoResponse == [status |-> 200, sent |-> FALSE, header |-> "", encoding |-> "", body |-> <<>>]

On(m) == \E i \in DOMAIN chain : chain[i] = m

\* The chain of an engine, and of a route with or without a guard.
Chains ==
  {Server!Handlers([m \in Server!MiddlewareName |-> IF m \in on THEN "on" ELSE "off"])
   \o guard \o <<"handler">> :
     on \in SUBSET {"recovery", "metrics", "logger", "gzip", "certificate", "user", "npa", "oauth"},
     guard \in {<<>>, <<"trust">>}}

\* (What SelectSeq selects keeps its order, so a chain has that of all handlers.)
Place ==
  [recovery |-> 1, metrics |-> 2, logger |-> 3, gzip |-> 4, certificate |-> 5,
   user |-> 6, npa |-> 7, oauth |-> 8, trust |-> 9, handler |-> 10]
ASSUME ChainsAssumption ==
  \A c \in Chains :
     /\ c \in Seq(DOMAIN Place) /\ c # <<>> /\ c[Len(c)] = "handler"
     /\ \A j \in DOMAIN c : \A i \in 1..(j - 1) : Place[c[i]] < Place[c[j]]

\* An option only where it means something.
RequestInit ==
  /\ chain \in Chains
  /\ options \in [decompress : BOOLEAN, only : BOOLEAN, bypass : BOOLEAN]
  /\ options.only => options.decompress
  /\ options.decompress => On("gzip")
  /\ options.bypass => On("oauth")
  /\ at = 1 /\ going = "in" /\ raised = FALSE
  /\ request \in {[Unseen EXCEPT !.health = b] : b \in BOOLEAN}
  /\ request.health => On("oauth") \/ On("metrics") \/ On("logger")
  /\ who = NoTrust /\ gz = "off" /\ response = NoResponse
  /\ ran = FALSE /\ recorded = [m \in {"metrics", "logger"} |-> 0]

Entering(m) == going = "in" /\ chain[at] = m
Leaving(m) == going = "out" /\ at > 0 /\ chain[at] = m
Onward == at' = at + 1 /\ UNCHANGED going
Back == at' = at - 1 /\ UNCHANGED going
\* The function returns or panics, or it aborted: those around it go on.
TurnBack == at' = at - 1 /\ going' = "out"

\* gin's writer: a status counts until the header is written, and the header
\* as it is then.
SetStatus(r, s) == IF r.sent THEN r ELSE [r EXCEPT !.status = s]
WriteHeaderNow(r) == IF r.sent THEN r ELSE [r EXCEPT !.sent = TRUE, !.encoding = r.header]
AbortWithStatus(r, s) == WriteHeaderNow(SetStatus(r, s))
Put(r, pieces) == [WriteHeaderNow(r) EXCEPT !.body = @ \o pieces]

\* gzipWriter: the first write opens the stream, Close opens it if need be.
Open(r) == IF "zip" \in Range(r.body) THEN <<>> ELSE <<"zip">>
Write(r) == Put(r, IF gz = "on" THEN Open(r) ELSE <<"text">>)
Close(r) == Put(r, Append(Open(r), "end"))

-----------------------------------------------------------------------------
(* On the way in.                                                           *)

\* These only have something to do afterwards.
Pass ==
  /\ going = "in" /\ chain[at] \in {"recovery", "metrics", "logger"}
  /\ Onward
  /\ UNCHANGED <<chain, options, raised, request, who, gz, response, ran, recorded>>

\* shouldCompress: what the request accepts, its path and its extension.
Compress(accepts) == accepts /\ ~options.only
GzipIn ==
  /\ Entering("gzip")
  /\ \E accepts \in BOOLEAN :
       /\ gz' = IF Compress(accepts) THEN "on" ELSE "off"
       /\ response' = IF Compress(accepts) THEN [response EXCEPT !.header = "gzip"] ELSE response
  /\ Onward
  /\ UNCHANGED <<chain, options, raised, request, who, ran, recorded>>

\* A request that is compressed: DefaultDecompressHandle replaces the body
\* and itself calls c.Next() ...
Decompress ==
  /\ Entering("gzip") /\ options.decompress
  /\ gz' = "inner" /\ Onward
  /\ UNCHANGED <<chain, options, raised, request, who, response, ran, recorded>>

\* ... or refuses an encoding it does not know or a body that is none.
DecompressFails ==
  /\ Entering("gzip") /\ options.decompress
  /\ \E status \in {400, 415} : response' = AbortWithStatus(response, status)
  /\ gz' = "inner" /\ going' = "out" /\ UNCHANGED at
  /\ UNCHANGED <<chain, options, raised, request, who, ran, recorded>>

Matching(names) == {i \in DOMAIN Certificates : Certificates[i].cns \cap names # {}}

\* MatchCertificate: the first entry with one of the names.
MatchCertificate(names) == Certificates[Min(Matching(names))]

\* access.SetTrust replaces the account the context has, if the new one is valid.
SetTrust(a) ==
  IF AccountValid(a) THEN who' = a /\ Onward /\ UNCHANGED response
  ELSE response' = AbortWithStatus(response, 401) /\ TurnBack /\ UNCHANGED who

Certificate ==
  /\ Entering("certificate")
  /\ \E names \in SUBSET Names :
       /\ request' = [request EXCEPT !.names = names]
       /\ IF Matching(names) # {}
          THEN SetTrust(Account("Certificate", MatchCertificate(names).scopes))
          ELSE response' = AbortWithStatus(response, 401) /\ TurnBack /\ UNCHANGED who
  /\ UNCHANGED <<chain, options, raised, gz, ran, recorded>>

\* Slip: a user without teams is taken for none.
UserOfTeams ==
  /\ Entering("user")
  /\ \/ Onward /\ UNCHANGED <<request, who, response>>
     \/ \E teams \in TeamHeaders :
          /\ request' = [request EXCEPT !.named = TRUE, !.teams = teams]
          /\ IF teams = <<>> THEN Onward /\ UNCHANGED <<who, response>>
             ELSE SetTrust(Account("User", ParseUserHeader(teams)))
  /\ UNCHANGED <<chain, options, raised, gz, ran, recorded>>

\* One header names the user, if any; another one holds the teams.  A user who
\* is named without teams is an account without scopes, and takes the place of
\* the certificate's all the same.  (The parser of scopes is that of scope/basic.)
User ==
  /\ Entering("user")
  /\ \/ Onward /\ UNCHANGED <<request, who, response>>
     \/ \E teams \in TeamHeaders :
          /\ request' = [request EXCEPT !.named = TRUE, !.teams = teams]
          /\ SetTrust(Account("User", ParseUserHeader(teams)))
  /\ UNCHANGED <<chain, options, raised, gz, ran, recorded>>

\* The table of the NPAs: of two with the same name the later one counts.
Lookup(name) == {i \in DOMAIN AllowedNPAs : AllowedNPAs[i].name = name}
Npa ==
  /\ Entering("npa")
  /\ \E name \in Names \cup {""} :
       /\ request' = [request EXCEPT !.npa = name]
       /\ IF Lookup(name) = {} THEN Onward /\ UNCHANGED <<who, response>>
          ELSE SetTrust(Account("NPA", AllowedNPAs[Max(Lookup(name))].scopes))
  /\ UNCHANGED <<chain, options, raised, gz, ran, recorded>>

\* Only the paths that the configuration lists go without a session: the
\* defaults are applied to the copy that New makes.
Bypassed == options.bypass /\ request.health
Oauth ==
  /\ Entering("oauth")
  /\ \E valid \in IF Bypassed THEN {FALSE} ELSE BOOLEAN :
       /\ request' = [request EXCEPT !.session = valid]
       /\ IF valid \/ Bypassed THEN Onward /\ UNCHANGED response
          ELSE response' = Write(SetStatus(response, 401)) /\ TurnBack
  /\ UNCHANGED <<chain, options, raised, who, gz, ran, recorded>>

\* The review compares what the account may do with what is required.
Trust ==
  /\ Entering("trust")
  /\ IF ScopeValid(Required) /\ MatchScope(who.scopes, Required)
     THEN Onward /\ UNCHANGED response
     ELSE response' = AbortWithStatus(response, 401) /\ TurnBack
  /\ UNCHANGED <<chain, options, raised, request, who, gz, ran, recorded>>

\* The handler answers, leaves a status or (no route) nothing, and may panic.
Handler ==
  /\ Entering("handler")
  /\ \E does \in {"writes", "status", "nothing"}, p \in BOOLEAN :
       /\ response' = CASE does = "writes"  -> Write(SetStatus(response, 201))
                        [] does = "status"  -> SetStatus(response, 204)
                        [] does = "nothing" -> SetStatus(response, 404)
       /\ raised' = p
  /\ ran' = TRUE /\ TurnBack
  /\ UNCHANGED <<chain, options, request, who, gz, recorded>>

-----------------------------------------------------------------------------
(* On the way out.                                                          *)

\* These have called c.Next() last.
Unwind ==
  /\ going = "out" /\ at > 0
  /\ chain[at] \in {"certificate", "user", "npa", "oauth", "trust"}
  /\ Back
  /\ UNCHANGED <<chain, options, raised, request, who, gz, response, ran, recorded>>

\* Slip: the header stays although nothing was written.
GzipOutKeeps ==
  /\ Leaving("gzip") /\ gz \in {"off", "on"}
  /\ response' = IF gz = "on" /\ response.sent THEN Close(response) ELSE response
  /\ Back
  /\ UNCHANGED <<chain, options, raised, request, who, gz, ran, recorded>>

\* The deferred function, in a panic too: the stream is closed, or it and the
\* header are taken back when nothing was written.
GzipOut ==
  /\ Leaving("gzip") /\ gz \in {"off", "on"}
  /\ response' = IF gz = "off" THEN response
                 ELSE IF response.sent THEN Close(response)
                 ELSE [response EXCEPT !.header = ""]
  /\ gz' = "off"
  /\ Back
  /\ UNCHANGED <<chain, options, raised, request, who, ran, recorded>>

\* Back from DecompressFn: Handle goes on with the compression of a response
\* that is written.
GzipLate ==
  /\ Leaving("gzip") /\ gz = "inner"
  /\ \E accepts \in BOOLEAN :
       IF Compress(accepts) /\ ~raised /\ response.sent
       THEN gz' = "late" /\ response' = Close(response)
       ELSE gz' = "off" /\ UNCHANGED response
  /\ Back
  /\ UNCHANGED <<chain, options, raised, request, who, ran, recorded>>

\* Slip: they are deferred, and run in a panic too.
RecordDeferred(m) ==
  /\ Leaving(m)
  /\ recorded' = IF request.health THEN recorded ELSE [recorded EXCEPT ![m] = response.status]
  /\ Back
  /\ UNCHANGED <<chain, options, raised, request, who, gz, response, ran>>

\* metrics and the logger read the status, but for the paths they skip; a
\* panic passes them by.
Record(m) ==
  /\ Leaving(m)
  /\ recorded' = IF raised \/ request.health THEN recorded ELSE [recorded EXCEPT ![m] = response.status]
  /\ Back
  /\ UNCHANGED <<chain, options, raised, request, who, gz, response, ran>>

Count == Record("metrics")
Log == Record("logger")

\* gin.Recovery
Recover ==
  /\ Leaving("recovery")
  /\ response' = IF raised THEN AbortWithStatus(response, 500) ELSE response
  /\ raised' = FALSE
  /\ Back
  /\ UNCHANGED <<chain, options, request, who, gz, ran, recorded>>

\* gin sends what is left: the text of a 404, or the header alone.
Answer ==
  /\ going = "out" /\ at = 0
  /\ response' = IF raised THEN response
                 ELSE IF ~response.sent /\ response.status = 404 THEN Put(response, <<"text">>)
                 ELSE WriteHeaderNow(response)
  /\ going' = "done"
  /\ UNCHANGED <<chain, options, at, raised, request, who, gz, ran, recorded>>

RequestNext ==
  \/ Pass \/ GzipIn \/ Decompress \/ DecompressFails
  \/ Certificate \/ User \/ Npa \/ Oauth \/ Trust \/ Handler
  \/ Unwind \/ GzipOut \/ GzipLate \/ Count \/ Log \/ Recover \/ Answer

RequestSpec == RequestInit /\ [][RequestNext]_requestVars

-----------------------------------------------------------------------------
(* Properties.                                                              *)

\* Who a request is: of the authenticators the engine has, in their order,
\* the last one that knew it (access/access.go:3).
Known ==
  LET cert == IF On("certificate")
              THEN Account("Certificate", MatchCertificate(request.names).scopes) ELSE NoTrust
      user == IF request.named THEN Account("User", ParseUserHeader(request.teams)) ELSE cert
  IN  IF On("npa") /\ request.npa \in {AllowedNPAs[i].name : i \in DOMAIN AllowedNPAs}
      THEN Account("NPA", AllowedNPAs[Max(Lookup(request.npa))].scopes) ELSE user

\* A handler that runs does so for a request with a certificate of the list, a
\* session or a path that goes without, and as the account that the
\* authenticators make of it (certificate.go:97, oauth.go:178).
Authenticated ==
  ran =>
    /\ On("certificate") => \E i \in DOMAIN Certificates : Certificates[i].cns \cap request.names # {}
    /\ On("oauth") => request.session \/ (options.bypass /\ request.health)
    /\ who = Known

\* Behind the trust middleware it runs exactly if the account covers all that
\* is required, and that is a scope (trust.go:72, access.go:86).
Authorized ==
  /\ ran /\ On("trust") => ScopeValid(Required) /\ Covers(Known.scopes, Required)
  /\ going = "out" /\ chain[at + 1] = "trust" /\ ~ran /\ response.status = 401 =>
       ~(ScopeValid(Required) /\ Covers(who.scopes, Required))

\* The handler runs for a request exactly when everything in front of it agreed.
HandlerGuarded == Authenticated /\ Authorized

\* What the client gets can be read by the header it got before: a body is a
\* whole gzip stream or has none (gzip/handler.go:63).  It is not when the
\* response was written from within DecompressFn: the middleware then adds a
\* stream of its own.
BodyDecodes ==
  going = "done" /\ response.sent /\ gz # "late" =>
    response.body \in IF response.encoding = "gzip" THEN {<<"zip", "end">>} ELSE {<<>>, <<"text">>}

\* The status that was counted and logged is the one that was sent: nothing
\* outside of the metrics changes it (metrics.go:91).
RecordedAsSent ==
  going = "done" => \A m \in DOMAIN recorded : recorded[m] \in {0, response.status}

\* What the client and the operator are told of a request.
AnswerSound == BodyDecodes /\ RecordedAsSent
=============================================================================
