---------------------------- MODULE ServerConfig ----------------------------
(***************************************************************************)
(* From the configuration of a server to the engines it is made of:        *)
(* pkg/ginserver (config.go, ginserver.go), pkg/httpserver/config.go and   *)
(* pkg/ginserver/manager.                                                  *)
(*                                                                         *)
(* A section of a configuration (one middleware, one service) is a Go      *)
(* pointer: "absent" (nil), "on" or "off".  A shallow copy of a            *)
(* configuration shares the sections that are present, so what the manager *)
(* writes into a copy shows in the caller's configuration; Shared says     *)
(* which writes do.  Ports stand for addresses, 0 for one not given.       *)
(***************************************************************************)
EXTENDS Naturals, Sequences

CONSTANTS
  WebPort, SidePort, ProxyPort,  \* DefaultPort, DefaultSidecarPort, DefaultProxyPort
  TracerRegistered               \* whether a trace provider was registered

ASSUME PortsAssumption == {WebPort, SidePort, ProxyPort} \subseteq Nat \ {0}

Section == {"absent", "on", "off"}

\* The order in which the middleware of a request runs.
Middleware == <<"recovery", "trace", "requestID", "metrics", "logger", "gzip",
                "certificate", "user", "npa", "oauth">>
MiddlewareName == {Middleware[i] : i \in DOMAIN Middleware}
ServiceName == {"pprof", "metrics", "healthcheck", "reloader", "proxy"}

Probes == [kind : {"http", "telnet"}, host : BOOLEAN, port : Nat, token : Nat]
Configuration ==
  [port : Nat, host : BOOLEAN, limits : BOOLEAN, tls : BOOLEAN,
   auth : {"unset", "none", "given", "any", "verify"}, certs : Nat, watched : BOOLEAN,
   mw : [MiddlewareName -> Section], svc : [ServiceName -> Section],
   side : [ServiceName -> Section], sidePort : Nat, probes : Seq(Probes),
   proxy : [on : BOOLEAN, routes : BOOLEAN, port : Nat, plain : BOOLEAN,
            mw : [MiddlewareName -> Section], health : Section]]

\* A plausible slip, for the check of the properties: a section that is off is
\* taken for one that is not there.
DefaultedOff(sections, on) ==
  [n \in DOMAIN sections |->
     IF sections[n] = "on" THEN "on" ELSE IF n \in on THEN "on" ELSE "off"]

\* ApplyDefaults of the sections: an absent one is allocated.
Defaulted(sections, on) ==
  [n \in DOMAIN sections |->
     IF sections[n] # "absent" THEN sections[n] ELSE IF n \in on THEN "on" ELSE "off"]

MiddlewareDefaults(mw) == Defaulted(mw, {"recovery", "metrics", "logger", "requestID"})
ServiceDefaults(svc) == Defaulted(svc, {"metrics", "healthcheck"})

\* A flag given on the command line is written into a section that is there,
\* and is ignored for one that is absent.
FlagSections(sections, flags) ==
  [n \in DOMAIN sections |->
     IF sections[n] # "absent" /\ n \in DOMAIN flags THEN flags[n] ELSE sections[n]]

MiddlewareFlags(mw, flags) == FlagSections(mw, flags)
ServiceFlags(svc, flags) == FlagSections(svc, flags)
HttpFlags(port, flags) == IF flags = 0 THEN port ELSE flags   \* 0: no flag given
BindFlags(c, f) ==
  [c EXCEPT !.port = HttpFlags(@, f.port), !.mw = MiddlewareFlags(@, f.mw),
            !.svc = ServiceFlags(@, f.svc)]

HttpDefaults(c) == [c EXCEPT !.port = IF @ = 0 THEN WebPort ELSE @, !.limits = TRUE]
HttpValid(c) == c.limits

\* The names in the server's own certificate become an entry of the
\* certificate middleware, once more at every call.
InjectServerCNs(c) ==
  IF c.tls /\ c.mw["certificate"] = "on" THEN [c EXCEPT !.certs = @ + 1] ELSE c

TlsDefaults(c) == [c EXCEPT !.auth = IF @ = "unset" THEN "none" ELSE @]

ApplyDefaults(c) ==
  LET d == HttpDefaults(TlsDefaults([c EXCEPT !.mw = MiddlewareDefaults(@), !.svc = ServiceDefaults(@)]))
  IN  InjectServerCNs([d EXCEPT !.watched = @ \/ (d.svc["reloader"] = "on" /\ d.tls)])

\* Config.Validate of ginserver.
Valid(c) ==
  /\ c.tls => c.auth \in {"none", "given", "any", "verify"}
  /\ HttpValid(c)
  /\ c.mw["certificate"] = "on" => c.certs > 0 /\ c.tls /\ c.auth \in {"any", "verify"}

Handlers(mw) == SelectSeq(Middleware, LAMBDA m : mw[m] = "on")

\* A probe that cannot be made into a handler: an HTTP check needs a host.
ProbeValid(p) == p.kind = "http" => p.host /\ p.port > 0

\* RegisterServices makes the prober and the reloader.
ServicesValid(c) ==
  /\ c.svc["healthcheck"] = "on" => \A i \in DOMAIN c.probes : ProbeValid(c.probes[i])
  /\ c.svc["reloader"] = "on" => c.watched

NoEngine == [port |-> 0, tls |-> FALSE, auth |-> "unset", handlers |-> <<>>, services |-> {}, probes |-> <<>>]

\* The engine NewEngine, UseMiddleware and RegisterServices make of a
\* configuration; its middleware holds the sections by value.
Engine(c) ==
  [port |-> c.port, tls |-> c.tls, auth |-> c.auth, handlers |-> Handlers(c.mw),
   services |-> {s \in ServiceName : c.svc[s] = "on"}, probes |-> c.probes]

\* NewCustomEngine applies the defaults once more, to its own copy.
Buildable(c) ==
  LET d == ApplyDefaults(c)
  IN  Valid(d) /\ ServicesValid(d) /\ (d.mw["trace"] = "on" => TracerRegistered)
NewCustomEngine(c) == IF Buildable(c) THEN Engine(ApplyDefaults(c)) ELSE NoEngine

\* What the caller's configuration c looks like after its copy became d.
Kept(c, d) == [n \in DOMAIN c |-> IF c[n] = "absent" THEN "absent" ELSE d[n]]
Shared(c, d) ==
  [c EXCEPT !.mw = Kept(@, d.mw), !.svc = Kept(@, d.svc),
            !.certs = IF c.mw["certificate"] = "absent" THEN @ ELSE d.certs,
            !.watched = IF c.svc["reloader"] = "absent" THEN @ ELSE d.watched]

\* The webserver's part of NewManager: metrics are exposed on the sidecar.
WebConfig(c) == [ApplyDefaults(c) EXCEPT !.svc["metrics"] = "off", !.probes = <<>>]

\* ApplySidecarDefaults.  All middleware but recovery is dropped here, and
\* the defaults NewCustomEngine applies come after.
SidecarDefaults(c) ==
  LET d == ApplyDefaults(c)
  IN  [d EXCEPT !.port = IF c.sidePort > 0 THEN c.sidePort ELSE SidePort,
                !.auth = IF d.tls THEN "none" ELSE @,
                !.mw = [m \in MiddlewareName |-> IF m = "recovery" THEN "on" ELSE "absent"]]

CheckOf(enabled, host, port) ==
  [kind |-> IF enabled THEN "http" ELSE "telnet", host |-> host, port |-> port, token |-> 0]

\* createDefaultHealthChecks: w is the defaulted configuration of the
\* webserver; the address of the proxy is the one the caller gave.
DefaultChecks(w) ==
  LET health == w.svc["healthcheck"] = "on"
      own == w.proxy.health
      web == CheckOf(health, w.host, w.port)
      prx == CheckOf(own = "on" \/ (own = "absent" /\ health), w.proxy.port > 0, w.proxy.port)
  IN  IF w.proxy.on THEN <<web, prx>> ELSE <<web>>

\* A probe with no address gets the webserver's; one that already names the
\* webserver gets the token of the request when OAuth is on.
InjectProbe(p, w) ==
  LET same == p.port = w.port /\ p.host = w.host
      none == p.port = 0 /\ ~p.host
  IN  IF p.kind # "http" THEN p
      ELSE [p EXCEPT !.host = IF none \/ same THEN w.host ELSE @,
                     !.port = IF none THEN w.port ELSE @,
                     !.token = IF same /\ w.mw["oauth"] = "on" THEN @ + 1 ELSE @]

\* WithAddress refuses the address of a webserver that has no host.
Injectable(c, w) ==
  c.side["healthcheck"] = "absent" \/
  \A i \in DOMAIN c.probes :
     LET p == c.probes[i]
     IN  p.kind = "http" /\ ((p.port = 0 /\ ~p.host) \/ (p.port = w.port /\ p.host = w.host)) => w.host

InjectProbes(c, w) == [i \in DOMAIN c.probes |-> InjectProbe(c.probes[i], w)]

\* injectConfig: the sidecar s serves the sidecar services of the caller c,
\* with the default checks when the caller configured none.
InjectConfig(s, c, w) ==
  LET given == c.side["healthcheck"] # "absent"
  IN  [s EXCEPT !.svc = [c.side EXCEPT !["healthcheck"] = IF given THEN @ ELSE "on"],
                !.watched = FALSE,
                !.probes = IF given THEN InjectProbes(c, w) ELSE DefaultChecks(w)]

\* ApplyProxyDefaults, in the two parts between which the writes into
\* shared sections end: what it switches off, then what it replaces.
ProxyShared(c) ==
  [ApplyDefaults(c) EXCEPT !.svc["metrics"] = "off", !.mw["certificate"] = "off"]
ProxyDefaults(c) ==
  LET d == ProxyShared(c)
  IN  [d EXCEPT !.svc = [@ EXCEPT !["proxy"] = "absent", !["reloader"] = "absent"],
                !.port = IF c.proxy.port > 0 THEN c.proxy.port ELSE ProxyPort,
                !.auth = IF c.proxy.plain THEN "unset" ELSE IF d.tls THEN "none" ELSE @,
                !.tls = d.tls /\ ~c.proxy.plain,
                !.mw = [m \in MiddlewareName |->
                          IF c.proxy.mw[m] # "absent" THEN c.proxy.mw[m] ELSE d.mw[m]],
                !.certs = IF c.proxy.mw["certificate"] # "absent" THEN 1 ELSE @,
                !.probes = <<>>]

HasProxy(c) == c.proxy.on /\ c.proxy.routes

(***************************************************************************)
(* NewManager, statement by statement: it ends with the engines, or with   *)
(* an error and none, and in both cases has written what it wrote into the *)
(* caller's sections.                                                      *)
(***************************************************************************)
NewManager(c) ==
  LET w  == WebConfig(c)
      c1 == Shared(c, ApplyDefaults(w))      \* written by the webserver
      s  == SidecarDefaults(c1)
      c2 == Shared(c1, ApplyDefaults(c1))    \* and by ApplySidecarDefaults
      c3 == IF c2.side["healthcheck"] = "absent" THEN c2
            ELSE [c2 EXCEPT !.probes = InjectProbes(c2, w)]
      side == InjectConfig(s, c2, w)
      p  == ProxyDefaults(c3)
      c4 == Shared(c3, ProxyShared(c3))
      Failed(d) == [ok |-> FALSE, conf |-> d, web |-> NoEngine, side |-> NoEngine, proxy |-> NoEngine]
  IN  IF ~Buildable(w) THEN Failed(c1)
      ELSE IF ~Injectable(c2, w) THEN Failed(c2)
      ELSE IF ~Buildable(side) THEN Failed(c3)
      ELSE IF HasProxy(c) /\ ~Buildable(p) THEN Failed(c4)
      ELSE [ok |-> TRUE, conf |-> IF HasProxy(c) THEN c4 ELSE c3,
            web |-> NewCustomEngine(w), side |-> NewCustomEngine(side),
            proxy |-> IF HasProxy(c) THEN NewCustomEngine(p) ELSE NoEngine]
=============================================================================
