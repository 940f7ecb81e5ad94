----------------------------- MODULE MCServers -----------------------------
(***************************************************************************)
(* Servers for TLC: the caller's configurations differ in the sections     *)
(* that NewManager writes to or that decide which tasks run.               *)
(***************************************************************************)
EXTENDS Servers

Sections(names, set) == [n \in names |-> IF n \in DOMAIN set THEN set[n] ELSE "absent"]

Probe == [kind |-> "http", host |-> FALSE, port |-> 0, token |-> 0]

\* cert, metrics, reloader: sections present or not; probes: those the caller
\* brings for the sidecar; prx: the proxy, with what its override switches on.
\* Some choices go together to keep the trees that run few: a webserver
\* without a host has no prober and no reloader, its sidecar no prober, and the
\* port of its sidecar is its own in some of the cases.
Config(host, tls, cert, metrics, reloader, probes, prx) ==
  [port |-> 0, host |-> host, limits |-> FALSE, tls |-> tls,
   auth |-> IF cert = "on" THEN "verify" ELSE "unset", certs |-> 0, watched |-> FALSE,
   mw |-> Sections(MiddlewareName, [certificate |-> cert, oauth |-> "on"]),
   svc |-> Sections(ServiceName, [metrics |-> metrics, reloader |-> IF host THEN reloader ELSE "absent",
                                  healthcheck |-> IF host THEN "absent" ELSE "off"]),
   side |-> Sections(ServiceName,
              IF host /\ probes = <<>> THEN [pprof |-> "on"]
              ELSE [pprof |-> "on", healthcheck |-> IF metrics = "off" \/ ~host THEN "off" ELSE "on"]),
   sidePort |-> IF ~host /\ metrics = "off" /\ ~tls THEN WebPort ELSE 0, probes |-> probes,
   proxy |-> [on |-> prx # "none", routes |-> prx # "idle", port |-> 0, plain |-> prx = "plain",
              mw |-> Sections(MiddlewareName, [certificate |-> IF prx = "guarded" THEN "on" ELSE "absent"]),
              health |-> "off"]]

MCFlags == {[port |-> 0, mw |-> [certificate |-> "off"], svc |-> [metrics |-> "on"]],
            [port |-> 1, mw |-> [oauth |-> "off", gzip |-> "on"], svc |-> [reloader |-> "off"]]}

MCConfigs ==
  {Config(host, tls, cert, metrics, reloader, probes, prx) :
     host \in BOOLEAN, tls \in BOOLEAN, cert \in Section, metrics \in Section,
     reloader \in {"absent", "on"}, probes \in {<<>>, <<Probe>>},
     prx \in {"none", "idle", "open", "plain", "guarded"}}
=============================================================================
