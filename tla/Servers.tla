------------------------------ MODULE Servers ------------------------------
(***************************************************************************)
(* A server from its configuration to its end: pkg/ginserver/manager,      *)
(* pkg/ginserver and the levels of pkg/graceful between them.              *)
(*                                                                         *)
(* NewManager builds the engines, more than once from the same             *)
(* configuration if the caller likes.  Manager.Run, or Engine.Run of the   *)
(* webserver alone, then runs a tree of functions: RunAllBackgroundFunc of *)
(* the manager over the engines, of each engine over its prober, reloader  *)
(* and HTTP server.  At every level a goroutine per member (a slot) calls  *)
(* Run on a function that starts the level below and waits for the first   *)
(* value of its channel.                                                   *)
(*                                                                         *)
(* A node of the tree is the path to it: << >> is the group Manager.Run    *)
(* makes, <<"m">> the manager, <<"m", e>> engine e, <<"m", e, k>> its task *)
(* k.  Time is left out: a shutdown timeout may pass whenever only drains  *)
(* keep its slot waiting.                                                  *)
(***************************************************************************)
EXTENDS ServerConfig, FiniteSets

CONSTANTS
  Configs,    \* the configurations a caller may pass to NewManager
  Flags,      \* the command lines the caller may bind to it
  MaxBuilds,  \* bound: calls of NewManager with one configuration
  MaxFaults,  \* bound: tasks that fail on their own
  MaxSlots    \* bound: slots of the tree that is run

ASSUME BoundsAssumption == {MaxBuilds, MaxFaults, MaxSlots} \subseteq Nat
ASSUME ConfigsAssumption ==
  /\ Configs \subseteq Configuration
  /\ \A f \in Flags : /\ f.port \in Nat
                      /\ \A given \in {f.mw, f.svc} : \A n \in DOMAIN given : given[n] \in {"on", "off"}

VARIABLES
  boot,    \* the caller's configuration, as given and as it is by now, and what was built of it
  plan,    \* the engines that run: the port and the tasks of each
  root,    \* the group whose channel the caller reads, "none" before Run
  slot,    \* what each slot is at
  stop,    \* the slots whose own context is done: stop() of Run, or a signal
  cancel,  \* the groups whose cancel() was called
  caller,  \* whether the caller's context is done
  task,    \* what each task is at
  told,    \* the first value on the channel of each task
  returned, \* what Run returned
  faults

bootVars == <<boot, plan>>
runVars == <<root, slot, stop, cancel, caller, task, told, returned, faults>>
serversVars == <<bootVars, runVars>>

EngineName == {"web", "side", "proxy"}
TaskName == {"prober", "reloader", "http"}
Tasks == {<<"m", e, k>> : e \in EngineName, k \in TaskName}
Groups == {<<>>, <<"m">>} \cup {<<"m", e>> : e \in EngineName}
Nodes == (Groups \ {<<>>}) \cup Tasks
NoRoot == <<"none">>

Parent(n) == SubSeq(n, 1, Len(n) - 1)
Members(g) ==
  {n \in Nodes : /\ Parent(n) = g
                 /\ Len(n) >= 2 => n[2] \in DOMAIN plan
                 /\ Len(n) = 3 => n[3] \in plan[n[2]].tasks}

Finished(n) == slot[n] \in {"ok", "error"}

\* The context a slot gives its function: done when the slot's own is, or the
\* group's of any level up to the root, or the caller's.
ContextDone(n) ==
  \/ caller
  \/ \E i \in Len(root) + 1 .. Len(n) :
        SubSeq(n, 1, i) \in stop \/ SubSeq(n, 1, i - 1) \in cancel

\* Slip: the channel is closed as soon as one slot is done.
FirstValueEager(n) ==
  IF n \in Tasks THEN told[n]
  ELSE IF \E k \in Members(n) : slot[k] = "error" THEN "error"
  ELSE IF \E k \in Members(n) : slot[k] = "ok" THEN "nil"
  ELSE "none"

\* The first value on the channel of n: the error some slot of the group has
\* sent, or nothing at all once every slot is done and the channel closed.
FirstValue(n) ==
  IF n \in Tasks THEN told[n]
  ELSE IF \E k \in Members(n) : slot[k] = "error" THEN "error"
  ELSE IF \A k \in Members(n) : slot[k] = "ok" THEN "nil"
  ELSE "none"

NotBooted == [given |-> 0, conf |-> 0, mgr |-> [ok |-> FALSE], webs |-> <<>>, tries |-> 0, bound |-> FALSE, proxied |-> FALSE]

ServersInit ==
  /\ \E c \in Configs : boot = [NotBooted EXCEPT !.given = c, !.conf = c]
  /\ plan = <<>> /\ root = NoRoot
  /\ slot = [n \in Nodes |-> "idle"] /\ stop = {} /\ cancel = {}
  /\ caller = FALSE /\ task = [t \in Tasks |-> "idle"] /\ told = [t \in Tasks |-> "none"]
  /\ returned = "none" /\ faults = 0

Booting == root = NoRoot

\* Config.BindFlags, before the configuration is used.
Bind(f) ==
  /\ Booting /\ boot.tries = 0 /\ ~boot.bound
  /\ boot' = [boot EXCEPT !.conf = BindFlags(@, f), !.given = BindFlags(@, f), !.bound = TRUE]
  /\ UNCHANGED <<plan, runVars>>

\* NewManager on the caller's configuration.
Build ==
  LET m == NewManager(boot.conf)
  IN  /\ Booting /\ boot.tries < MaxBuilds
      /\ boot' = [boot EXCEPT !.conf = m.conf, !.mgr = m, !.tries = @ + 1,
                              !.webs = IF m.ok THEN Append(@, m.web) ELSE @,
                              !.proxied = @ \/ HasProxy(boot.conf)]
      /\ UNCHANGED <<plan, runVars>>

TasksOf(engine) ==
  {"http"} \cup (IF "healthcheck" \in engine.services THEN {"prober"} ELSE {})
           \cup (IF "reloader" \in engine.services THEN {"reloader"} ELSE {})

\* Manager.Run (r = << >>) or Engine.Run of the webserver: the configuration
\* is not used any more.
Run(r) ==
  /\ Booting /\ boot.mgr.ok
  /\ LET m == boot.mgr
         engines == [e \in EngineName |-> CASE e = "web" -> m.web [] e = "side" -> m.side
                                            [] e = "proxy" -> m.proxy]
         names == IF r # <<>> THEN {"web"} ELSE {e \in EngineName : engines[e] # NoEngine}
     IN  plan' = [e \in names |-> [port |-> engines[e].port, tasks |-> TasksOf(engines[e])]]
  /\ boot' = NotBooted /\ root' = r
  /\ slot' = [n \in Nodes |-> IF n \in Members(r)' THEN "new" ELSE "idle"]
  /\ Cardinality({n \in Nodes : n \in Members(Parent(n))'}) - Len(r) <= MaxSlots
  /\ UNCHANGED <<stop, cancel, caller, task, told, returned, faults>>

\* Slip: FailFast is forgotten.
EndSlotAlone(n, how) == slot' = [slot EXCEPT ![n] = how] /\ cancel' = cancel

\* A slot ends; the first error cancels the group (FailFast) and is sent.
EndSlot(n, how) ==
  /\ slot' = [slot EXCEPT ![n] = how]
  /\ cancel' = IF how = "error" THEN cancel \cup {Parent(n)} ELSE cancel

\* Run returns at once when its context is done.  If not, it calls the
\* function in a goroutine: a group gets its slots, a task starts.  (A function
\* called only after the context is done in the meantime starts tasks that
\* drain at once, as they do here when the context is done after the call.)
Enter(n) ==
  /\ slot[n] = "new"
  /\ IF ContextDone(n) THEN EndSlot(n, "error") /\ UNCHANGED task
     ELSE /\ slot' = [k \in Nodes |-> IF k = n THEN "open"
                                      ELSE IF k \in Members(n) THEN "new" ELSE slot[k]]
          /\ task' = IF n \notin Tasks THEN task
                     ELSE [task EXCEPT ![n] = IF n[3] = "http" THEN "up" ELSE "serving"]
          /\ UNCHANGED cancel
  /\ UNCHANGED <<bootVars, root, stop, caller, told, returned, faults>>

\* The context is done while the function runs: Run calls stop() and waits.
StopSlot(n) ==
  /\ slot[n] = "open" /\ ContextDone(n)
  /\ slot' = [slot EXCEPT ![n] = "stopping"]
  /\ stop' = stop \cup {n}
  /\ UNCHANGED <<bootVars, root, cancel, caller, task, told, returned, faults>>

\* The function has returned: Run calls stop(), whatever was left below.
Finish(n) ==
  /\ slot[n] \in {"open", "stopping"} /\ FirstValue(n) # "none"
  /\ EndSlot(n, IF FirstValue(n) = "error" THEN "error" ELSE "ok")
  /\ stop' = stop \cup {n}
  /\ UNCHANGED <<bootVars, root, caller, task, told, returned, faults>>

\* The function did not finish within the shutdown timeout, which is long:
\* what is not a drain has had its turn by then.
Under(n) == {k \in Nodes : Len(k) >= Len(n) /\ SubSeq(k, 1, Len(n)) = n}
Timeout(n) ==
  /\ slot[n] = "stopping" /\ FirstValue(n) = "none"
  /\ \A k \in Under(n) : slot[k] \notin {"new", "open"}
  /\ \A t \in Tasks \cap Under(n) : task[t] \notin {"up", "serving"}
  /\ EndSlot(n, "error")
  /\ UNCHANGED <<bootVars, root, stop, caller, task, told, returned, faults>>

End(t, how) ==
  /\ task' = [task EXCEPT ![t] = "ended"]
  /\ told' = [told EXCEPT ![t] = IF @ = "none" THEN how ELSE @]

PortTaken(t) ==
  \E s \in Tasks : s # t /\ s[3] = "http" /\ task[s] = "serving" /\ plan[s[2]].port = plan[t[2]].port

\* The server listens; one whose port is taken ends with an error.
Serve(t) ==
  /\ task[t] = "up"
  /\ IF PortTaken(t) THEN End(t, "error")
     ELSE task' = [task EXCEPT ![t] = "serving"] /\ UNCHANGED told
  /\ UNCHANGED <<bootVars, root, slot, stop, cancel, caller, returned, faults>>

TaskFails(t) ==
  /\ task[t] = "serving" /\ faults < MaxFaults
  /\ End(t, "error") /\ faults' = faults + 1
  /\ UNCHANGED <<bootVars, root, slot, stop, cancel, caller, returned>>

\* The task sees its context done and winds down: the HTTP server waits for
\* its requests, so this may take for ever, and Run at every level stops
\* waiting after its timeout.
Drain(t) ==
  /\ task[t] \in {"up", "serving"} /\ ContextDone(t)
  /\ task' = [task EXCEPT ![t] = "draining"]
  /\ UNCHANGED <<bootVars, root, slot, stop, cancel, caller, told, returned, faults>>

Drained(t) ==
  /\ task[t] = "draining"
  /\ End(t, "nil")
  /\ UNCHANGED <<bootVars, root, slot, stop, cancel, caller, returned, faults>>

Running == root # NoRoot /\ returned = "none"

CallerCancels ==
  /\ Running /\ ~caller /\ caller' = TRUE
  /\ UNCHANGED <<bootVars, root, slot, stop, cancel, task, told, returned, faults>>

\* SIGTERM: every Run that has registered by now is told, no other.
Signal ==
  /\ Running /\ \E n \in Nodes : slot[n] = "open"
  /\ stop' = stop \cup {n \in Nodes : slot[n] = "open"}
  /\ UNCHANGED <<bootVars, root, slot, cancel, caller, task, told, returned, faults>>

\* Slip: Run returns with the first error it reads.
ReturnFirst ==
  /\ Running /\ FirstValue(root) # "none"
  /\ returned' = FirstValue(root)
  /\ cancel' = cancel \cup {root}
  /\ UNCHANGED <<bootVars, root, slot, stop, caller, task, told, faults>>

\* The channel of the root is closed: the errors read from it are returned.
ReturnErrors ==
  /\ Running /\ \A n \in Members(root) : Finished(n)
  /\ returned' = IF \E n \in Members(root) : slot[n] = "error" THEN "error" ELSE "nil"
  /\ cancel' = cancel \cup {root}
  /\ UNCHANGED <<bootVars, root, slot, stop, caller, task, told, faults>>

ServersNext ==
  \/ \E f \in Flags : Bind(f)
  \/ Build
  \/ \E r \in {<<>>, <<"m", "web">>} : Run(r)
  \/ \E n \in Nodes : Enter(n)
  \/ \E n \in Nodes : StopSlot(n)
  \/ \E n \in Nodes : Finish(n)
  \/ \E n \in Nodes : Timeout(n)
  \/ \E t \in Tasks : Serve(t)
  \/ \E t \in Tasks : TaskFails(t)
  \/ \E t \in Tasks : Drain(t)
  \/ \E t \in Tasks : Drained(t)
  \/ CallerCancels
  \/ Signal
  \/ ReturnErrors

\* Goroutines get to run and timers fire; a drain need not end.  No action can
\* be taken for ever, so fairness of all of them together is enough.
Progress ==
  \/ \E n \in Nodes : Enter(n) \/ StopSlot(n) \/ Finish(n) \/ Timeout(n)
  \/ \E t \in Tasks : Drain(t)
  \/ ReturnErrors

ServersSpec == ServersInit /\ [][ServersNext]_serversVars /\ WF_serversVars(Progress)

-----------------------------------------------------------------------------
(* Correctness. *)

Stopped(t) == task[t] \in {"idle", "ended"}

\* Manager.Run (manager.go:344) and Engine.Run (ginserver.go:240) return nil
\* only when nothing failed and nothing is left running: an error of a task
\* gets through all the levels, each of which reads one value only.
NilMeansClean == returned = "nil" => \A t \in Tasks : Stopped(t) /\ told[t] # "error"

\* Engine.Run "blocks until it stops": when it returns, every task is over,
\* or Run at some level gave up waiting for it.  (Manager.Run is different:
\* it returns with the first error while the servers still drain.)
EngineRunWaits ==
  (returned # "none" /\ root # <<>>) =>
     \A n \in Members(root) : ~Stopped(n) => slot[n] = "error"

\* What the result of Run says of the servers below it.
ReturnSound == NilMeansClean /\ EngineRunWaits

\* After a failure or a cancellation Run returns and no server goes on
\* accepting requests, whichever level the stop came from and however long the
\* drains take.  A signal does the same to Manager.Run, whose own Run is the
\* first to register for it; it need not to Engine.Run, where a signal at start
\* stops the tasks that have registered by then and no others.
Troubled ==
  caller \/ (\E t \in Tasks : told[t] = "error") \/ (root = <<>> /\ stop # {})
StopsEverything ==
  Troubled ~> (returned # "none" /\ \A t \in Tasks : task[t] \notin {"up", "serving"})

Wanted(c) ==
  LET d == ApplyDefaults(c) IN [handlers |-> Handlers(d.mw), tls |-> d.tls, port |-> d.port]

\* What the manager writes into sections it shares with the caller never
\* reaches a webserver: each one built has the middleware, TLS and port that
\* the caller's first configuration asks for, unless a proxy was built from
\* that configuration before, which switches certificates off for good
\* (manager/proxy.go:57); and no webserver exposes the metrics.
WebserverAsConfigured ==
  \A i \in DOMAIN boot.webs :
     LET web == boot.webs[i]
         got == [handlers |-> web.handlers, tls |-> web.tls, port |-> web.port]
         off == [boot.given EXCEPT !.mw["certificate"] = "off"]
     IN  /\ got = Wanted(boot.given) \/ (i > 1 /\ boot.proxied /\ got = Wanted(off))
         /\ "metrics" \notin web.services
=============================================================================
