------------------------------ MODULE MCUpkeep ------------------------------
(***************************************************************************)
(* The loops that look after something in the background, for TLC: the     *)
(* health checks, the reloader and the claims of locks.  They share no     *)
(* state, so one of them is followed in each behaviour.                    *)
(***************************************************************************)
EXTENDS Health, Reloader, ClaimLock

VARIABLE followed

upkeepVars == <<followed, healthVars, reloaderVars, claimVars>>

MCKeys == {1, 2}
MCEndpoints == <<{"health"}, {"health", "ready"}>>
MCMayFail == <<FALSE, TRUE>>
MCConditions == <<{"ok", "hang"}, {"ok"}>>
MCFiles == <<"tls.crt", "tls.key">>

Init ==
  /\ followed \in {"health", "reloader", "locks"}
  /\ HealthInit /\ ReloaderInit /\ ClaimInit
  /\ \A f \in FileIndex : content[f] = 1  \* whichever: contents are only compared
  /\ followed # "health" => setup = "probes" /\ world = [k \in Keys |-> "ok"]
  /\ followed # "locks" => claimer = "applies" /\ owner = [l \in Locks |-> Nobody] /\ alive = CHOOSE a \in SUBSET Controllers : Cardinality(a) = 2

InHealth == followed = "health" /\ UNCHANGED <<followed, reloaderVars, claimVars>>
InReloader == followed = "reloader" /\ UNCHANGED <<followed, healthVars, claimVars>>
InLocks == followed = "locks" /\ UNCHANGED <<followed, healthVars, reloaderVars>>

Next ==
  \/ InHealth /\ HealthNext
  \/ InReloader /\ \E f \in FileIndex : FileChanges(f)
  \/ InReloader /\ \E f \in FileIndex : FileReturns(f)
  \/ InReloader /\ \E p \in Pods : Load(p)
  \/ InReloader /\ \E p \in Pods : Validate(p)
  \/ InReloader /\ \E p \in Pods : ValidateFails(p)
  \/ InReloader /\ \E p \in Pods : HashFile(p)
  \/ InReloader /\ \E p \in Pods : GetDeployment(p)
  \/ InReloader /\ \E p \in Pods : CallFails(p)
  \/ InReloader /\ \E p \in Pods : UpdateDeployment(p)
  \/ InReloader /\ OthersWrite
  \/ InReloader /\ \E p \in Pods : Replace(p)
  \/ InLocks /\ \E c \in Controllers : PodStarts(c)
  \/ InLocks /\ \E c \in Controllers : PodGoes(c)
  \/ InLocks /\ \E c \in Controllers, l \in Locks : Acquire(c, l)
  \/ InLocks /\ \E c \in Controllers, l \in Locks : Release(c, l)
  \/ InLocks /\ \E c \in Controllers : ListPods(c)
  \/ InLocks /\ \E c \in Controllers : GetLocks(c)
  \/ InLocks /\ \E c \in Controllers, l \in Locks : Claim(c, l)
  \/ InLocks /\ \E c \in Controllers : WatchEnds(c)
  \/ InLocks /\ \E c \in Controllers : CallError(c)

\* The fairness of the three together, one condition of each at a time.
Turn(i) ==
  \/ InHealth /\ ((i = 1 /\ HealthSecond) \/ (i = 2 /\ OftenStep))
  \/ InReloader /\ \E p \in Pods : (i = p /\ PodStep(p)) \/ (i = p + 2 /\ Replace(p))
  \/ InLocks /\ \E c \in Controllers : i = c /\ ClaimStep(c)

Spec == Init /\ [][Next]_upkeepVars /\ \A i \in 1..4 : WF_upkeepVars(Turn(i))

\* Where the reloader is followed, every pod comes to run with what the files
\* hold by then (FreshAtLast of Reloader: reloader.go:219, fsnotify/watcher.go:78).
PodsFresh == followed = "reloader" => FreshAtLast
=============================================================================
