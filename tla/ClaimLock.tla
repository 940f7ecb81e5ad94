----------------------------- MODULE ClaimLock -----------------------------
(***************************************************************************)
(* pkg/store/utilities/claimlock: the controllers of a cluster each list   *)
(* the running pods, then the locks, and claim those whose owner was not   *)
(* among the pods.  The claimer is the user's; it is modelled in three     *)
(* ways its signature allows: it takes the lock in any case ("applies", as *)
(* the example of the package does), or only if its value is still the one *)
(* that was passed, and otherwise does nothing ("compares") or returns an  *)
(* error ("refuses"), which ends Run.                                      *)
(***************************************************************************)
EXTENDS Naturals, FiniteSets

CONSTANTS
  Controllers,  \* pods, by number; none comes back under its number
  Locks

Nobody == 0
ASSUME ClaimLockAssumption == Nobody \notin Controllers

VARIABLES
  claimer,  \* how the user's ClaimLock writes
  alive,    \* the running pods
  dead,     \* the pods that are gone
  owner,    \* the owner of each lock
  runner    \* the loop of each controller

claimVars == <<claimer, alive, dead, owner, runner>>

Resting == [pc |-> "sleeps", pods |-> {}, locks |-> <<>>]

ClaimInit ==
  /\ claimer \in {"applies", "compares", "refuses"}
  /\ alive \in SUBSET Controllers /\ Cardinality(alive) = 2 /\ dead = {}
  /\ owner \in [Locks -> alive \cup {Nobody}]
  /\ runner = [c \in Controllers |-> Resting]

PodStarts(c) ==
  /\ c \notin alive \cup dead
  /\ alive' = alive \cup {c}
  /\ UNCHANGED <<claimer, dead, owner, runner>>

\* A pod goes; the watches of the others see the event.
PodGoes(c) ==
  /\ c \in alive /\ Cardinality(alive) > 1
  /\ alive' = alive \ {c} /\ dead' = dead \cup {c}
  /\ runner' = [d \in Controllers |->
                  IF d = c \/ runner[d].pc = "watches" THEN Resting ELSE runner[d]]
  /\ UNCHANGED <<claimer, owner>>

\* A controller takes a lock that is free, in the course of its own work.
Acquire(c, l) ==
  /\ c \in alive /\ owner[l] = Nobody
  /\ owner' = [owner EXCEPT ![l] = c]
  /\ UNCHANGED <<claimer, alive, dead, runner>>
Release(c, l) ==
  /\ c \in alive /\ owner[l] = c
  /\ owner' = [owner EXCEPT ![l] = Nobody]
  /\ UNCHANGED <<claimer, alive, dead, runner>>

Step(c, pc, next) ==
  /\ c \in alive /\ runner[c].pc = pc /\ runner' = [runner EXCEPT ![c] = next]

\* CheckLocks, after the latency: the running pods,
ListPods(c) ==
  /\ Step(c, "sleeps", [Resting EXCEPT !.pc = "lists", !.pods = alive])
  /\ UNCHANGED <<claimer, alive, dead, owner>>

\* the locks without a controller (an empty owner is skipped),
Orphans(pods) == {l \in Locks : owner[l] # Nobody /\ owner[l] \notin pods}

ClaimOrWatch(pods, locks) ==
  IF DOMAIN locks = {} THEN [Resting EXCEPT !.pc = "watches"]
  ELSE [pc |-> "claims", pods |-> pods, locks |-> locks]

GetLocks(c) ==
  /\ Step(c, "lists", ClaimOrWatch(runner[c].pods, [l \in Orphans(runner[c].pods) |-> owner[l]]))
  /\ UNCHANGED <<claimer, alive, dead, owner>>

\* An error of any call ends Run, and nothing starts it again.
Ended == [Resting EXCEPT !.pc = "ended"]
CallError(c) ==
  /\ runner[c].pc # "ended" /\ Step(c, runner[c].pc, Ended)
  /\ UNCHANGED <<claimer, alive, dead, owner>>

\* and a claim of each.
Claim(c, l) ==
  LET locks == runner[c].locks
      taken == claimer = "applies" \/ owner[l] = locks[l]
      rest  == [k \in DOMAIN locks \ {l} |-> locks[k]]
  IN  /\ l \in DOMAIN locks
      /\ Step(c, "claims", IF ~taken /\ claimer = "refuses" THEN Ended ELSE ClaimOrWatch(runner[c].pods, rest))
      /\ owner' = [owner EXCEPT ![l] = IF taken THEN c ELSE @]
      /\ UNCHANGED <<claimer, alive, dead>>

\* Slip: only an event ends the watch.
WatchNeverEnds(c) == FALSE /\ Step(c, "watches", Resting) /\ UNCHANGED <<claimer, alive, dead, owner>>

\* The watch times out.
WatchEnds(c) ==
  /\ Step(c, "watches", Resting)
  /\ UNCHANGED <<claimer, alive, dead, owner>>

ClaimStep(c) == ListPods(c) \/ GetLocks(c) \/ WatchEnds(c) \/ \E l \in Locks : Claim(c, l)

(* Correctness. *)

\* A lock of a controller that is gone does not stay with it while another one
\* that is alive runs its loop: also when the owner went between the list of
\* pods and the start of the watch, and when the one that claimed it goes too.
Reclaimed ==
  \A l \in Locks : []<>(owner[l] \notin dead \/ \A c \in alive : runner[c].pc = "ended")
=============================================================================
