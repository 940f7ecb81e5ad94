------------------------------- MODULE Health -------------------------------
(***************************************************************************)
(* pkg/healthcheck over pkg/task/job and Timed: the prober runs all checks *)
(* at every interval and caches their results, the purger drops old ones,  *)
(* and an HTTP request reads the cache, position by position of its        *)
(* endpoint's list of checks.                                              *)
(*                                                                         *)
(* Results are cached under the position of the check among all checks and *)
(* read under its position in the endpoint's list.  One request at a time  *)
(* is followed; more would read the same cache.                            *)
(***************************************************************************)
EXTENDS Timed, Sequences, SequencesExt

CONSTANTS
  Endpoints,   \* for each check, in order, the endpoints it is registered for
  MayFail,     \* for each check, whether its failure is tolerated
  Conditions   \* for each check, how what it probes can be: "ok", "bad", "hang"

ASSUME HealthAssumption ==
  /\ Keys = DOMAIN Endpoints /\ MayFail \in [Keys -> BOOLEAN]
  /\ \A k \in Keys : Conditions[k] \subseteq {"ok", "bad", "hang"}

VARIABLES
  setup,    \* which loop runs often, "probes" or "purges", or the latter with
            \* RefreshAgeOnRead, "refresh", or the former while others delete
            \* items of the store, "shared"
  world,    \* how what each check probes is now
  prober,   \* the prober: what it is at, the results so far, the next to cache
  request,  \* the request that is being answered
  steady,   \* the checks whose cached result is the same since the request began
  down      \* whether the context of RunBackground is done

healthVars == <<timedVars, setup, world, prober, request, steady, down>>

Idle == [pc |-> "waits", res |-> [k \in Keys |-> "none"], next |-> 1]
NoRequest == [pc |-> "none", list |-> <<>>, got |-> <<>>, item |-> "none", code |-> "none"]

HealthInit ==
  /\ TimedInit
  /\ setup \in {"probes", "purges", "refresh", "shared"}
  /\ world \in {w \in [Keys -> {"ok", "bad", "hang"}] : \A k \in Keys : w[k] \in Conditions[k]}
  /\ prober = Idle /\ request = NoRequest
  /\ steady = {} /\ down = FALSE

AllChecks == [i \in DOMAIN Endpoints |-> i]
JobsForEndpoint(e) == SelectSeq(AllChecks, LAMBDA i : e \in Endpoints[i])
Lists == {AllChecks} \cup {JobsForEndpoint(e) : e \in UNION {Endpoints[i] : i \in DOMAIN Endpoints}}

\* There is a check, so an endpoint that one is registered for has a list; with
\* none, the answer is always "unavailable".  (What SelectSeq selects is a
\* sequence no longer than the one it is given.)
ASSUME ListsAssumption ==
  \A l \in Lists : l \in Seq(Keys) /\ l # <<>> /\ Len(l) <= Len(Endpoints)

\* For the properties: what is cached for check k becomes v.
Observed(k, v) == steady' = IF items[k].val = v THEN steady ELSE steady \ {k}

WorldChanges(k) ==
  /\ \E c \in Conditions[k] \ {world[k]} : world' = [world EXCEPT ![k] = c]
  /\ UNCHANGED <<timedVars, setup, prober, request, steady, down>>

HealthSecond ==
  /\ Second
  /\ UNCHANGED <<setup, world, prober, request, steady, down>>

\* The context ends, from outside or because the purger failed (FailFast).
\* The server takes no more requests; one that is open is not followed further.
HealthDown ==
  /\ ~down /\ down' = TRUE
  /\ request' = NoRequest /\ steady' = {}
  /\ UNCHANGED <<timedVars, setup, world, prober>>

ContextEnded == down \/ purger.pc = "failed"

-----------------------------------------------------------------------------
(* The prober: RunPeriodically around RunAny. *)

ProbeStart ==
  /\ prober.pc = "waits" /\ ~ContextEnded
  /\ prober' = [Idle EXCEPT !.pc = "checks"]
  /\ UNCHANGED <<timedVars, setup, world, request, steady, down>>

ProbeStop ==
  /\ prober.pc = "waits" /\ ContextEnded
  /\ prober' = [Idle EXCEPT !.pc = "stopped"]
  /\ UNCHANGED <<timedVars, setup, world, request, steady, down>>

\* RunAny waits for all the checks.
Report(k, r) ==
  LET res == [prober.res EXCEPT ![k] = r]
      all == \A i \in Keys : res[i] # "none"
  IN  /\ prober.pc = "checks" /\ prober.res[k] = "none"
      /\ prober' = [prober EXCEPT !.res = res, !.pc = IF all THEN "caches" ELSE @]
      /\ UNCHANGED <<timedVars, setup, world, request, steady, down>>

\* job.Run: the check's answer comes first; a panic counts as an error.
CheckAnswers(k) == world[k] # "hang" /\ Report(k, IF world[k] = "ok" THEN "ok" ELSE "error")

\* Slip: the timeout is not waited for.
CheckGivesUpOnlyDone(k) == ContextEnded /\ Report(k, "error")

\* Or the timeout or the context's end does; the answer is then dropped.
CheckGivesUp(k) == (world[k] = "hang" \/ ContextEnded) /\ Report(k, "error")

\* The results are cached one after the other.
CacheResult ==
  LET k == prober.next
  IN  /\ prober.pc = "caches"
      /\ Write(k, prober.res[k]) /\ Observed(k, prober.res[k])
      /\ prober' = IF k = Len(Endpoints) THEN Idle ELSE [prober EXCEPT !.next = k + 1]
      /\ UNCHANGED <<setup, world, request, down>>

-----------------------------------------------------------------------------
(* The purger, and others with access to the store. *)

Keep == UNCHANGED <<setup, world, prober, request, down>>

HealthPurgeList == PurgeList /\ ~ContextEnded /\ Keep /\ UNCHANGED steady
HealthPurgeItem(k) ==
  /\ PurgeItem(k) /\ Keep
  /\ IF items'[k] = NoItem THEN Observed(k, "none") ELSE UNCHANGED steady
HealthPurgeStop == ContextEnded /\ PurgeStop /\ Keep /\ UNCHANGED steady
UserDeletes(k) == setup = "shared" /\ Delete(k) /\ Observed(k, "none") /\ Keep

-----------------------------------------------------------------------------
(* A request. *)

Ask(list) ==
  /\ request.pc = "none" /\ ~ContextEnded
  /\ request' = [NoRequest EXCEPT !.pc = "reads", !.list = list]
  /\ steady' = Keys
  /\ UNCHANGED <<timedVars, setup, world, prober, down>>

Availability(g) == IF g.ok THEN "ok" ELSE IF g.tolerated THEN "partial" ELSE "unavailable"

\* Slip: the precedence of the statuses is reversed.
StatusResponseReversed(got) ==
  LET all == {Availability(got[i]) : i \in DOMAIN got}
  IN  IF "ok" \in all THEN "ok"
      ELSE IF "partial" \in all THEN "partial" ELSE "unavailable"

\* getStatusResponse: the worst of the statuses.
StatusResponse(got) ==
  LET all == {Availability(got[i]) : i \in DOMAIN got}
  IN  IF got = <<>> \/ "unavailable" \in all THEN "unavailable"
      ELSE IF "partial" \in all THEN "partial" ELSE "ok"

\* A result is added to the answer; after the last one the answer is sent.
Got(result) ==
  LET got == Append(request.got, result)
  IN  request' = IF Len(got) < Len(request.list)
                 THEN [request EXCEPT !.pc = "reads", !.got = got, !.item = "none"]
                 ELSE [NoRequest EXCEPT !.code = StatusResponse(got)]

Position == Len(request.got) + 1

\* A job with no result in the cache is reported as not started.
NotStarted == [ok |-> FALSE, tolerated |-> MayFail[request.list[Position]]]
Stored(v) == [ok |-> v = "ok", tolerated |-> MayFail[Position]]

\* The position in the endpoint's list is the key.
ReadCached ==
  /\ request.pc = "reads"
  /\ LET v == items[Position].val
     IN  IF v = "none" THEN Got(NotStarted)
         ELSE IF setup = "refresh" THEN request' = [request EXCEPT !.pc = "refreshes", !.item = v]
         ELSE Got(Stored(v))
  /\ steady' = IF request'.pc = "none" THEN {} ELSE steady
  /\ UNCHANGED <<timedVars, setup, world, prober, down>>

Refresh ==
  /\ request.pc = "refreshes"
  /\ Got(IF items[Position] = NoItem THEN NotStarted ELSE Stored(request.item))
  /\ WriteBack(Position, request.item)
  /\ steady' = IF request'.pc = "none" THEN {}
               ELSE IF items'[Position].val = items[Position].val THEN steady ELSE steady \ {Position}
  /\ UNCHANGED <<setup, world, prober, down>>

-----------------------------------------------------------------------------

ProberStep ==
  ProbeStart \/ ProbeStop \/ CacheResult \/ \E k \in Keys : CheckAnswers(k) \/ CheckGivesUp(k)
PurgerStep == HealthPurgeList \/ HealthPurgeStop \/ \E k \in Keys : HealthPurgeItem(k)

\* The interval of the prober and the period of the purger are configured
\* apart: the one that is short counts, and the other loop is not relied on.
OftenStep == IF setup \in {"probes", "shared"} THEN ProberStep ELSE PurgerStep

HealthNext ==
  \/ \E k \in Keys : WorldChanges(k)
  \/ HealthSecond
  \/ HealthDown
  \/ ProbeStart
  \/ ProbeStop
  \/ \E k \in Keys : CheckAnswers(k)
  \/ \E k \in Keys : CheckGivesUp(k)
  \/ CacheResult
  \/ HealthPurgeList
  \/ \E k \in Keys : HealthPurgeItem(k)
  \/ HealthPurgeStop
  \/ \E k \in Keys : UserDeletes(k)
  \/ \E list \in Lists : Ask(list)
  \/ ReadCached
  \/ Refresh

HealthSpec == HealthInit /\ [][HealthNext]_healthVars

-----------------------------------------------------------------------------
(* Correctness. *)

\* What /status, or an endpoint whose checks are the first ones registered,
\* answers is about its own checks, while results change under it: of those
\* that did not change meanwhile, one whose failure is not tolerated and that
\* has failed or has no result makes it "unavailable", and it is "ok" only if
\* none has failed; it says "unavailable" for no other reason.  (Other
\* endpoints answer with other checks' results, healthcheck.go:266.)
AnswersOwnChecks ==
  [][LET own == {request.list[i] : i \in DOMAIN request.list}
         same == {k \in steady : items'[k].val = items[k].val}
         failed == {k \in own : items[k].val # "ok"}
         fatal == {k \in failed : ~MayFail[k]}
     IN  (request'.code # "none" /\ request.pc # "none" /\ IsPrefix(request.list, AllChecks)) =>
           /\ fatal \cap same # {} => request'.code = "unavailable"
           /\ failed \cap same # {} => request'.code # "ok"
           /\ (request'.code = "unavailable" /\ own \subseteq same) => fatal # {}]_healthVars

\* A check that keeps failing or hanging is not reported as successful for
\* ever, though checks run side by side, a hanging one never answers and
\* results are cached one by one: the prober alone sees to it, and so does the
\* purger when the prober hardly runs; unless they have been stopped, or
\* RefreshAgeOnRead lets requests write back what they read before.
BrokenShows ==
  \A k \in {i \in Keys : Conditions[i] # {"ok"}} :
     (<>[](world[k] # "ok" /\ ~ContextEnded) /\ setup # "refresh") => <>[](items[k].val # "ok")

\* An item that has expired is purged or written anew, though the purger works
\* from a list that is old by then and readers refresh some of its items;
\* unless it was stopped, or ended because someone else had deleted what it was
\* about to delete.
ExpiredGoes ==
  \A k \in Keys : []<>(k \notin Held \/ ~Expired(items[k].age) \/ ContextEnded)

\* A check's result does not outlive its time, nor what it says.
ResultsMoveOn == BrokenShows /\ ExpiredGoes

\* Whatever the prober, requests and the purger do at once, the purger fails only
\* if somebody else deletes items from its store.
PurgerSurvives == purger.pc = "failed" => setup = "shared"
=============================================================================
