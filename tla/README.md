# golibs in TLA+

TLA+ specifications of the concurrent and failure-handling parts of
`ing-bank/golibs`, a library of building blocks for Go services. TLC checks the
specifications on small instances, TLAPS proves the most important results for
every value of the constants. Everything is translated from the source under
`src/`; `PROJECT.json` maps each definition to the lines it stands for.

- [The system](#the-system): inventory of components
- [The modules](#the-modules): how state and actions correspond to the code
- [The runs](#the-runs): what is checked, within which bounds
- [Fairness](#fairness)
- [The proofs](#the-proofs)
- [Where code and comments differ](#where-code-and-comments-differ)
- [What else the models brought to light](#what-else-the-models-brought-to-light)
- [Not modelled](#not-modelled)
- [Plan](#plan)

To check a run: `tlc -config <cfg> <Module>.tla`, as listed under "runs" of
`PROJECT.json`. To check the proofs: `tlapm <Module>.tla` for the modules named
`...Proofs`.

## The system

golibs is a set of packages; a program picks some and composes them. There is
no one process or protocol, so the inventory goes by component. "Hard" names the
behaviour that tests rarely reach, "correct" what has to hold.

### Orchestration (`pkg/orchestration`, `pkg/task/runnable`)

`CallStagedServices` calls services in stages. For every stage it runs all
checks, on failure optionally all recoveries, then all runs, each service in a
goroutine of its own through `runnable.Run`. When a stage fails, the
failed stage and the earlier stages are rolled back in goroutines nobody waits for.

- State: the loop over stages, one goroutine and one entry of `taskErrors` per
  service and action, the rollback goroutines, the HTTP reply.
- Interactions: calls the user's `Service`s; `RestApiService` makes one out of a
  REST API, with a backup read in `Check`, written back by `Rollback`;
  `orchestration/service` makes a workflow out of services.
- Hard: the context ends while goroutines are running (they go on, abandoned);
  dry run, recovery and `SkipRollback` combine; rollbacks of different stages
  run side by side; the answer of a call to a REST API is lost.
- Correct: nothing runs before its checks have passed, no stage before the
  earlier ones; the reply tells the truth; a successful rollback leaves no
  trace; every service that was run is rolled back.

### Graceful and the servers (`pkg/graceful`, `pkg/httpserver`, `pkg/ginserver`)

`graceful.RunAll` runs functions side by side, recovers their panics, cancels
them on signals or at the first error, and gives up on those that do not stop in
time. `httpserver.run` puts a listener and its shutdown under `graceful.Run`;
`ginserver` puts an engine's prober, reloader and server in a group, and
`ginserver/manager` builds several engines from one configuration and groups them.

- State: contexts, the error channel, the shared result variable of `RunT`, the
  server's listener, shutdown and open requests; the sections of a configuration,
  some of which copies share.
- Hard: functions that hang, panic or end just as the timeout passes; signals
  between two registrations; closing the channel against sending on it; levels
  that read one error of several; a configuration that is built twice.
- Correct: every error is delivered exactly once, no send on a closed channel,
  `RunAll` returns although a function hangs, never while one runs unreported;
  a failure anywhere stops everything; an engine is what its configuration says.

### Requests (`pkg/middleware`, `pkg/access`)

Middleware of an engine runs in a fixed order around the handler: recovery,
metrics, logger, gzip and the authorizations, which put an account into the
context; the trust middleware looks the required scope up in the account's.

- State: the response written so far, the account, what was counted and logged.
- Hard: aborts and panics pass through middleware that has opened a stream or
  waits to count; wildcards take the place of longer grants; each authenticator
  replaces the account of the one before, by one with fewer rights, too.
- Correct: the handler runs for those who may, the answer can be decoded, and the
  status counted is the one sent.

### Store (`pkg/store`)

One interface (Create, Read, Update, Delete, Apply, List), with backends (memory,
fs, s3, http, Kubernetes, configmap, labels, replicate), middleware (cache,
threadsafe, prefix, nameable, validatable, kafka, logger, metrics) and utilities
(defaultmap, timed, claimlock). Options travel through the layers in one slice.

- State: the backend's map; the cache's copy; versions of objects and an
  informer's view of them; per replica the attempts of a write and of its
  rollback; ages of items; locks and their owners.
- Hard: the two writes of `cache` are two steps; look-then-write in fs, s3 and Apply;
  a file is created or cut off, and then encoding or the disk fails; an informer
  behind the API; calls fail before or after their effect; a retry meets its own
  earlier success; a rollback beside an abandoned attempt; the purger deletes from an
  old list; controllers claim from an old one.
- Correct: the cache holds what the persistent store holds; a call without error took
  effect at one instant, and what one with an error may leave is known; no update is
  lost; stores on one database keep apart; a replicated write without error is
  everywhere; what expired goes; locks of the gone are reclaimed.

### Tasks (`pkg/task/workflow`, `pkg/task/job`, `pkg/retry`, `pkg/healthcheck`)

- State: activities and their attempts, the cancel functions under an identity,
  the periodic job's running check, the cache of results.
- Hard: two Executes under one identity, stopping between two activities or
  within a backoff, a check that outlives its period, results cached under an index.
- Correct: activities in order, each until it succeeds, nothing after Stop;
  an endpoint reports its own checks, and a broken one shows.

### Kafka (`pkg/kafka`, `pkg/store/middleware/kafka`)

- State: the topic, the delivery channels, the consumer's stored and committed
  offsets, its error channel, the statistics and the status made of them.
- Hard: order of events against order of writes, a delivery report after the
  caller has given up, `Close` against a produce, a crash between processing and
  commit, a failing function between two that succeed.
- Correct: an event means a write, no message is skipped silently, the status is
  what was last reported.

### HTTP client and its store (`pkg/http`, `pkg/store/backends/http`, `pkg/errors`)

- State: the attempts of a request, the breaker noted last, the slice of default
  request options, what the servers have done.
- Hard: an answer is lost and the request repeated; attempts that arrive after
  the call has returned; a slice shared by concurrent requests.
- Correct: no error means done; a failure that is reported was met or unheard.

### Watchers (`pkg/fsnotify`, `pkg/reloader`)

- State: hashes of files, the deployment's template and version, the pods.
- Hard: pods that saw different contents write at once; conflicts and lost calls;
  files that come back to an earlier content.
- Correct: every pod comes to run with what the files hold.

### Helpers

`slices`, `opt`, `patch`, `config`, `logging`, `trace`, TLS set-up and test doubles
keep little state; see [Not modelled](#not-modelled).

## The modules

| module | models | state, in the code |
|---|---|---|
| `Saga` | abstract: stages commit in order, are undone in reverse | - |
| `Orchestration` | `CallStagedServices`, `CallServices`, `task.Run`, the reply | `inner`: goroutine of a service's own code; `report`: its `taskErrors` entry; `rb`: rollback of a stage; `pc`, `stage`: the loop |
| `RestApiService` | extends `Orchestration`: `Check`, `Run`, `Rollback` over a REST API | `api`: objects outside; `backup`: `proto.backup` |
| `Workflow` | `Execute`, `Stop`, `Finished`, the apply and delete workflows of `orchestration/service` | `registered`: the map of cancel functions; `attempt`: the worker of the activity; `made`: what the services did |
| `Graceful` | `RunT`, `Run`, `RunAllBackground`, `RunAll` | `pc`, `do`: the two goroutines of a function; `err`: the variable both write; `errChan`, `closer` |
| `HttpServer` | `run()` under `graceful.Run`, with time | `listen`, `shutdown`: the goroutines of the errgroup; `stopAt`: when graceful called `stop()` |
| `ServerConfig` | defaults, the order of middleware, `NewManager` | a section is a pointer: absent, on or off; `Shared`: what copies share |
| `Servers` | `Manager.Run`, `Engine.Run`: groups in groups over the engines built | `boot`: what was built from what; `slot`: a group's goroutine per member; `task`: prober, reloader, server |
| `Requests` | `pkg/access` with the lookup tree of `access/node.go`, and one request through `pkg/middleware` | `chain`, `at`, `going`: gin's handlers and `c.Next()`; `response`; `gz`: the gzip writer; `recorded`; a tree is the set of its paths |
| `Memory` | `backends/memory`: effect, refusal and answer of each call | operators on a map |
| `KeyValue` | abstract: one linearizable store; a call that fails has changed nothing, or, by the faults there can be, happened unheard or left its entry torn | `faults` |
| `CacheStore` | `threadsafe.New(cache.New(persistent, local))`, `defaultmap.Clone` | `store`, `cache`: the two maps; `pc`: the next step of a call; `seen`, `todo`, `cur`: locals of Clone |
| `Replication` | `backends/replicate` on `workflow.ExecuteConcurrent` and `retry` | `worker`: latest attempt of an activity; `report`: its error; `didLock`: the map of that name |
| `Options` | `store/options.go`: options taken out of a shared slice | operators on sequences |
| `Backend` | the calls of clients, whatever happens in between | `map`, `req`, `pc`, `ans` |
| `FileStore` | `backends/fs`: one process under its lock, or several that may crash; `backends/s3`: look, then put or delete; lost answers | `Hole`: a file without a value, being written or left so; `torn`: those a failed write left; `blind`, `raced`: creates whose look failed or was overtaken |
| `KubeStore` | `backends/kubernetes`, `configmap`: versions, Apply, the informer | `version`, and the informer's copy of both |
| `Backends` | all of these, by `kind`, with their common properties | - |
| `LabelStore` | `backends/labels` and the labels of the HTTP backend's server | `db`: items, their labels and who wrote them |
| `PrefixStore` | `middleware/prefix`, `nameable`, `validatable`, stacked | `entries`: the database; `stack`: each store's layers |
| `HttpClient` | `pkg/errors`, `pkg/http` and its default tripperware | `tries`, `resp`; `pool`: the breaker last noted; `spare`, `slot`: the shared slice |
| `RestStore` | `backends/http`: client, server and the statuses between them | `ran`: which attempts took effect with which outcome |
| `EventStore` | `middleware/kafka` over `kafka/producer` | `log`: the topic; `event`: the message of a call; delivery channels |
| `Consumer` | `kafka/consumer` | offsets polled, stored and committed; `handed`, `reported`, `manual` |
| `KafkaStatus` | `kafka/stats`, `MonitorEvents`, `/status`, `/stats` | `statistics`, `status`, the error channel, the answer under way |
| `Kafka` | the three above together | - |
| `Timed` | `utilities/timed`: ages and the purger | `items`, `purger` |
| `Health` | `task/job`, `healthcheck` over `Timed` | `prober`, `request`, `world`: what the checks probe |
| `Reloader` | `fsnotify`, `reloader` | `pod`: hashes, what it loaded, whether the deployment it got is outdated; `template`: the hashes in it |
| `ClaimLock` | `utilities/claimlock` with three claimers | `runner`: lists of pods and locks; `owner` |

`MCOrchestration`, `MCRestApiService`, `MCRestStore` and `MCServers` hold instances.
`MCHttpServer`, `MCReplication`, `MCBackends`, `MCUpkeep` and `Kafka` also put
components side by side: a variable (`followed`, `scene`) chosen at the start
says which of them a behaviour follows, so that their state spaces add up and do
not multiply. The proofs are in modules of their own: `OrchestrationProofs`
(`Orchestration` and `RestApiService`), `GracefulProofs` (`Graceful` and `Health`),
`HttpServerProofs` (`HttpServer`, `Requests` and `Servers`), `TaskProofs` (`Workflow` and `Replication`), `CacheStoreProofs`,
`BackendsProofs`, `RestStoreProofs` and `KafkaProofs`.
Definitions introduced as "Mutant" or "Slip" restate an action with a plausible
bug; no specification uses them, and each shows that a property notices it.

Conventions. An action is one step of one goroutine between two points where
others can see or change what it uses: a channel operation, a `select`, a call
out, a write of shared state. User code (services, functions, stores) ends with
success, an error (a panic is recovered into one) or never. An effect and its
answer are separate: a call that fails may have been served. Values are model
values; the text of errors and replies, logging and tracing are left out.

### Orchestration and Workflow

`Finish` is the service's own code ending, `Collect` the first branch of the
select in `runnable.Run`, `Timeout` the second. `StartStage`, `AfterCheck`,
`AfterRecover` and `AfterRun` are the loop's steps between its waits. The
failed stage's rollback starts only after a failed run; the walk over the
earlier stages starts whatever failed. `EndRollback` steps it to the stage
before. `RestFinish` conjoins an outcome of `Finish` with what it does to the API,
so the API decides which services fail. In `Workflow`, `TryActivity` starts a
worker, `Advance` and `Fail` are the two ways `executeActivity` learns of it, and
`WorkerEnds` is the worker's own end: one that hangs is abandoned at the context's
end and may still do its work later.

### Graceful and the servers

`Start` to `Return` follow `RunT`: the first select waits for the context or the
function, the second for the function or the timeout. Go's data race on `err`
(the recovering goroutine and the timeout) is a race between `DoEnd` and
`ShutdownTimeout`: both orders are steps. `HttpServer` counts time in units, from
the start of `run()`: deadlines depend on when something happened, which is the
point of the module. A group of goroutines has one context, and its first error is
the one that is kept. `Servers` takes the whole tree: every level reads one value
of the channel below, which is what decides which error gets out.

### Stores

In `CacheStore` a client takes the lock in `Call` (read lock for `Read` and
`List`), and leaves it in `Return`. A write goes to the persistent store and
then to the cache, which drops its error. `List` with `WithSkipCache` and no
other options runs `defaultmap.Clone`, which reads and writes key by key. `held`
is a history: what each key of the persistent store has held so far.

In `Replication`, `Attempt` is `retry.OnError`'s next attempt, in a worker of its
own; `Do` and `Undo` are the workers' calls; `Collect` and `Timeout` are the two
ways an activity ends. The rollback uses the zero value for a backup because
`WithRollback` is consumed from the options before the activities look for it.

`Backend` has what all calls share: `Invoke`, an answer, `Return`. The backend
modules add the steps between: `FileStore` a file that is created and then written,
and for s3 a look and then a put; `KubeStore` a read of the API or of the
informer's copy, then a write that carries the version it read. Opens, encoders,
disks and requests may fail at every call, and a request that an API server or s3
has served may go unanswered; `why` says which error a Read returns. An item of
`LabelStore` is followed alone, since its calls touch one item each.

### The rest

What the request of `Requests` carries is chosen where the middleware looks at it,
so that a chain without that middleware is not explored once per header. A user's
name and teams come in two headers: one who is named without teams is an account
without scopes. `Health`
keeps the list a request was given and what it has read so far; `Timed` keeps the
purger's list with ages, since it compares timestamps. `Reloader`'s contents are
their own hashes, and a file may come back to one. An update is refused if somebody
wrote since the pod got the deployment (`since`), instead of by version numbers;
a pod is of the present template or an `old` one. `ClaimLock`'s claimer is the
user's code: it applies whatever it is given, as the package's example does, compares before it writes, or
refuses with an error.

## The runs

| run | instance | states | shows |
|---|---|---|---|
| `orchestration` | 3 stages of 1 service: plain, recoverable, dry run service | 46 thousand | order of checks, recoveries, runs and rollbacks; the reply; a saga; it ends |
| `rest` | POST and PUT side by side, then DELETE beside GET; 3 objects; answers of Run may be lost | 1.0 million | Check, Run and Rollback fit together |
| `graceful` | 2 functions, FailFast or not | 63 thousand | errors delivered once, no unsafe send, it ends |
| `httpserver` | timeout 2, 2 requests, time up to 6; or one request through every chain | 1.5 million | what `run()` returns, and that it does; the handler is guarded, the answer sound |
| `cache` | 2 clients, 2 keys, 2 values, failing calls | 154 thousand | coherent, one linearizable store |
| `cache_shared` | 1 client, 2 keys, 2 values, other writers, lost answers | 110 thousand | stale at worst, never invented |
| `replicate` | 2 stores, 2 attempts; or 2 Executes of a chain of 2 services, 2 objects, 2 attempts or no end | 284 thousand | a nil error means replicated; activities in order; Stop and Finished; both return |
| `kafka` | 2 writers, 2 calls, 1 partition, 1 restart; or 2 brokers, 2 events | 4.1 million | events mean writes, commits mean handed over, health follows the last event |
| `backends` | 2 clients, 3 calls, 1 or 2 keys, each backend; or 2 stores with labels; or with prefixes | 932 thousand | linearizable where it can be, with what failures may leave, nothing overwritten or lost, nothing mixed up |
| `reststore` | 2 clients, 2 servers, 2 attempts, 2 faults, a breaker that opens at 2 | 3.9 million | nil means done, a failure was met, breakers stay closed |
| `servers` | every configuration of the sections that matter, 2 builds, 1 fault | 225 thousand | what `Run` returns, that everything stops, what was built |
| `upkeep` | 2 checks; or 2 pods, 2 files with 2 contents, 3 events; or 3 controllers and 1 lock | 291 thousand | the purger lives, results move on, pods are fresh, locks reclaimed |

Every run starts from every combination of options and every content of stores
and APIs; contexts may end at any step. A property that is a conjunction
(`CallOrder`, `FailFastHolds`, `ResultSound`, `NothingMixedUp`, ...) has its parts
defined one by one before it, each with the code it is about.

Why the bounds are enough:

- `orchestration`, `rest`: three stages are the least at which the rollback's walk
  takes two steps, so that its order and its end show; `rest` has services side by
  side. In `rest` each write has an object of its own, as a call whose services do
  not depend on each other does. What holds for more is proved.
- `graceful`: one function that fails and one that is cancelled.
- `httpserver`: a time of 6 is three shutdown timeouts, so a stop may come before,
  at and after the deadline fixed at start, and finish; `Stops` leaves out stops so
  late that the bound on time would cut them off. One request is enough for the
  middleware, whose handlers share nothing between requests but counters. Chains
  are all subsets of the middleware, in the order the engine gives them.
- `cache`: the properties relate one write to one other call. `cache_shared`
  needs one client: to it, writes of others and of other programs look alike.
- `replicate`: two stores are the least that can differ. `RetryOnce` has 2 steps,
  as here; `DefaultBackoff` has 4, and a third attempt starts from the states of the
  second. The channel given to `WithRollback` has room for one error per store; with
  less, `Execute` blocks (see below). Two Executes are one and its rival.
- `kafka`: two writers can be reordered, a second call can meet the first one's
  late report; one restart separates what was committed from what was handed over.
  Partitions are independent for a message without a key, so `EventsOrdered` needs
  one. For the status, two brokers of which one may leave the report, and two
  events, are the least that a stale entry and an error after statistics need;
  the error channel holds one, so it can overflow.
- `backends`: two clients of one key meet; a second key is there for List and the
  configmap, whose items are one object. Three calls are the least with which a
  client reads, another writes and the first writes back. An item is created,
  written and listed alone, so one item suffices for labels; the four set-ups
  give the same key, other values, the server's and none; three label values,
  one of which is also a key, as `util.go:65` compares values with keys. Prefixes:
  none, one that begins another, one apart.
- `reststore`: two faults take away two answers in a row; two attempts are a
  request and its retry; `Trip` is 10 in the code, and how many failures it takes is
  not what the property is about.
- `servers`: three levels of groups, as deep as the code nests them; two builds are
  the least that a written-to section needs. Choices that cannot influence each
  other go together (`MCConfigs`).
- `upkeep`: two checks, one of which may fail or hang; a check's result and its
  place in another list differ from two on. `MaxAge` of 1 is the least that
  expires. Two pods disagree; a third adds nothing to whose write came last. Three
  events let a file change, come back and change again; one of them may be a call
  that fails or a write of others instead.
  Three controllers: a lock's owner, one that claims it and is gone too, one left.

## Fairness

Only what the Go runtime gives: a goroutine that can go on does, timers fire,
time passes. So fairness is weak, and never on user code: services (`Finish`),
functions (`DoEnd`), requests (`Respond`), stores' calls (`Do`, `Undo`), workers
(`WorkerEnds`), checks that hang and drains that never end may take for ever, and
the liveness properties say that the library goes on without them. Selects are fair
as a whole, not per branch (`Collect \/ Timeout`), as Go picks any ready branch.

- `Orchestration` and `Replication` also assume that the caller's context ends at
  some time. Callers pass a request's context or one with a deadline; with a
  context that never ends, a service that hangs does hang the call, by design.
  `Workflow` does not: `StopReturns` has the stop as its premise.
- `Graceful` assumes nothing of its caller: `StopsOnCancel` has the
  end of the context, `StopsOnError` the first error, as its premise.
- `Servers` has one condition for all progress (`Progress`): no action of it can be
  taken for ever, so this is what fairness of each would give.
- `Health`: time passes, and the loop that is configured to run often does. The
  other loop is not relied on. A prober's round is finite, so fairness of its steps
  together gives each check its turn.
- `Reloader`, `ClaimLock`: each pod, each replacement and each controller. In
  `upkeep` these conditions are combined by `Turn`: only one of the three components
  moves in a behaviour, so one condition stands for each one's.
- `CacheStore`, the backends, `RestStore` and `Kafka` have no liveness property: they
  call others and wait, so whoever hangs holds up the caller.

## The proofs

All results below hold for every value of the constants that satisfies the
assumptions of the modules, each of which TLC evaluates in the runs. Most say that a
bound is a number, that a set is finite, that a value for "absent" is no value, or
that clients' requests are among those there are (`RestStoreAssumption`,
`BackendsAssumption`); `ConfigsAssumption` says what configurations and flags are,
`ScopesAssumption` that scopes are lists of labels, and
`KubeStoreAssumption` that there are finitely many keys. Two say what a function of Go's slices yields, which takes an
induction that is out of the prover's reach: `ListsAssumption` (`Health`: an endpoint's
list of checks has no more entries than there are checks) and `ChainsAssumption`
(`Requests`: a chain has its handlers in the order of all handlers, none twice).

`OrchestrationProofs`: `TypeCorrect`, `RunsOnlyAfterChecks`, `StagesInOrder`,
`RollbacksOnlyAfterRuns`, the three together as `CallsInOrder`, `RollbacksUndo`,
`RepliesAreSound` and `RefinesSaga`. The properties speak of stages far back, and a
step shows only the current one. So the invariant `Inv` adds: which stages an
action has reached (`ReachInv`), that a report comes from a goroutine that was
started, and that one other than "timeout" comes after it ended (`ReportInv`), that
the stages left behind have passed (`PassedInv`), and which reports back the error
returned (`OutcomeInv`). That a rollback meets no run still going on, but for
abandoned ones, follows from `ReportInv` with `RollbackInv`. `RefinesSaga` needs
`EarlierStagesReversed`: the walk goes down, one stage at a time. `AfterCheck`,
`AfterRecover` and `AfterRun` are first split into the four ways they end.
`ApiIsRestored`, of `RestApiService`, has two hypotheses that are needed: each service
that writes has an object of its own, the one its Check reads (`OwnObjects`), and the
answers to Check and Rollback do not get lost; those to Run may. Without the first, see
`Recreate...` below; without the second, a lost answer makes a POST's Check take an object
for absent, and its Rollback delete it. `MCRestApiService` lets TLC evaluate both for the
instance of `rest`. `CheckedInv` says what a passed Check knows of the object as the call found it;
`ObjectInv` that the object is either that or what Run makes of it, and the former before Run
and after Rollback. So a Rollback restores it whatever Run did (`RollbackFacts`). That
there is a Rollback for each Run is `WalkInv`: an earlier stage whose rollback has not
been started has a later one still under way, which says at the end of the walk that
none was passed over, without an induction over the stages.

`GracefulProofs`: `TypeCorrect`, `SendsAreSafe`, `ErrorsAreDelivered`,
`FirstErrorAlwaysCancels`, `TasksRunToCompletion`, both as `FailFastAlwaysHolds`,
`RunAllAlwaysWaits`. `TaskInv` ties the two goroutines of a function to its results,
`ChanInv` says where an error is (a failed function is done exactly when its error
is in the channel or received), and `CancelInv` records why a context was
cancelled. That the channel has room is a count: the sender is not among the
errors in the channel, so they are fewer than the functions.

`CacheStoreProofs` has two invariants. `AnyInv` holds whoever else writes to
the persistent store and however calls to it fail, and gives `TypeCorrect` and
`CacheInventsNothing`: a value is in the cache or in an answer only if
the persistent store has held it under that key. It is inductive because of
`HeldInv`: a write that is on its way to the cache was taken by the persistent
store, which may have been overwritten since, so only the history remembers it.
`CacheIsCoherent` and `RefinesKeyValue` hold under `Private`: nobody else writes
to the persistent store, and a call to it that fails has had no effect. Without
`Private` both fail: the cache cannot know. Of their invariant `Inv`, `LockInv`
says a client that writes is alone, `BetweenInv` that a write on
its way to the cache will be taken there and make the two equal again,
`CloneInv` that the clone of the persistent store into itself meets, under its
lock, what it has listed, so it never creates or deletes a key and each write
changes nothing. Each call takes abstract effect at its call to the persistent
store, or when it reads the cache, which by `Coherent` and the lock equals it.

`TaskProofs`: `WorkflowIsSound`. A worker that was abandoned works after its
Execute has returned, so what an Execute may rely on is not a fact about itself.
`Rivals` says it: of two Executes for one object, the one that began first has the
other beside it, and is beside the other unless it had ended, worker included; and
what has ended never works again. With it, an Execute that has nothing beside it is
alone at its services, and `Worked` says how far it has come.
`ReplicationIsSound`. `Abandoned`: an attempt nobody waits for any more tells that the
context has ended, and then no rollback begins. `Progress`: rollback needs every
store's first activity reported, and an error among them. `Kept`: what a successful
attempt left in a store stays until a rollback of that store.

`BackendsProofs`: `NothingIsMixedUp`, from three invariants. `VersionsInv`: an update
that succeeded was built on a version before the present one, which is why no two
were built on the same. `LabelInv`: an item carries every label its writer's store
adds, whatever caller and enricher add (`Carries`), and a List asks for its own.
`PrefixInv`: what is in the database was let through by its writer's stack, under a
key of the writer. `NoLostUpdate` speaks of `TheKey`, the one that clients write.
`CreatesReplaceNothing`, an action property: `RequestsInv` says which call, in which
backend, may be between two of its steps (`StepOf`), and `LookInv` what a Create of
s3 knows between its look and its put. `StoresAreAtomic` is the refinement of `KeyValue`
by the file store of one process and by the store of an API server's resources, with the
faults of each (`Faults`): both may carry a call out and report an error; fs may leave
a torn file, and take a look that fails for nothing there. The
abstract map is the contents but for files that are open for writing, which still count
with what they held, and torn ones, with what was being written (`ContentsInv`); an open
file is its writer's, who holds the lock (`LockInv`), so nobody sees it half written, and
who finds a file without a value meets a torn one. Each step then ends the call as done,
refused, carried out unheard, torn or supposed (`Ends`), or leaves it between two
steps, the abstract store unchanged (`Passes`; both are `Effect`). `WhatIsThereIsFound`, first half: each action that
ends a Read is split by the error it gives, and a file without a value under the lock is a
torn one. Second half: in a store that waits for its cache, a key that has been there all the time is in the
informer's copy or in what is left of its first list, no news say that it is gone, and no
call begins before that list is through (`SyncInv`). The first list misses no key, as one
with as many entries as there are keys, none twice, has them all (`ListedOnce`, the
pigeonhole that needs `KubeStoreAssumption`).

`RestStoreProofs`: `AnswersAreHonest`. `CallsInv`: requests on the wire and in `ran`
bear numbers of calls that were made, and ask what their callers asked; `OptionsInv`:
the options that go out are the caller's unless the shared slice was overwritten;
`ResponsesInv`: a status of success is of a server that has carried the call out;
`HeardInv`: a call that was carried out, and whose answers have all come back, says
so. `PanicsOnlyBeforeAnAttempt`: no breaker ever opens (`BreakersClosed`), so the
only nil response is that of a context that had ended.

`KafkaProofs`: `TopicIsSound` (`TopicInv`). Under the lock of threadsafe, the topic,
the queue of the producer and the write that is not announced yet are, one after
the other, in the order of the store (`OrderInv`); a call that waits has one message,
or one report of it, or has it in its channel, never two (`WaitInv`).
`PanicsOnlyIfClosedEarly`: after Close no call begins (`EndInv`). `CommitsAreSound`:
everything below an offset was handed over, and everything below the position but
the message in hand (`HandedInv`); what failed and is behind has been reported,
unless the application commits by itself (`ReportedInv`). `HealthIsTold`: the
statistics hold what was last heard of each broker (`Known`), the status follows
them but for the event in hand (`Follows`), and each event that calls for an
error has sent one, is about to, or has found the channel full (`Accounted`, a count
over the events).

`HttpServerProofs`: `ResultIsSound`. A listener that has stopped can neither fail nor
accept any more (`Waited`, `NilIsClean`); a result that was waited for was computed
after that. `InsertAddsExactly`: what `Find` finds after `Insert` is what it
found before and what the new labels match. The two cases that need an argument are
the paths that a wildcard cuts off (`CutOffIsGranted`) and the label left out
because a wildcard stands for it (`StoodFor`). `AnswersAreSound`, for every chain:
`BodyInv` says that a body is plain, or an open stream, or a closed one, according to
where the request is and whether gzip has opened it, which needs that gzip is in the chain
once (`NoneTwice`); `RecordedInv` that what is counted is the status, which nothing
changes any more on the way out but a panic, and that passes the counters by.
`MatchScopeIsExact`: for valid scopes, `MatchScope` is `Covers`, which says it in plain
terms: every combination requested is matched by one granted. The loops that fill the tree
are recursive functions here, and what they yield is shown by the least step at which it
would fail (`LeastOf`) instead of an induction with an operator (`GrownFinds`,
`RootFinds`); `AsLabels` is given by index arithmetic, so that which combinations
it lists is arithmetic, too (`RowAndColumn`, `LabelsAre`).
`HandlersAreGuarded`: `PassedInv` says what holds once the handlers before the present one
have let the request pass, in a form that grows by one handler at a time (`Passed`,
`PassOne`); `RanInv` keeps it for the way out. An account of the configuration need not
have valid scopes: `GrantedInv` says that one in the context of a request has (`SetTrust`
validates it) or has none, as a user named without teams.
`RunsReturnSoundly` and `WebserversAreAsConfigured` of `Servers`: slots of tasks are made
only for members of a group that runs (`TreeInv`), and one that ended well has nothing below it
that did not (`CleanInv`). The configuration that the caller holds is what it was given
or what a proxy has left of it, and a proxy that cannot be built once can never be
(`BootInv`, `ProxyCan`), which is why no later build finds it otherwise.

`GracefulProofs`, the second half: `PurgerFailsNobody` and
`EndpointsAnswerForTheirChecks` of `Health`. What is on the purger's list is
in the store, unless others delete (`PurgerInv`). A request reads one result after the
other while probes go on; what it has read so far agrees with the cache for the
checks whose results have not changed since it began (`RequestInv`, with
the history `steady`).

Model-checked only:

- liveness (`CallEnds`, `StopsInTime`, `Stops`, `ReplicateReturns`, `StopReturns`,
  `StopsEverything`, `ResultsMoveOn`, `PodsFresh`, `Reclaimed`), which is beyond the prover;
- what the selections over sequences compute (`ListsAssumption`, `ChainsAssumption`),
  which needs induction.

Every safety property and every refinement that a run checks is a theorem; some under
hypotheses, which the theorem states and the text above explains.

## Where code and comments differ

Stated in the modules, under "does not do" or beside the property that replaces
them, and refuted by TLC when added to a configuration:

- `RestoredAtEnd` with the instance `Recreate...` of `MCRestApiService`:
  `api_service.go:151` says stages are rolled back in reversed order. The failed
  stage is rolled back beside the earlier ones (line 131), so a stage that deleted
  an object may re-create it before the later stage deletes the one it created: the
  object is gone. `AllStagesReversed` says the same of the order alone.
- `RecoverOnlyFailed` (`api_service.go:59`): a recovery is called for every
  service of the stage, not only for those whose check failed.
- `OnlyRunStagesRolledBack` (`api_service.go:151`): in a dry run stages that were
  only checked are rolled back.
- `ReporterOnlyOnErrors` (`api_service.go:77`): the rollback's reporter is called
  also without errors.
- `PanicsReturned`: `graceful.go:33` says panics are returned as
  `ErrPanicRecovered`. The timeout and the recovery write the same variable
  (line 245), and the later write wins.
- `SignalCancelsAll` (`graceful.go:23`): a signal that comes between the
  registrations of two functions is not seen by the second.
- `TimeoutHasCause`, with options whose `ShutdownTimeout` is left zero: a function
  that has ended may be reported as timed out.
- `DrainTime`: `httpserver.go:187` makes the shutdown's context when the
  server starts, so a server that has been up for its shutdown timeout gives open
  requests no time when it is stopped.
- `CompleteIsDrained` (`httpserver.go:200`): "shutdown complete" may be said with
  requests open, because the errgroup keeps `ErrServerClosed`, which came
  first, and not the shutdown's error.
- `ListRefreshes`: `cache.go:133` says `List` with `WithSkipCache` updates the cache.
  The merger is made for the persistent store (line 136), which is cloned into
  itself; the stale cache is returned.
- `RollbackOnlySucceeded`: `replicate.go:164` says stores whose call had no error are
  rolled back. Line 156 records those whose call had one. `RollbackUndoesAll`: a
  replicated write that failed leaves its value on the stores it succeeded on.
- `Returns` of `Replication`, with a channel smaller than the number of stores and
  nobody reading: `Execute` sends without watching the context.
- `AnswerAgrees`, `NeverFatal`, `OnlyReportedCount` (`kafka/stats`): `/status` takes
  its code under the lock and encodes its body afterwards; `/stats` walks over the
  map without the lock (`stats.go:84`); reports are decoded into the old map, so a
  broker that is gone keeps its last state.
- `ListHonest`, `WritesScoped`, `ClashRefused` (`backends/labels`): `List` ignores the
  database's error (`labels.go:71`); writes take over another store's item;
  custom labels are refused by their values, not their keys (`util.go:65`).
- `NamesShown` (`middleware/prefix`): a store whose prefix begins another's lists the
  other's items, under names its own `Named` would refuse.

## What else the models brought to light

Behaviours met while translating, which the models contain (and the properties
are stated around) or leave out for the reason given:

- Orchestration. Any error of `Get` counts as "does not exist" in the check of a
  POST (`api_rest.go:114`), so the POST may overwrite and its rollback delete.
  `Status.Update` with the same state and no message returns before it sets
  `Succeeded` (`status.go:45`).
- Workflow. Of two Executes under one identity the later overwrites the cancel
  function and the first to end deletes it: `Finished` says finished, `Stop` reaches
  nothing (`workflow.go:107`, `125`). A worker abandoned at a stop may work beside
  the next workflow for the object.
- Graceful. `RunPeriodically` compares `any(res) != nil`, which a zero value of
  another type is not, and sends into a channel of capacity 1.
- Servers. A signal at start with `Engine.Run` stops the tasks registered by then
  and no others. `Manager.Run` returns with the first error while servers drain,
  `Engine.Run` waits. `NewManager` writes into sections it shares with the caller's
  configuration (`manager.go:99`, `proxy.go:54`): built a second time, a webserver
  beside a proxy has no certificate middleware. `injectConfig` and
  `injectServerCNs` append each time. `manager.go:203` says all middleware is removed;
  `NewCustomEngine`'s defaults bring back metrics, logger and request ID.
  `config.Load` looks for a `Defaulter` without a result, which `ginserver.Config`
  is not, so its defaults are not applied there.
- Requests. The default bypass paths of `oauth` never apply (`Middleware` closes over
  its own configuration). A decompressing handler and a client that compresses get an
  empty gzip stream after the response (`gzip/handler.go:67`). The ETag is read
  from the request (`handler.go:83`). Requests that panic are neither counted nor
  logged. `npa.ApplyDefaults` writes into a nil slice (`npa/config.go:50`). Of two
  NPAs equal but for case the later wins. Grants of different depths replace each
  other by the order of insertion (`node.go:43`).
- Stores. `Create` of s3 overwrites when its look fails (`s3.go:71` says it returns an
  error for what exists). An fs write whose encoder or disk fails, or whose process
  ends, leaves an empty file or a part of one (`fs.go:139`, `173`, `200`): no Read, List or
  Create gets past it. fs takes every error of an open for absence (`fs.go:104`), and for a
  dry run of Create that is success. fs `Delete` of a missing key returns the error of the operating system.
  `ConfigMap.Apply` with labels and dry run of a missing key is refused as
  unsupported. The store server goes on after it answered 400 for labels that
  clash (`server.go:139`). `serialize_options.go:55` says unknown options are
  ignored; they are refused.
- HTTP client. The breaker's function always returns nil, so no breaker opens, and
  one that did would panic the caller (`breaker.go:75`). A retry after a lost
  answer reports a conflict or an absence the call itself made. A context that has
  ended before the first attempt gives a nil response, and a panic in the caller.
  Requests share the spare room behind the default options (`http.go:169`).
- Kafka. `producer.DryRun` is stored and never used. Messages have no key, so events
  of one object may go to different partitions.
- Upkeep. An endpoint whose checks are not the first ones registered answers with
  other checks' results (`healthcheck.go:266`). `RefreshAgeOnRead` may keep a result
  alive. A duration below a second is an age of 0. A key that is gone ends the purger
  (`timed.go:139`). An unreadable file ends the watch, a failed update is not repeated,
  pods with different views write each other's hashes back. A file that changes, comes
  back while the new pods load it, and changes again finds its hash in the template: the
  update starts no pods, and those there are keep the old content
  (`reloader.go:254`; the exception `idle` of `FreshAtLast`, without which TLC finds
  this). The example's claimer
  lets two controllers take a lock from each other; one that refuses with an error ends
  the loser's loop; a pod started after the list was read can lose its lock.
- `slices.ThreadSafe.Values` returns the array that `Delete` shifts (not modelled: no
  component uses it).

## Not modelled

- Undefined behaviour of Go maps used without a lock, but for `/stats`: `Memory` is
  used under `threadsafe`, or a remote store. `List` with `WithSkipCache` holds only
  the read lock while it writes, so with an unsynchronised backend below, two
  readers may write one map at once; `CacheStore` assumes a synchronised one.
- Abstracted in the models: a request that an API server serves is served before its
  call ends, or never; closing a file, whose error fs ignores (`fs.go:137`), keeps what
  was written; librdkafka keeps the order of a partition; probes' protocols are an outcome;
  the rate limiter is a wait that the context may end; tokens and certificates are
  what they prove.
- `slices`, `opt`, `patch`: pure helpers, modelled where a component uses them.
- The reverse proxy, pprof, tracing and the timeout middleware: glue to libraries.
- Configuration files, logging, metrics, TLS set-up, formats and texts: settings and
  I/O that hold no state the properties depend on. `cmd`, `examples`: examples of use.
- What each component of `PROJECT.json` leaves out is in its note.

## Plan

All of the components that hold state of their own are modelled. What is left, in
the order of its worth:

1. The timeout middleware, with the library's goroutine and buffered writer.
2. `slices.ThreadSafe` and the ring of `RunPeriodically` with a reader that stops.
