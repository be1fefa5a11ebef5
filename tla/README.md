# Verification of Checkmate

Checkmate is a plugin-based monitoring platform: a core backend loads backend
plugins, gives them services (queues, an event bus, RPC, configuration, signing
keys), and the plugins run health checks, deliver events to external systems,
manage maintenance windows and incidents, and notify users. This directory holds
TLA+ models of the parts whose correctness depends on order, concurrency or
failure, the TLC runs that check them, and TLAPS proofs about them. Paths below
are relative to the repository.

Files: `X.tla` models a component, `MCX.tla` and the `.cfg` files instantiate it
for TLC, `XProofs.tla` holds theorems. `PROJECT.json` maps every definition to the
lines it translates, lists the runs, the mutants that show each property can fail,
the disagreements between code and documentation that the models exposed, and the
hazards the properties are for.

## Inventory

| Component | State | Operations | Hard behaviour | What makes it correct |
|---|---|---|---|---|
| In-memory queue (`plugins/queue-memory-backend`) | job list, consumer groups with the ids they picked, semaphore, timers, recurring jobs, `stopped` | enqueue, consume, scheduleRecurring, cancelRecurring, stop; timers for delays, retries, recurrence, heartbeat; processNext, processJob | continuations of `await acquire()`, one list and one attempts counter for several groups, stop against everything | permits conserved; one run per job and group; order; no lost wake-up; drained after stop |
| Queue manager and proxies (`core/backend/src/services/queue-manager.ts`, `queue-proxy.ts`) | active plugin and config, `configVersion`, one proxy per name with subscriptions and pending operations; a config row and a version pointer in the database | loadConfiguration, setActiveBackend, polling, getQueue, stop; proxy switchDelegate, consume, stop | nine-step switch with awaits, several instances polling one row, operations that arrive during a switch | no job or schedule lost by a switch, instances converge |
| Event bus (`core/backend/src/services/event-bus.ts`) | listeners per hook, channel queues, worker groups, local listeners | subscribe (broadcast, work-queue, instance-local), unsubscribe, emit, emitLocal, shutdown | unsubscribe awaits between its reads and deletes, the channel is cached elsewhere | a subscribed listener gets what is emitted |
| Integration delivery (`core/integration-backend`) | subscriptions, delivery logs, delivery queue, connections | routeEvent, executeDelivery, retryDelivery, hook subscriptions | log row and job written separately, crash between, retry against a job still queued, provider failures | every delivery ends, attempts bounded, log agrees with outcome |
| Health checks (`core/healthcheck-backend`) | configurations, associations, runs, hourly and daily aggregates with collectors' figures, recurring jobs | CRUD, association, executeHealthCheckJob, incremental aggregation, retention, charts and availability read across the tiers | timeout race, read-modify-write of a bucket by concurrent jobs, roll-up without transaction, status read before the run and compared after | transitions notified once, buckets count every run, retention loses nothing, charts show each run once, the same figures from raw runs as from rows |
| Maintenance windows (`core/maintenance-backend`) | maintenances, updates, system links | create, update, addUpdate, close, delete, minute job that starts and completes | job reads a list, then changes each by RPC while users change it | status only moves forward |
| Incidents (`core/incident-backend`) | incidents, updates, links | create, update, addUpdate, resolve, delete | status update and log row in two statements | status equals the last logged change |
| Signing keys (`core/backend/src/services/keystore.ts`) | rows of `jwt_keys` | getSigningKey with rotation, getPublicJWKS, cleanup | rotation by several callers at once, crash in the middle | a token verifies for its lifetime, old keys go |
| Plugin loading (`core/backend/src/plugin-manager*`) | registered plugins, services, extension points, routers, access rules | register, dependency sort, init, afterPluginsReady, deregister | dependency cycles, cleanup in reverse, registration at run time | dependencies first; nothing of a removed plugin stays |
| Authentication and teams (`core/auth-backend`) | users, roles, teams, resource grants, strategies | CRUD, onboarding, access checks | check-then-act across statements; two queries that must agree | list filter and single check agree |
| Notifications (`core/notification-backend` and `plugins/notification-*`) | notifications, groups, subscriptions, strategies, preferences, OAuth tokens | notifyUsers, notifyGroups, strategies, purge | best-effort fan-out | one notification per user and event |
| Catalog (`core/catalog-backend`) | systems, groups, views, contacts | CRUD, delete with hooks | deletion must reach the plugins that reference the system | no reference to a deleted system stays |
| Configuration service (`core/backend/src/services/config-service.ts`) | one row per plugin and config id | set, get, getRedacted, delete | secrets kept across partial updates, migrations | a secret survives an update that leaves it out |
| Signals (`core/signal-backend`, `core/signal-frontend`, the HTTP server of `core/backend`) | web-socket channels; the sockets and timers of pages | broadcast, sendToUser, relay, upgrade, reconnect | instances that are still starting, sockets that close, effects that run again | a connected page hears each signal once |
| BullMQ queue (`plugins/queue-bullmq-backend`) | Redis | same interface as the in-memory queue | in the BullMQ library | - |
| Health-check strategies and collectors (`plugins/healthcheck-*`, `collector-hardware`) | connections | connect, execute, aggregate | network I/O | pure aggregation of runs |
| Integration providers, authentication strategies (`plugins/integration-*`, `plugins/auth-*`) | tokens, sessions | one request each | network I/O | - |
| Frontends, UI, scripts, documentation | - | - | - | - |

How they interact. Plugins reach each other by RPC and by hooks. `emit` on the event
bus enqueues a job on the queue of the hook; the bus consumes it, once per instance
(broadcast) or once per worker group (work-queue). The queue comes from the queue
manager, whose proxies delegate to the queue of the active queue plugin. The
integration backend subscribes to every registered event and enqueues one delivery
job per matching subscription; the health-check backend schedules a recurring job per
association, and its executor emits hooks when a status changes; maintenance runs a
minute job. Configuration rows and signing keys are shared by all instances through
the database.

## Modules

An action is the synchronous code between two awaits: JavaScript runs it without
interruption, and everything else (other handlers, callbacks, instances, the
database) may come in between. A variable is a field of the class or a table; a
`pc` says at which await a call is. Variables marked *history* in the modules record
what has happened, for the properties; no guard of code reads them. Definitions
named `...Mutant` are plausible bugs of the definition they follow and are used only
to show that a property can fail.

| Module | Code | State and actions |
|---|---|---|
| `Subsequences` | `Array.filter` as `processNext` uses it | one operator, in a module of its own because of the proofs |
| `InMemoryQueue` | `plugins/queue-memory-backend/src/memory-queue.ts` | the list, groups with their processed ids and round-robin index, the semaphore as free permits, parked and granted runs, running handlers, four kinds of timers, recurring jobs, `stop()`. Every public method, timer callback and handler end is an action, each with the `processNext` it calls |
| `InMemoryQueueHistory` | the same | extends it with what each group was given and has completed, and with the mapping to the contract |
| `GroupDelivery` | what `docs/backend/queue-system.md` promises of a queue | abstract: of each job for each group whether it is unknown, offered, taken or finished; `InMemoryQueueHistory` implements it (`DeliversToEveryGroup`) |
| `QueueManager` | `core/backend/src/services/queue-manager.ts`, `index.ts` | each instance's phase of the boot, active setting, version, proxies and their delegates; the config rows and the pointer. Boot, with queues asked for while plugins load; `getQueue`; calls of `setActiveBackend` and poll callbacks with their reloads, each in its steps and any number at once on an instance; every await that may fail; crash and restart |
| `QueueProxy` | `core/backend/src/services/queue-proxy.ts` | one proxy: delegate, stored subscriptions, pending operations, queues created and stopped. `consume`, operations, `stop`, `switchDelegate` in its steps |
| `EventBus` | `core/backend/src/services/event-bus.ts` | one hook on one instance: registrations, worker groups, the channel (a proxy over an in-memory queue, reduced to what the bus sees of them). `subscribe`, `unsubscribe` with its await, `emit`, consumers, `shutdown` |
| `DeliveryCoordinator` | `core/integration-backend/src/delivery-coordinator.ts` | subscriptions, logs, jobs, `routeEvent`, `executeDelivery`, calls of `retryDelivery` at once, deletion; a provider that is gone, and each statement, enqueue and signal that fails |
| `HealthAggregates` | `core/healthcheck-backend/src/realtime-aggregation.ts`, `retention-job.ts` | raw runs, hourly and daily buckets, the clock, the job statement by statement |
| `HealthHistory` | `core/healthcheck-backend/src/service.ts` (`getAggregatedHistory`, `getAvailabilityStats`), `aggregation-utils.ts` | extends `HealthAggregates` with a question that reads the tiers statement by statement, and with the merge of what it has read |
| `CollectorFigures` | `core/backend-api/src/incremental-aggregation.ts`, `aggregated-result.ts`; `core/healthcheck-backend/src/realtime-aggregation.ts`, `aggregation-utils.ts` | the collectors' averages, rates, counters and extremes: merged run by run into the row of the hour by executions that may overlap, or computed anew from raw runs |
| `StateEvaluator` | `core/healthcheck-backend/src/state-evaluator.ts` | pure operators, both threshold modes |
| `HealthCheckExecutor` | `core/healthcheck-backend/src/queue-executor.ts` | extends `StateEvaluator`; overlapping executions with their connection, the timeout, runs stored, notifications that arrive or fail, hooks sent, every catch block |
| `HealthCheckScheduling` | `core/healthcheck-backend/src/router.ts`, `service.ts`, `queue-executor.ts` (bootstrap), `index.ts` | associations and the recurring jobs of each queue; requests of administrators, the starting instances that schedule all enabled checks and cancel orphans, crashes |
| `Incidents` | `core/incident-backend/src/service.ts`, `router.ts`, `index.ts` | rows, links and log of incidents, written statement by statement; the executor's question about suppression in its two queries |
| `Catalog` | `core/catalog-backend`, and the groups `core/notification-backend` keeps for it | systems, groups, memberships, contacts, notification groups, subscriptions; requests in their steps, `bootstrapNotificationGroups`, the jobs of the `systemDeleted` hook |
| `Systems` | the three above | composes them: the hook's jobs run the handlers of the other two |
| `MaintenanceWindows` | `core/maintenance-backend/src/service.ts`, `router.ts`, `index.ts`, `notifications.ts` | windows, users' requests, the steps of `addUpdate` and `closeMaintenance`, the minute job on each instance |
| `KeyStore` | `core/backend/src/services/keystore.ts`, `jwt.ts` | rows of `jwt_keys`, calls of `sign` in their steps, tokens, time |
| `AccessRules` | `core/auth-backend/src/index.ts`, `router.ts`, roles | rules, grants and disabled defaults; `syncAccessRulesToDb`, the clean-up of a removed plugin, `updateRole` |
| `PluginLifecycle` | `core/backend/src/plugin-manager.ts`, `plugin-loader.ts`, `plugin-admin-router.ts` | extends `AccessRules` with instances that start and crash, installations, deregistrations, their broadcasts and the hooks' jobs |
| `PluginStartup` | `core/backend/src/plugin-manager/plugin-loader.ts`, `dependency-sorter.ts` | what each plugin has told when it registered, who provides which service, the graph, the turns of the sort, initialisation and `afterPluginsReady` |
| `TeamAccess` | `core/auth-backend/src/router.ts`, teams; `core/backend-api/src/rpc.ts` | teams, grants and settings; the middleware's questions in their three queries |
| `ConnectionStore` | `core/integration-backend/src/connection-store.ts` | two entries and an index for each connection, the stores' caches; requests entry by entry |
| `NotificationChannels` | `core/notification-backend/src/router.ts`, `strategy-service.ts`, `oauth-callback-handler.ts`, `index.ts` | preferences read, merged and written back; `sendToExternalChannels` in its steps; users deleted and forgotten |
| `SignalRelay` | `core/signal-backend/src/websocket-handler.ts`, `signal-service-impl.ts`, `core/signal-frontend/src/SignalProvider.tsx`, `core/backend/src/index.ts` | instances with their server, subscriptions and inbox; sockets from connect to close; pages with `wsRef`, their timers and effects |
| `CoreParts`, `PluginParts` | | run one of `QueueProxy`, `KeyStore`, `PluginLifecycle`, `PluginStartup` and `SignalRelay`, or of `TeamAccess`, `ConnectionStore`, `NotificationChannels` and `CollectorFigures`, in each behaviour; these share no state |
| `SubsequenceFacts`, `InMemoryQueueProofs`, `DeliveryCoordinatorProofs`, `HealthCheckExecutorProofs`, `SystemsProofs`, `QueueManagerProofs`, `CorePartsProofs`, `PluginPartsProofs` | | theorems and lemmas; `DeliveryCoordinatorProofs` is also about `EventBus`, `HealthCheckExecutorProofs` about `StateEvaluator` and `CollectorFigures`, the last two about several components that share no state, section by section |

`HealthCheckExecutor` composes with `StateEvaluator` by extending it, `HealthHistory` with `HealthAggregates`, whose steps come between the statements of a question. The queue, the
manager, the proxy and the bus are layers that each abstract the one below: a proxy
knows of a queue only that it was created, stopped and given consumers; the manager
knows of a proxy only its delegate's setting; the bus has of both the consumers in
their groups, the list, the retries and the stop. `Systems` composes the catalog with
two plugins that hold data about its systems, over the hook that `EventBus` delivers.

## Runs

| Run | Question | Bounds, and why they are enough |
|---|---|---|
| `queue_recurring` | Is a job in one run of a group at a time, and does a `stop()` that polled leave nothing? | one group with two consumers of different retry limits on two permits, a delayed job of higher priority and one that reuses its jobId, an interval and a cron job with an instance, the heartbeat; `queue_history` has two groups, and one permit so that runs park |
| `queue_history` | Do permits balance, is every group given every job and none again after success (the contract), and is no wake-up lost? | two groups, two jobs of which one is delayed, one permit, no heartbeat (it would hide a lost wake-up) |
| `manager_switches` | Do the queues follow the backend, does a version name one setting, do instances converge? | switches to the other plugin with either of its configs, one in-process and one shared back end, and one crash or failure; each behaviour takes one of five cases, as all at once is too much: an instance with two queues, two switches and polls; one with two overlapping polls; one with recurring jobs; two instances with two queues and a switch; two instances with two switches and no queues. In each, switches, polls and the boot overlap freely, and queues are asked for at any time |
| `bus_delivery` | Does a group handle an event once, and again only as often as it may retry, by listeners that have not left, and are listeners reached? | two listeners of one worker group, so that one can join the other's group, a broadcast listener, an event that may fail once and then goes back in the list that both groups read |
| `delivery_attempts` | What is promised of one delivery under which faults? | three attempts as in the code, two calls of `retryDelivery` of which one may reset the log or both may, the queue's own retry, three jobs, two of: a failing statement, enqueue or signal, a provider that is gone, a deletion, an overlap of the two calls |
| `aggregates_tiers` | Are counted runs kept, and counted once, and do charts and availability figures show each of them once? | two runs, eight hours of days of two hours with retention of 1, 2 and 3 days, so that runs pass through all tiers; one crash or failed statement. Questions are asked in hour 2, when the hourly tier has what raw data hides, in 6, when days have been rolled up, and in 7, between the job's days; charts from the first or second hour with points of one or three hours |
| `aggregates_stuck` | Is retention what the documentation says after a crash? (no: see below) | the same with one run |
| `executor_checks` | Do subscribers know the status, are clients closed, and do executions end, whatever fails? | two overlapping executions of two checks of one system, one in each threshold mode, a window of one run, one fault or interference of an administrator. (The safety properties also hold for two faults, and for two executions of one check with a window of two runs and two faults.) |
| `systems_requests` | Does what the catalog, the notification groups, the health checks and the incidents hold about a system agree, and go with it? | one system, one group, one check, one incident; two users, two instances that share a queue or have their own; four requests of the catalog, or three of health checks or of incidents with the deletions among them, and one crash: enough for a request to begin in every gap of another |
| `maintenance_minutes` | Do windows start and end, told once, and stay ended? | one window, a user, the job on two instances, two minutes, two requests or failures in any mix |
| `core_parts` | Does `switchDelegate` keep subscriptions, and settle operations when `stop()` came first; do tokens verify; do removed defaults stay removed and loaded plugins have their rules; are plugins initialised after what they depend on; is a signal heard once? | one component a behaviour. Proxy: three consumers in two groups, two operations, two callers that stop, switch and reload at once, three queues, so two switches. Keys: two calls at once, three keys, six ticks. Plugins: two, one of them built in, two instances, three events. Start: every three plugins that register or not and want, offer or publish a service and the two of the queue. Signals: two instances, a page, three sockets, a crash, an effect that runs again, a signal |
| `plugin_parts` | Was granted access due; are connections whole; are silenced channels silent; do a check's rows show what its collectors measured? | one component a behaviour. Teams: two, one resource, one member. Connections: two, two administrators, two instances. Channels: one of each kind, one user, two clients, one sender. Figures: one collector that succeeds, measures otherwise, fails or is missing, four runs in two hours, two at once |

Deadlock is not checked: each of these systems may stop, a queue after `stop()`, a
proxy with no caller left, an event bus after its events, a delivery that is settled,
an aggregate at the end of the bounded clock, instances after their switches, and the
others when their bounded requests are used up. Only the executor's run checks it.

Properties with a condition on a history variable say under which faults they hold:
`failures` and `overlapped` in `HealthAggregates`; the other modules collect what a failure or an
overlap has touched (`mayDiffer`, `unscheduled`, `disturbed`, `excused`, `addedLate`,
`overwritten`, `early`, `again`, and those told of below), so that a fault excuses what it touched and nothing else. One run then explores all faults and checks each
property where it is promised; what happens without the condition is in the table
below. Three of the modules have several:

- `QueueManager`. `behind` are proxies that a failed replacement left with another
  delegate, or that were created before the stored setting was loaded, until they are
  replaced. `overlapped` is an instance whose loops over its proxies ran into each
  other, until one has begun alone. `ambiguous` are versions that two switches counted
  up to, that were stored for a switch they were not given to, or that a boot gave a
  config of its own; `torn` is a pointer whose row another switch has written, or the
  same one before its second write. A boot that could not read the two rows goes on with
  defaults (`phase` "defaults"), which may not be the stored setting.
- `DeliveryCoordinator`. `upsets` of a delivery: "lost", its success could not be written
  or told; "rerun", its failure could not be told and the queue ran the job again;
  "overlap", two calls of `retryDelivery` found it failed; "abandoned", the queue did
  not take its job or gave it up, until the log is reset.
- `HealthCheckExecutor`. `astray`: a run changed the status between another execution's
  reading and its comparison; the outer catch block failed too, or ran for a hook; the
  notification failed or was suppressed; or an administrator changed the status. It ends
  when subscribers are told of the right status and nobody is about to compare.

Each of these is needed: without it the properties below are violated.

Symmetry is used in `aggregates_tiers`, for runs, which the model only compares.

Every property of a passing run has a mutant: a change of one definition, of the
kind a bug in that code would be, with which TLC finds the property violated.

Each module with state states a type invariant (`TypeOK`, `KeyTypeOK`, ...), with what
the foreign keys see to. They hold on the instances above and are not among the runs'
properties; the queue's, the event bus's, the tiers', the key store's and the teams' are proved, too.

## Fairness

Weak fairness is given to what the event loop or the clock does by itself, and to
nothing that a user, an administrator or a network may or may not do.

- `queue_history`: the continuation of a granted acquire runs, a handler returns or
  throws, a backoff or start timer fires, `stop()` polls. Nobody has to enqueue.
- `manager_switches`: boot proceeds, a switch begun proceeds, a poll begun proceeds
  and polls recur. Nobody has to switch or ask for a queue.
- `bus_delivery`: handlers return or throw, backoff timers fire, the replay goes on.
- `delivery_attempts`: `routeEvent`, `retryDelivery` and jobs proceed once begun, as
  awaited calls settle and the queue serves its jobs. Nobody has to retry.
- `executor_checks`: an execution's queries settle, collectors end, and the timeout
  fires; a connection need never be answered.
- `maintenance_minutes`: the steps of a request settle and the job recurs. `WindowsEnd`
  needs no more: whatever failed, the next minute's job reads the list anew.

## Proofs

All with TLAPS, for every value of the constants that satisfies the modules'
assumptions.

- `InMemoryQueueProofs` proves of `InMemoryQueue!Spec` type correctness
  (`TypeCorrect`), `SemaphoreSafe`: free permits, granted continuations and runs in
  progress add up to the concurrency and no run is parked next to a free permit
  (`SemaphoreCorrect`), the action property `NoPickAfterStop`
  (`NoPickAfterStopCorrect`; proved, so no run repeats it), and `StopDrains` (`StopDrainsCorrect`).
  Almost every action ends in `processNext`; `PickEffect` says what it and
  `Acquire` do to types and permits, `EnqueueEffect`, `FinishEffect` and
  `TriggerEffect` what the actions' common parts do, and `CallEffect`,
  `TimerEffect` and `WorkEffect` go through the actions. `TypeOK` and
  `SemaphoreSafe` are inductive together. `StopDrains` alone is not: that a
  `stop()` which has polled stays drained needs that every permit is then free,
  which `Drained` adds, and that nothing is picked after `stop()` (`StoppedStep`).
  `OneRunPerGroup` (`OneRunPerGroupCorrect`) needs `RunsApart`: the runs parked, granted
  and in progress are different runs, and each has its job among what its group has
  picked, so that a group cannot pick the id again before the run has ended.
  `DeliversCorrect` is the refinement of `GroupDelivery`, for jobs with ids of their own
  and no instances of recurring jobs (`OwnJobs`; without it the code breaks the contract,
  see below). Each action is shown to offer, give, take back or finish for the group and
  job it touches and to stutter for all others (`PickDelivers`, `TriggerDelivers`).
- `SubsequenceFacts` proves that filtering a sequence by position leaves a sequence
  over the same set, whose elements are those at the chosen positions (`SubsequenceHolds`).
- `DeliveryCoordinatorProofs` proves `OpenLogsWorkedOn` for any subscriptions, jobs, retries,
  overlapping calls and faults (`OpenLogsWorkedOnCorrect`): for each way a log can be open it
  names who is at work on it (`OpenHeld`). `DeliveredOnce` and `LogTruthful` (`DeliveredOnceCorrect`,
  `LogTruthfulCorrect`) follow from one invariant, `OneAtATime`: unless one of the three
  excused things has befallen a delivery, one job, one `retryDelivery` or `routeEvent` is
  at work on it (`OneActor`), nobody but a retry is once it has failed (`FailedAlone`), and
  nobody but the job that still has to write it is once it has succeeded
  (`DeliveredAlone`). A job that is only telling of its outcome counts as nobody
  (`Signalling`), which is why its failing signal, if the queue then runs it again, is
  one of the three. No assumption is made on retries that overlap.
  In the same module `HandledOncePerGroupCorrect` says that no group of an `EventBus` is
  invoked for an event more often than once and once for each retry, whatever any other
  group does with the list that all share. Nothing counts the invocations of a group but
  the history `calls`, so the property is not inductive: `Limited` ties it to the attempts
  an event has had and to the group's marks. A group that has the event still before it,
  unmarked or picked and not yet invoked, has been invoked at most as often as it was
  retried, which leaves room for the invocation to come; a retry removes a mark only as it
  counts an attempt (`DeliveryKept`), and what `processNext` picks was not marked
  (`PickKeeps`). `BusTypesCorrect` comes from the same invariant.
- `HealthCheckExecutorProofs` proves of the evaluator that in consecutive mode a check
  is healthy exactly when its newest run is, for every history and all thresholds
  (`ConsecutiveFollowsLatest`), from an induction-free characterisation of streaks
  (`StreakFact`, `NewestDecides`). Of the executor it proves the types
  (`ExecutorTypesCorrect`), and `ClientsClosed` for any number of executions at once
  (`ClientsClosedCorrect`): `ConnectionInv` says what the place of an execution tells,
  how many runs it has stored, which catch blocks it has passed and whether it may hold
  a connection. `OneRunEachCorrect`, that an execution stores one run unless the outer
  catch block was entered, follows from it. `ToldCurrent` (`ToldCurrentCorrect`) is proved for
  any number of overlapping executions, with any faults. `ToldInv` says that, unless
  `astray`, either subscribers know the status and no execution is about to tell them
  anything else, or just one has changed it and owes them the news (`Owes`), while
  each of the others has read the status as it is now, or has done its telling
  (`Settled`).
- `SystemsProofs` proves the invariants of `Catalog`, `HealthCheckScheduling` and
  `Incidents` that runs check, and `DeletedSystemsForgotten` of their composition, for
  any systems, groups, requests, instances and queues. The steps of each component are
  first separated from those of the others. `GroupsInv` says that each group follows its
  row, or a request or a starting instance is about to make it so; it needs that rows
  are deleted before their groups are (`DeletionsFollowRows`). `SchedulingInv` says for
  each check that an enabled one has its job, or who will schedule it, and for each
  start and request that what it has read still serves (`Serves`, `StartsConsistent`).
  `QuestionInv` has what the first query answered, and
  `ForgettingInv` which job still has to forget a deleted system.
- `SystemsProofs`, of `MaintenanceWindows`, proves `NotReopened` (`NotReopenedCorrect`)
  and `StartToldOnce` (`StartToldOnceCorrect`) for any windows, users and instances whose
  jobs are not users (`ActorAssumption`). For the first, `StartsKnown` says of a job that
  starts windows, and of the update it is in, that a window of its list which has
  ended since is in `endedSince`. For the second, `ToldInv` relates what subscribers were
  told to the row and to whoever has yet to tell them, window by window.
- `QueueManagerProofs` proves `QueuesFollowBackend` (`QueuesFollowBackendCorrect`) and
  `VersionIdentifiesSetting` (`VersionIdentifiesSettingCorrect`) for any instances, queues,
  plugins, configs, limits and interleavings of switches, polls, boots, failures and
  restarts; neither assumes anything about overlaps. For the first, `BackendKept` says of an instance whose
  loops over the proxies have not run into each other that there is one loop at most (`Alone`),
  that the proxies it has passed follow its own setting (`CallKept`, `PollKept`), and that
  all do once it is over (`RestKept`); a loop ends only when it has passed every proxy, also
  those created meanwhile, and what a failure leaves behind is in `behind`.
  For the second, `VersionsKept` follows a version from the switch that counts up to it to
  the instances that take it: until it is stored it is known to the instance of its
  switch only, with the switch's target (`PendingKept`); once stored, whoever
  has it, or has read it in a poll, has the pointer's plugin, and its row where that is
  whole (`HolderKept`, `ReaderKept`). This holds of versions that are not `ambiguous`.
- `CorePartsProofs`, of `KeyStore`, proves that a token verifies as long as it lives
  (`TokensVerifyCorrect`), for any number of concurrent calls, if a call and a token's
  life together last no longer than the grace period (`TimeAssumption`). `TokensVerify`
  is not inductive: a call that has chosen its key may sign with it later, so `KeysKept`
  says that the key of such a call is kept until a token signed at the call's latest
  moment has expired. `KeptWhenExpired` and `KeptWhenCleaned` show that rotation and
  clean-up keep it.
- `CorePartsProofs`, of `PluginLifecycle`, proves `RemovalsStick`
  (`RemovalsStickCorrect`) for any plugins, roles, instances and administrators. A
  default is granted by a job in several statements, so the invariant adds, for each
  synchronisation under way, that what it has read of disabled defaults still holds for
  what it is about to grant, or the removal has taken the grant with it.
- `CorePartsProofs`, of `PluginLifecycle`, also proves `RunningPluginsHaveRules`
  (`RunningPluginsHaveRulesCorrect`). `RulesInv` says that requests and starts take
  turns, that each rule a loaded plugin needs is there or a synchronisation under way
  has still to write it, unless the plugin is on its way out, and that what a
  synchronisation takes for orphaned never includes an installed plugin. It assumes that
  instances and the hook's workers are not the same actors (`LifecycleAssumption`).
- `CorePartsProofs`, of `SignalRelay`, proves `SignalsHeardOnce`
  (`SignalsHeardOnceCorrect`) for any instances, pages and signals: `RelayInv` says that
  a page has one socket or one timer at a time, and what a socket listens to.
- `CorePartsProofs`, of `QueueProxy`, proves `SubscriptionsReplayed`
  (`SubscriptionsReplayedCorrect`) for any number of overlapping calls: at each await of
  `switchDelegate` each stored subscription is on the delegate, or a call under way has
  it still to replay onto the queue that it has just installed. `StopSettlesOperations`
  (`StopSettlesOperationsCorrect`) is proved for any number of callers that stop, switch and
  reload at once. A second switch opens the proxy again under a `stop()`, but with
  a queue of its own: `QueuesOwned` says that no two of them are the same, and
  `StopWaitsForAll` that a `stop()` which waits has all operations of the queue it found
  among what it waits for, for as long as that queue is the delegate.
- `PluginPartsProofs`, of `TeamAccess`, proves that what the middleware's three queries grant was due at
  some moment between the first and the last (`GrantedWasDueCorrect`), if at most one
  change comes between them, for any number of teams, resources and questions. The
  invariant `QuestionKept` says at each query that an answer from what has been read,
  and from the tables for the rest, would have been due at some moment, and that what
  has been read is still in the tables if nothing has changed;
  `ChangedQuestions` shows it for any change of one table, or of grants and memberships
  together when a team is deleted, and `ChangeStep` that the changes are of that kind.
- `PluginPartsProofs`, of `HealthAggregates`, proves `CountsConserved` and `CountsNotLost`
  (`CountsConservedCorrect`, `CountsNotLostCorrect`) for any number of runs and hours,
  any length of days and any retention settings the schema allows. The sum over a day's
  rows is a recursion over sets; no induction principle is needed for it, as a
  claim about it fails at a least set if at all (`LeastSet`), which gives that the sum
  exists (`SumExists`), that any hour can be taken out of it (`SumTakesOut`) and
  that it splits (`SumSplits`). The invariant, `TiersInv`, adds to the equation of each day
  that what the job has read of the days it has yet to insert is still in the table
  (`RowsAsRead`), and that a run is counted in an hour which is not old yet
  (`RunsRecent`, `RecentIsNotOld`): here the bound on the time from storing a run to counting it
  (`MaxExecutionHours`, at most the raw retention) is needed. `RollUpCounts` is the insert of the daily row,
  `FailureKeeps` why a job that breaks off can only count twice.
- `PluginPartsProofs`, of `HealthHistory`, proves `AvailabilityCountsEachRun`
  (`AvailabilityCorrect`) for any periods. `TiersInv` speaks of days as a whole, while the
  figures take single hours after the cutoff and whole days before it. So `HoursInv` says of
  each hour that its row counts its runs until the hour is old, that a day with a daily
  row has no hourly rows but those being deleted (`DaysRolledUp`), and that the job of
  the day leaves no old row (`JobDone`). `AskInv` relates what the question has read to the
  runs counted when it began. No run is counted twice since an hour after the cutoff is
  not old and a day with a daily row is (`NoneTwice`, by `CutoffParts`); none is missed since what
  has been read counts at least the runs asked for, day by day (`NoneMissed`).
  `CountsBelow` and `CountsAbove` lift a bound of each row to the sum of the rows.
- `PluginPartsProofs`, of `HealthHistory`, also proves `ChartShowsEachRun` (`ChartCorrect`) for any
  start and width of points. Its three statements come in any order, so `ChartInv` adds
  that until a day is rolled up each of its hourly rows has all runs of the hour
  (`HoursWhole`), and that what was read of the hourly and of the daily tier fits
  together if no roll-up went on (`TiersRead`). A chart adds up to the runs of the
  buckets it keeps, however they fall into points (`PointsAddUp`, by `SumByKeys`). The
  buckets of different tiers show different runs since those that overlap are left out,
  but for a run counted later than it was stored (`NoneShownTwice`); a run that raw data does
  not stand before is in the bucket of its hour, or of its day once that is rolled up
  (`DueShown`, `NoneLeftOut`).
- `HealthCheckExecutorProofs`, of `CollectorFigures`, proves `FiguresMatchRuns`
  (`FiguresMatchRunsCorrect`) for any collectors, measures, hours and overlapping
  executions. `RowShows` says what a row should hold: of just the collectors that took
  part in some runs, the count of their failures, the sum and number of their measures,
  their successes, and the extremes unless a failure came first. It holds of the empty
  row, stays true when a run is merged (`RowOfRun`, by `FirstShows` and `RunShows`), and
  of two rows with different runs it holds of their combination (`RowOfRows`, by
  `BothShow`); so also of runs merged in any order (`MergedInOrder`) and of the rows of
  successive hours (`MergedRows`). The model's folds and the property's sum are library
  operators, each the choice of a recursive function. `Folded` stands for the three, so that one
  argument over a smallest set shows that this function exists (`FoldExists`) and that
  two agree (`FoldsAgree`). What is left is which runs a row holds. `EndedMerged` says
  that an execution that has ended is in the history of its hour, once; `RowsInOrder`
  that a row nobody wrote over is what the runs of that history merge to, which is
  inductive because whoever is about to write is alone and has read the row as it is.
  `RoundedNear` bounds the rounding of averages and rates by a half.
- Of `CollectorFigures` it also proves what lets a chart combine rows at all. To combine
  two aggregates gives the same in either order (`CombiningCommutes`), and to merge a
  reading into one and then combine is to combine and then merge (`ReadingsSplit`); of
  the first reading of a row that holds for measures only (`FirstReadingSplits`), as a
  failure starts the extremes at 0. `FiguresInvariant` says too that each row's averages
  and rates follow from its own sums and counts whatever executions overlap, with the
  types (`FiguresTypesCorrect`), since an execution carries a row it has read.
- `PluginPartsProofs`, of `NotificationChannels`, proves `ChannelSilent`
  (`ChannelSilentCorrect`) for any users, channels and requests at once: `ChannelsInv`
  says that a request that may still write a preference of a channel has taken it out of
  `silenced` when it began, so that nothing it has read earlier can bring it back.
- `CorePartsProofs`, of `PluginStartup`, proves `DependenciesFirst` (`DependenciesFirstCorrect`) for any
  plugins and services. The invariant, `StartupInv`, says of the sort that a plugin's
  degree is the number of its edges from plugins not yet sorted, that those with none
  left and only they are sorted or waiting, each once, and that all before a sorted
  plugin's position that have an edge to it are sorted. Once nothing waits, the plugins
  left over each have an edge from another of them, or from one that never registers an
  initialisation: the set a refused start names. `TakeFirstKeeps` is the turn of the
  loop, `BuildKeeps` its start, and `InOrderLists` says that `InOrder` lists a set.
- `PluginPartsProofs`, of `ConnectionStore`, proves `ConnectionsWhole` (`ConnectionsWholeCorrect`) for any
  connections, stores and administrators. It says what is stored once nobody is at work,
  so it is not inductive: `ConnectionsInv` says it at each statement of the requests. A
  creation is alone at its connection, and where it stands tells which entries exist
  (`CreatedAlone`). A deletion that no update overlaps has removed what it has passed
  (`AloneGone`), so that it ends an earlier disturbance; `Undisturbed` says the rest of
  a listed connection while deletions and updates are under way. `WriteIndexKeeps` is
  where stale readings matter: an index written disturbs what it loses or brings back.

Only model-checked: liveness under fairness (`JobsLeave`, `InstancesConverge`,
`ListenersReached`, `DeliveriesSettle`, `ExecutionsEnd`, `WindowsEnd`).

## Where code and documentation disagree

Each was found by TLC as a violated property; "how" says what to change in the run's
constants, or which condition of the property to drop, to see it. `aggregates_stuck`
is kept as a run.

| Claim | Code | Property, how |
|---|---|---|
| "Deletes daily aggregates older than `dailyRetentionDays`." (`docs/backend/healthcheck-data-management.md:129`) | `retention-job.ts:230`: after a crash between the daily insert and the hourly deletes, the next insert of that bucket meets the unique index, and the assignment's retention ends there every day | `ExpiredDailyDeleted`, run `aggregates_stuck` |
| the same | `retention-job.ts:70`: the job walks the assignments that exist; `disassociateSystem` leaves runs and aggregates, which nothing deletes then | `ExpiredDailyDeleted` without `assigned`, `Hazards = {"disassociate"}` |
| "Deletes processed hourly aggregates" (`healthcheck-data-management.md:125`) | `retention-job.ts:247`: the same crash leaves a day whose rows count a run twice | `CountsConserved` without `failures = 0` |
| "ensuring availability stats and collector metadata are always up-to-date" (`realtime-aggregation.ts:77`) | `realtime-aggregation.ts:131`: the computed figures are written over those of an execution that overlaps | `MinTracksRuns` without `~overlapped`, `Latencies = {1, 2}`, `QuestionHours = {}`; `FiguresMatchRuns` without `overwritten` |
| "Jobs are guaranteed to be delivered to each consumer group at least once" (`docs/backend/queue-system.md:316`) | `memory-queue.ts:419`: a jobId enqueued again after its completion is accepted and dropped | `DeliversToEveryGroup`, `queue_history` with two jobs of one id |
| "A failure in one consumer group does NOT affect other groups" (`queue-system.md:329`) | `memory-queue.ts:466`: the groups share one attempts counter | `OwnRetriesOnly`, `queue_history` |
| "After the delay, the job becomes available for the same consumer group again" (`queue-system.md:266`) | `memory-queue.ts:470`: it is available at once, to any other `processNext` | `BackoffElapses`, `queue_history` |
| "Marks the queue as stopped (no new jobs are processed)" (`queue-system.md:355`) | `memory-queue.ts:449`: runs parked in the semaphore still invoke their handlers | `NoStartAfterStop`, `queue_history` |
| "Returns once all in-flight work is finished" (`queue-system.md:357`) | `memory-queue.ts:525`: between a granted acquire and `processing++` there is work `stop()` does not see | `StopWaits`, `queue_history` |
| "Also cancel any pending jobs" (`memory-queue.ts:362`) | `memory-queue.ts:473`: an instance in a handler that fails is listed again after the cancellation | `CancelledJobsGone`, `queue_history` with `queue_recurring`'s jobs |
| "Applications use `QueueManager.getQueue()` to obtain queue references without knowing which backend is active" (`queue-system.md:144`) | `core/backend/src/index.ts:257`, `:288`: queues that plugins ask for before the pointer is read keep the default in-memory backend | `QueuesFollowBackend` without `behind`, which `Load` sets |
| the same | `queue-manager.ts:396`, `:402`: a reload in which a queue could not be replaced still takes the new version, so no later poll tries again; `:194`: a switch that throws in its loop leaves some queues on the new backend, some stopped on the old | `QueuesFollowBackend` without `behind`, as `ReloadReplaceFails` and `SwitchThrows` set it |
| the same | `queue-manager.ts:194`, `:354`: a reload and a switch of one instance, or two of either, pass the proxies in different order | `QueuesFollowBackend` without `overlapped` |
| "Polls config for changes to support multi-instance coordination" (`queue-manager.ts:26`) | `queue-manager.ts:188`, `:354`: the version is incremented long before it is stored; a poll in between undoes the switch, and two instances that switch store one version for two settings | `VersionIdentifiesSetting` and `InstancesConverge` without `ambiguous` |
| the same | `queue-manager.ts:241`, `:248`: the row and the pointer are two writes. A switch to another config of the plugin in use that breaks off between them, by a crash or because the second write fails, leaves the new config stored under the old version, so that only instances that restart take it; so does one that another instance loads the row in the middle of, until the pointer follows. A switch that fails before anything is stored leaves its instance alone with the new backend | `VersionIdentifiesSetting` and `InstancesConverge` without `torn`, `InstancesConverge` without `pointer = None /\ version[i] > 0` |
| "Handles graceful migration of recurring jobs when switching backends" (`queue-manager.ts:27`) | `queue-manager.ts:210`: details of the old backend's jobs are asked of the new one | `RecurringMigrated`, `manager_switches` |
| "Stop old delegate gracefully" (`queue-proxy.ts:48`) | `queue-proxy.ts:54`: of two overlapping calls the second replaces the first one's queue without stopping it | `OneLiveQueue`, `core_parts`; `StopSettlesOperations` without `caller'[k].queue = delegate'` |
| "Pending operation tracking: Waits for in-flight operations before switching" (`queue-system.md:152`) | `queue-proxy.ts:45`: without a `stop()` before, as on the reload path, operations that start meanwhile are not awaited, and are given to a queue being stopped | `OperationsSettled`, `core_parts` |
| "Subscription replay: When switching backends, all subscriptions are automatically re-applied" (`queue-system.md:151`) | `queue-proxy.ts:111`: one subscription is kept per group | `AllConsumersKept`, `core_parts` |
| "Every consumer receives a copy of every message" (`queue-system.md:60`) | `event-bus.ts:88`: two broadcast listeners of one plugin on one hook share a group | `BroadcastReachesAll`, `WorkQueue = {}`, `Listeners = {l1, l2}`, `SharedGroup` |
| delivery at least once (`queue-system.md:316`) | `queue-proxy.ts:54`: an event emitted during the replay misses the groups still to come | `BroadcastReachesAll`, the same with `OwnGroup` |
| the same | `event-bus.ts:121`: the consumer of a listener that has left swallows events of its group | `ListenersReached` for all listeners |
| `event-bus.test.ts:158` emits after the only listener has left | `event-bus.ts:164`: the channel's proxy stays stopped, and `emit` throws from then on (the test has a queue manager of its own) | `EmitsAccepted`, `bus_delivery` |
| "This prevents duplicate webhook deliveries when horizontally scaled" (`hook-subscriber.ts:95`) | `delivery-coordinator.ts:173`, `:184`: a success that cannot be written, or whose signal cannot be sent, makes the catch block requeue a delivery that was made; `:249`: a failure signal that fails makes the queue run a job again whose delivery may be retried at the same time | `DeliveredOnce` without "lost", or without "rerun" |
| "Max retries exceeded, mark as failed" (`delivery-coordinator.ts:239`) | `delivery-coordinator.ts:212`: a delivery whose log was deleted with its subscription is retried for ever | `JobsEnd`, `delivery_attempts` |
| "Can only retry failed deliveries" (`delivery-coordinator.ts:348`) | `delivery-coordinator.ts:347`: two concurrent calls both find "failed" | `DeliveredOnce` without "overlap" |
| "Failed processing can be retried" (`docs/backend/integration-events.md:242`) | `delivery-coordinator.ts:311`, `:138`: a log whose job the queue refused, or gave up because the provider is gone, stays open, and `retryDelivery` refuses it | `OpenLogsWorkedOn` and `DeliveriesSettle` without "abandoned" |
| "Maximum 3 retry attempts before marking as permanently failed" (`docs/backend/integration-providers.md:314`) | `delivery-coordinator.ts:214`: three attempts, so two retries | `RetriesUsedUp`, `delivery_attempts` |
| "Minimum consecutive failures to transition to unhealthy", "Minimum consecutive successes to transition to healthy" (`core/healthcheck-common/src/schemas.ts:141`, `:133`) | `state-evaluator.ts:79`: a streak below every threshold falls back to the status of the latest run, which the executor stores as "unhealthy" or "healthy" | no run: `ConsecutiveFollowsLatest` proves that in consecutive mode the minimum counts do not decide whether a check is healthy |
| "automatically notify them on status changes" (`README.md:243`) | `queue-executor.ts:591`: of executions that overlap, one that has read the status before another changes it tells nobody, or tells what is no longer so; `:580`, `:650`: a failing hook leads to a second comparison with a status of long ago; `:204`: a notification that fails is logged only; `healthcheck-backend/src/router.ts:128`: disabling a check compares nothing | `ToldCurrent` without `~astray` |
| "add hourly/daily buckets only for gaps not covered by raw data" (`core/healthcheck-backend/src/aggregation-utils.ts:374`) | `aggregation-utils.ts:424`: a row that overlaps a point with raw data is left out as a whole, with the runs of its hours that are no longer raw | `ChartShowsEachRun` without `~HiddenByRaw` |
| "availability statistics for a health check over 31-day and 365-day periods" (`core/healthcheck-backend/src/service.ts:932`) | `service.ts:962`, `:998`: the hourly rows of the cutoff's own day before its hour are not asked for, and are rolled up into a daily row a day later only | `AvailabilityCountsEachRun` with `TRUE` for `Day(run[r].hour) < Day(now) - hourlyRetentionDays` |
| `mergeMinMax` "skips undefined values" (`core/backend-api/src/incremental-aggregation.test.ts:147`) | `incremental-aggregation.ts:216`: if the first one is undefined the extremes start at 0 | `FiguresMatchRuns` without `~StartsFailed` |
| "All clients subscribe to broadcast channel" (`core/signal-backend/src/websocket-handler.ts:134`) | `core/backend/src/index.ts:395`: a socket that opens before the handler exists is subscribed to nothing, and as it stays open the page does not reconnect | `SignalsHeardOnce` without `~socket[k].early` |
| "Automatic reconnection" (`docs/backend/signals.md:31`) | `core/signal-frontend/src/SignalProvider.tsx:100`: the socket an effect's clean-up closed sets a timer too, which opens a second socket if the new one is not open by then | `SignalsHeardOnce` without `again` |
| "Circular dependency detected" (`core/backend/src/plugin-manager/dependency-sorter.ts:98`) | the same line: also where a plugin offers a service and never registers an initialisation | `DependenciesFirst` without `q \notin Pending` |
| "Only notify on actual state changes" (`queue-executor.ts:120`) | `queue-executor.ts:592`: two executions both see the change | `NotToldTwice`, `executor_checks` |
| "Emitted when a system's aggregated health status degrades. This fires when status changes from healthy to degraded/unhealthy, or from degraded to unhealthy." (`hooks.ts:9`) | `queue-executor.ts:515`: a refused connection notifies subscribers but emits no hook; `:621`: `systemDegraded` is emitted only from healthy | `HookedDegradation`, `executor_checks` |
| "Ensuring `close()` is called in a `finally` block" (`docs/backend/healthcheck-strategies.md:28`) | `queue-executor.ts:529`: a connection made after the timeout is not closed | `NoneLeftBehind`, `executor_checks` |
| "Store failure (no latencyMs for failures)" (`queue-executor.ts:649`) | `queue-executor.ts:650`: the outer catch also covers what follows the insert, so a passing check stores a failed run too | `OneRunEach` without `path # "caught"` |
| "If enabling the health check, schedule it immediately" (`core/healthcheck-backend/src/router.ts:132`) | `queue-executor.ts:910`: an instance that starts cancels the job of a check that was enabled after it had read which are | `EnabledChecksScheduled` without `unscheduled` |
| "If status change is provided, update the incident status", then its log entry (`core/incident-backend/src/service.ts:249`) | `service.ts:251`, `:292`: two requests that overlap leave a status that is not the last one logged | `StatusAsLogged`, `systems_requests` |
| "Remove all system associations for a specific system", called when it is deleted (`core/healthcheck-backend/src/service.ts:238`) | `router.ts:128`, `service.ts:128`: a request that uses the id afterwards is not refused, as neither plugin asks the catalog | `DeletedSystemsForgotten` without `addedLate` |
| "This syncs new access rules when other plugins register them dynamically" (`core/auth-backend/src/index.ts:779`) | `index.ts:127`: an instance that starts while a plugin is being installed has not loaded it and deletes its rules as orphans | `RunningPluginsHaveRules` without `excused` |
| "`pluginDeregistered`: Plugin fully removed" (`docs/backend/plugins.md:365`) | `plugin-admin-router.ts:62`: its row stays, so that it is loaded again at the next start; `plugin-manager.ts:140` looks for the package's name among plugin ids | `PluginLifecycle`, read from `Deregister` and `DeregisterPlugin` |
| "tracks connection IDs" (`core/integration-backend/src/connection-store.ts:7`) | `connection-store.ts:365`: of two creations at once the index keeps one, and the other's entries stay unlisted | `ConnectionsWhole` without `disturbed` |
| "skip if user disabled this channel" (`core/notification-backend/src/router.ts:144`) | `strategy-service.ts:369`: a change that overlaps another of the same preference is written over | `ChannelSilent` without `w.alone` in `WritePreference` |

Met while reading for the models, and no property of theirs:

- `core/auth-backend/src/index.ts:125` deletes the rules of plugins that are gone; of
  one that an administrator has disabled for a role the deletion meets the foreign key
  of `disabled_default_access_rule`, the synchronisation throws, and each later start
  meets the same rule. `AccessRules!DeleteRule` has the condition.
- `clearOAuthTokens` keeps the tokens, as the configuration service keeps secrets a set
  leaves out; `strategy-service.test.ts:361` uses a mock that does not.
- Switching a channel in the user interface sends no `userConfig` and so removes the
  stored contact, against `strategy-service.test.ts:221`, "merges with existing
  preference". `NotificationChannels!Merged` does what the code does.
- `createMaintenance` checks that a window ends after its start, `updateMaintenance`
  does not; maintenances do not listen to `systemDeleted`, incidents do.
- "If true, global access doesn't apply" (`auth-backend/src/schema.ts:255`): a resource
  without a grant is open to global access whatever its settings
  (`auth-backend/src/router.ts:1579`).
- A strategy's `mergeResult` is said to be "Called during real-time aggregation"
  (`docs/backend/healthcheck-data-management.md:44`); `realtime-aggregation.ts` merges
  the collectors' results only.
- "Publish connection store for provider plugins to inject"
  (`core/integration-backend/src/index.ts:165`): a service registered in `init()` is not
  there when dependencies are sorted, so whoever injects it is not ordered after it.
- `loadSinglePlugin` (`core/backend/src/plugin-manager.ts:313`), for plugins installed at
  run time, runs no migrations, gives no scoped database and never calls
  `afterPluginsReady`.
- `SignalProvider` is to be rendered "only when a user is authenticated"
  (`SignalProvider.tsx:40`); `core/frontend/src/App.tsx:236` renders it always.
- `purgeOldNotifications`, `trackHookSubscription` and `deleteResourceGrants` are
  called by nothing but tests.

## Not modelled, and why

`PROJECT.json` lists each component with its status. Out of scope: network and
process I/O of strategies, collectors, providers and authentication (each a step that
succeeds, fails or never answers in the modules above), the frontends, which are more
than half of the code and keep no state others depend on, scripts, read-only queries,
validation of inputs, formats and wording. Rows that one statement reads or writes and
nothing else refers to (themes, views, in-app notifications, retention settings,
subscriptions' filters) have no behaviour to check. Inside the modelled components
these are left out: statistics and connection tests of the queue manager; read-only
queries of a proxy; instance-local hooks of the event bus; filters and credentials of
the integrations; payload and metadata of runs; the interval of a check; the routes
and extension points of a plugin; the users a signal is for, and pings; lists and
percentiles of runs; titles, texts and severities.

## Plan

1. Done: queue, proxy, manager, event bus, delivery, data tiers, evaluator, executor;
   then the contract of the queue and the refinement, scheduling, catalog, incidents,
   maintenance windows, keys, access rules with the plugin lifecycle, teams,
   connections, notification channels; charts and availability, the collectors' figures,
   the start of plugins, signals.
2. Done: every safety property of the runs is a theorem.
3. A module that would add: onboarding of the first user.
