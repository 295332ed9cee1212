# Verification of piqueld

`piqueld` is a daemon that keeps applications running on a Docker Swarm node as
their manifests say. A client saves a manifest and asks for a deployment; the
daemon records an *operation* in SQLite, prepares its *target* (images,
services, networks, volumes), runs its jobs, publishes the target and drives
Docker until the services converge. It does this across failures, restarts,
newer requests, drift, stops and starts, rollbacks and deletions.

This directory holds TLA+ modules of the part where that can go wrong, the TLC
configurations that check them, and proofs of their safety for every size.
`PROJECT.json` lists components, runs, mutants, the map from definitions to
source lines, findings, hazards and theorems.

## Modules

| module | models | source |
| --- | --- | --- |
| `OperationStore` | the rows of one environment and every transaction on them | `apps/piqueld/src/store` |
| `Acceptance` | acceptance of requests: revision and identity checks, idempotency receipts, saving, renaming and deleting; over the store | `store/acceptance.rs`, `store/deployment.rs`, `store/environment/mod.rs` |
| `Reconciler` | discovery, scan, repair, execution, rollback, crashes; over the store and Docker's services | `apps/piqueld/src/reconcile`, `crates/piqueld-core/src/planner.rs` |
| `JobRuns` | the jobs before a rollout: runs, cleanup, exclusive volumes; over the store and Docker's services, tasks and containers | `reconcile/jobs.rs`, `docker/jobs.rs` |
| `ImageRetention` | image cleanup beside preparations, restores and rollbacks; over the store and Docker's images | `reconcile/images.rs`, `store/images/mod.rs` |
| `BuildTurn`, `BuildQueue` | the turn builds wait for, as what it promises and as the queue that implements it | `docker/build_queue.rs` |
| `Ingress` | routes from staging to acknowledgement, and the gateway container that serves them | `ingress/gateway.rs`, `ingress/mod.rs`, `store/ingress.rs` |
| `Notifications` | conditions, the outbox, the delivery worker, edits of destinations | `store/observability`, `api/service/notification_worker.rs` |
| `MCReconciler`, `MCNotifications` | instances for TLC | |
| `OperationStoreProofs`, `AcceptanceProofs`, `ReconcilerProofs`, `JobRunsProofs`, `ImageRetentionProofs`, `BuildQueueProofs`, `IngressProofs`, `NotificationsProofs` | TLAPS proofs, each of the module it is named after | |

`Acceptance`, `Reconciler`, `JobRuns` and `ImageRetention` extend
`OperationStore`: their store steps *are* the transactions of that module.
`ImplementsStore` says that every step of `Reconciler` is a step of `StoreSpec`
or a stutter; it is checked and proved (`ReconcilerImplementsStore`, and the same
of `Acceptance` and `ImageRetention`), so the theorems about the store hold of
the interleaved systems too. `ImplementsFairTurn` checks, and
`QueueImplementsTurn` proves but for fairness, that the build queue implements
`BuildTurn`.

## Inventory

**Operation store** (`store/operation.rs`, `deployment.rs`, `stopped.rs`,
`jobs.rs`, `restore/mod.rs`, `environment/mod.rs`). State: operations with kind,
state, error, attempt; prepared and active targets; promoted operations; attempt
outcomes; delete intent; stop flag; pending job cleanup. Operations: request a
deployment, deletion, restore, stop, start; transition, record an error, retry,
reconcile, recover, save and publish a target, roll back, finish a deletion.
Every writer is a `begin_immediate` transaction. Hard: long sequences of legal
calls (restores of restores, a retry behind a newer intent, a stop in between).
Correct when only the newest intent is ever open, the active target is the one
published last, restores only ever reach targets that succeeded, a deployment is
rolled back at most once, nothing follows a deletion.

**Reconciler** (`reconcile/coordinator.rs`, `controller.rs`, `rollback.rs`,
`actions.rs`). One event loop polls a discovery pass, at most one scan and one
health job per environment. State: what each read before its awaits, the
cancellation token of a scan, the mutation lock. Hard: a plan, an operation, a
target or a rollback candidate read before an await is used after it; a repair
for the old target beside a publish; a crash between any two steps; a failed
request that took effect. Correct when Docker is only ever changed toward the
active target, a deletion leaves nothing, every operation settles, success is
maintained, a stop takes effect, a failed job waits for a client.

**Jobs** (`reconcile/jobs.rs`, `docker/jobs.rs`, `store/jobs.rs`). State: the run
of a job (service, task, container, exit), the record of its success, the
durable cleanup intent. Hard: Swarm moves a run from service to task to
container while three requests read them; a deadline races an exit; a record or
a removal fails; runs of superseded operations linger. Correct when runs never
overlap, an exclusive run has its volume alone, a success is not run again,
cleanup completes, stopped services return.

**Request acceptance** (`store/acceptance.rs`, `api/service/mod.rs`). State: the
application's revision, configuration and deletion mark, the environment's name
and resolved revision, what each deployment captured, receipts by idempotency
key. Operations: check and replay a request, save, save and deploy, rename,
deploy, delete an environment or the application, reconcile, stop, restore,
expire receipts. Hard: a request arrives late or again, from an inspection that
is stale, after its subject was deleted or created again under the same name; a
deployment publishes an older revision between two saves. Correct when a request
acts once and only on what was inspected, a resolved revision is what runs, an
accepted deletion of the application is not abandoned.

**Build queue** (`docker/build_queue.rs`). State: whether a build has the turn,
two queues of oneshot senders, the count of environment builds that overtook
previews. Operations: ask for the turn, be cancelled, pass it on. Hard: a waiter
is cancelled as its turn is sent. Correct when one build has the turn, it is
never lost, previews are not starved.

**Ingress** (`ingress/gateway.rs`, `ingress/mod.rs`, `store/ingress.rs`, the
routing half of `reconcile/controller.rs`). State: staged and acknowledged
routes, the containers NAME, NAME-next and NAME-previous, the configuration the
gateway serves or resumes, rollback.json, the pass that holds the writer lock.
Operations: publish and withdraw routes, refresh, recover, replace, restore,
configure, acknowledge, disable. Hard: one call per step with a failure, a
deadline or a crash between any two; settings that change over a restart; an
environment whose network cannot be verified. Correct when an old backend goes
only after the gateway left it, an interrupted replacement can be restored and
brings back nothing old, the gateway converges.

**Notifications** (`store/observability`, `api/service/notification_worker.rs`).
State: the event log and its cursor, open conditions with their window, the
outbox with the pairing of recoveries and failures, destinations, what the worker
is posting. Operations: record and process events, observe health, claim, post,
complete, expire, retry, prune, delete, edit destinations, restart. Hard: an
unacknowledged post may have arrived; a recovery waits for its failures, a
deployment for its recovery. Correct when a recovery follows its failure, an
incident is announced once, nothing stale is replayed, every delivery settles.

**Image retention** (`reconcile/images.rs`, `store/images/mod.rs`). State: the
images in Docker, the roots in the store, who holds `in_use` shared, the roots
and the list a cleanup pass works from. Operations: prepare, restore, roll back,
clean up. Hard: images are chosen before they are roots; cleanup works from what
it read. Correct when nothing that is or becomes a root is removed, a rollback
finds its images, garbage goes.

**Docker adapter** and **planner**: here as the effects of a request and the
order and blockers of a plan.

## How state and actions correspond

**OperationStore.** Operations are numbered in creation order, so SQL's "latest
operation of the environment" is `count`. A target is named by the operation
that prepared it, `0` is NULL. `outcome[o][n]` is the row
`(deployment_id, attempt)` that `save_deployment_attempt` upserts.
`TransitionOperation` is the guarded UPDATE of `transition_operation` with all
it writes besides (attempt number, outcome, success time, cleanup of a failed
job). `StoreNext` lets any caller run any transaction at any time: what the
store itself guarantees. The two job cleanup transactions are in the module but
not in `StoreNext`: `JobRuns` runs them. Codes are grouped by what the code
tells apart (`Errors`). Displayed status and events are left out, since no guard
reads them.

**Reconciler.** `scan` and `repair` hold a program counter and the local
variables of `scan_latest_operation`/`run_operation_inner` and of
`maintain_active`/`repair_once`. Each label is an await between which other
activities run. The mutation lock is held across steps only while a request is
in flight (`LockFree`); a holder that only touches rows is one step. `services`
is what Docker runs: for which target, scaled up or to zero, converged, updating
or failed. A request that fails, or is in flight at a crash, took effect or did
not. `Converge`, `UpdateFails`, `Drift` are Swarm and the host.

**JobRuns.** A run is a job of an operation; `docker` holds its service, its
live task, its container and its exit, beside those of one service that mounts
the volume of exclusive jobs. The checks of `create_job` and
`check_volumes_free` are sequences of reads, one step each, with Swarm working
between them; the lock is held throughout. `recorded` is build history, `done`
and `ended` are history variables of the properties. The rollout is one publish
and one service write; planning is left to `Reconciler`.

**Acceptance.** A call is a request under an idempotency key, with the revision
and identity its client saw or forced; it is delivered any number of times, any
time later. Each delivery that is not refused or answered from a receipt is one
step, since `accept` takes SQLite's write lock before it reads. Other clients'
requests arrive at once. A configuration is named by the revision that saved it;
`Renders` says which render the environment's name. `Work` is the reconciler's
transactions, with the receipts that go with an environment or an application.

**BuildQueue.** `turn` is one step under the mutex, `pass` is two: a waiter can
drop its receiver between being picked and being sent the turn. `channel` is the
oneshot channel, `leaving` a dropped wait that has not yet run its destructor's
check. `Retain` is written as a recursive function, so that it can be reasoned
about. `ahead` and `passedBy` are history variables of `PreviewsAreNotStarved`.

**Ingress.** `pass` is the holder of the writer lock: one label per Docker, Caddy
or SQLite call of `synchronize_for`, `ensure_gateway`, `cut_over`,
`restore_gateway` and `stop_gateway`. `run[e]` is the loop of
`execute_operation`, reduced to what it does with routes and backends. A
deployment's routes and its service are its number. `offered` and `removed` are
history variables: what was configured since the last acknowledgement, and what
was acknowledged away while ingress was disabled.

**Notifications.** Events are a log of kinds; a delivery is named by event,
destination and category, its row by state, whether it was tried and whether it
still belongs to its destination. Time is abstracted: a failure window counts
observations, a retry window may pass at any moment (`Expirable`), an event may
be pruned at any moment once it was processed. `inbox` is what receivers got, a
history variable.

**ImageRetention.** `scan` is a preparation or a rollback, `client` a restore,
`cleaner` a cleanup pass, each with what it read before its awaits. `LockFree`
is `try_write`. The roots are read in one step, which is the snapshot
`retained_images` takes.

## Runs

| run | shows | bounds |
| --- | --- | --- |
| `store` | a request acts once, on what was inspected; a resolved revision is what runs; deletions are not abandoned and take their receipts along; the store's invariants | 2 operations, 1 late or repeated call, 3 revisions, 1 expired receipt |
| `reconciler` | requests follow the active target; a deletion leaves nothing and no request in flight; restores, of restores too, run a target that succeeded; failed jobs wait for clients; every step is a store transaction | 3 operations, 2 services of which one target drops one, 1 disturbance |
| `reconciler_live` | recorded attempt outcomes are retained, with one named exception; operations settle; in the end a success is what runs | 2 operations, 1 service, 1 disturbance |
| `stop_takes_effect` | a stop at any moment stops the services, unless a request or an automatic rollback takes it back; rollbacks end | 2 requested operations and their rollbacks (4 operations), 2 disturbances (the stop, a failed rollout or another) |
| `job_runs` | runs never overlap; the application never runs beside an exclusive run; a deletion leaves no run; a success is not rerun | 3 operations, 2 jobs of which one is exclusive, 1 disturbance |
| `job_runs_live` | cleanup completes; stopped services return | 2 operations, 1 job, 2 disturbances |
| `build_queue` | one owner of the turn; previews are not starved; implements the fair turn | 2 environment and 2 preview builds that come again and again, burst 3 |
| `notifications` | one alert per incident; recoveries keep what they recover from; closed incidents are not replayed | 3 reported events, 1 restart, 1 destination |
| `notifications_live` | beside edits: a receiver hears of a recovery only after its alert; nothing unwanted is queued; every delivery settles | 2 reported events, 1 edit of the destination |
| `ingress` | acknowledged backends exist; only known routes are served; replacements can be restored; the gateway converges | 1 environment, 2 operations of any kind, 2 faults, 1 restart with other settings |
| `image_retention` | roots and chosen images stay; a rollback has its images; garbage is removed | 3 operations, 2 images, 1 kept deployment, 1 restore, 1 fault |
| `resumed_routes` | a counterexample, see Findings | 2 operations, 1 fault, 3 restarts |

*Why the bounds are enough.* The theorems remove them from every safety property;
liveness rests on what follows. In `Acceptance` a late call races a save, a rename
or a deployment of somebody else (two operations, three revisions), or finds its
application deleted and created again at the same revision. A restore of a
restore, or of what a rollback restored, is the third operation of the
`reconciler` run. A rollback of a rollback, and a second rollback of one
deployment, would be the fourth of `stop_takes_effect`; there `TwoRequests` cuts
client requests beyond the second operation, and no step of the daemon. In
`Reconciler` a race needs a scan, the
health job and one newer request; two services tell "all of the target" from
"some", and a target that drops one makes removals happen. A disturbance is a
failure, a crash, drift, a timeout, a stop or a start; requests of operations
are not counted. `MaxAttempts` in the liveness runs of `Reconciler` is more than
the disturbances can start, so no attempt is cut off there; those of `JobRuns`
say nothing of attempts. `JobRuns` was also run with three operations, two jobs
and two disturbances (9.5 million states), which found nothing more. In
`BuildQueue` a burst of three over two environment builds makes one of them come
twice; two previews tell the head of their queue from the rest. An incident of
`Notifications` is a failure, its success and a failure again: three reports.
In `Ingress` a fault during a replacement and one during its restore are two;
it was also run with two environments (3.0 million states) and with three
restarts (2.5 million). In `ImageRetention`
the third operation is a rollback, a restore or a newer deployment after one that
succeeded and one that failed; two images tell reused from rebuilt; one kept
deployment is the least with which rollbacks are promised.

*Types.* Each module has one type invariant. `TypeOK` and `ITypeOK` are
invariants of their own; the others (`ATypeOK`, `RTypeOK`, `JTypeOK`, `BTypeOK`,
`NTypeOK`, `ImTypeOK`) are the first conjunct of one invariant of their module's
run. All are proved.

*Deadlock* is checked of `BuildQueue` and `Ingress`. Elsewhere it is not: a
deleted environment takes no further step, and one at every bound may stop.

*Fairness.* The event loop polls discovery and all jobs on every turn, and a
tick requests a pass each second, so a step that stays enabled is taken (WF).
The mutation lock is a tokio mutex, which is first come, first served: whoever
waits gets it although others take it in between (SF on the steps that wait for
it). A backoff passes (SF on retrying; a scan that comes too early may end).
The attempts of a Docker request are finite (SF on `AttemptsRunOut`). Swarm
converges what does not fail and stops what was removed. A build that has the
turn ends, and destructors run (WF). The notification worker loops and its posts
time out (WF); retry windows pass and deliveries are claimed by their next
attempt, so one never tried is not passed over for ever (SF). The gateway's pass
is asked for every 10 s through a fair mutex (SF), and a pass or an operation in
progress goes on (WF). Preparations, restores and cleanup go on, and cleanup is
asked for again and again (WF). Nothing makes a job's container exit, no client
ever has to ask for anything, and no fault or disturbance is fair.

## Proofs

Every safety property of the passing runs, invariants and action properties
alike, is a theorem for every value of the constants under the named ASSUMEs; the
second half of `StopTakesEffect` (what may take a stop back) is the exception.
Each proof module has one inductive invariant that TLC checked before it was
proved, one lemma per action (split by the conjuncts it can disturb) and one
temporal theorem, from which the others follow.

`OperationStoreProofs` proves for every `MaxOps`, `MaxAttempts` and set of codes
that `StoreSpec` keeps the store's invariants (`TypeOK`, `NewestIntentWins`,
`ActiveTargetIsLastPublished`, `RestoresOnlySucceededTargets`, `RolledBackOnce`,
`DeletionIsTheLastIntent`, `OutcomeAgreesWithState`) and the action properties
`SupersededIsFinal`, `RestorableIsStable` and `AttemptOutcomesAreRetained`. Assumptions: the bounds are
naturals and the codes are among the five the code tells apart (the named
ASSUMEs of `OperationStore`).

The invariants are not inductive alone. `StoreInv` conjoins them with
`RowsEndAtCount` (rows beyond `count` are blank, so a new operation starts
clean) and `FutureAttemptsBlank` (attempts not started have no outcome). It is
needed as a whole: that only the latest operation is open
(`NewestIntentWins`) is what lets a transition touch one row without making the
outcome of another disagree (`OutcomeAgreesWithState`); that a running attempt
has no outcome is why none is replaced (`AttemptOutcomesAreRetained`); that
restores name targets that succeeded needs that a prepared target never changes
and that `succeededAt` only grows; that what was rolled back is older than the
latest operation is why it stays failed (`RolledBackOnce`); that nothing follows a deletion needs that the intent
is set exactly while a deletion is the last row.

`ReconcilerProofs` proves `ImplementsStore`, `RequestsFollowActiveTarget`,
`DeletionLeavesNothing` and the action property `JobFailuresWaitForClients`, for
any services, targets, operations and disturbances. `RInv` says, for every await,
what of the local variables of a scan or a repair is still true of the rows and
of Docker: a repair's target is the active one unless its operation was replaced
or published meanwhile, which the check under the lock notices (`RepairsFollow`);
at most one request is in flight (`OneRequest`); a deletion past its jobs has the
services to itself, and one with nothing left to do leaves nothing (`Deleting`);
the deployment a rollback picked can still be restored in the transaction that
fails the operation (`RollbackPicked`); a failure a scan read is the one recorded,
as long as it stays (`FailureKnown`). Assumptions: `Wanted` gives each target a
set of services, and the bound is a natural.

`AcceptanceProofs` proves `RetriesActOnce`, `ResolvedIsCurrent`,
`DeletionIsNotAbandoned`, `ReceiptsGoWithTheirSubject`, the action property
`ActsOnWhatWasInspected`, and that what requests do to the environment implements
the store. `AInv` says that a revision of an application names one content
(`SnapshotInv`), that a call names the application that had the name when it was
sent and never one that gets it later (`CallsInv`), whose receipts exist
(`ReceiptsInv`), and that a call that acted more often than it lost receipts
still has one (`ActsInv`). Assumptions: `AcceptanceAssumption`, the types of the
bounds; a revision can be saved at all.

`JobRunsProofs` proves `DeletionStopsRuns`, `ExclusiveRunsAlone` and the action
properties `RunsNeverOverlap` and `SuccessIsNotRerun`, for any jobs, exclusive
jobs, operations and disturbances. `JInv` says what each stage of the scan has
found in Docker and nobody can undo: once a service is gone no task of it
appears, and once its tasks are gone no container does, so the reads of a check
stay true one by one while the lock is held (`LockInv`, `StoppedInv`). A success
of the latest operation is recorded or can still be read from Docker
(`WorldInv`), because what may be cleaned up belongs to an operation that is
superseded, recorded a job's failure, or has only recorded runs (`CleanupInv`).
Most steps are `Calm`: no service appears. Assumptions: exclusive jobs are jobs,
and the codes include those that a job's end records (`JobErrorsAssumption`).

`ImageRetentionProofs` proves `RootsArePresent`, `ChosenImagesStay` and
`RollbackIsAvailable`, for any images, number of deployments kept, restores and
faults, and that the module implements the store. `IInv` says why: while cleanup
works nobody holds the lock, and what is a root now it has read as one
(`CleanerSpares`); what a preparation may reuse is the image of the active target,
and what a rollback or a restore picked stays restorable (`ScanReads`,
`ClientReads`). Assumptions: the types of the constants, and that rollouts can
fail (`RolloutAssumption`).

`BuildQueueProofs` proves, for any builds and any positive burst, that the turn
has one owner (`TurnHasOneOwner`) and that every step of the queue is a step of
`BuildTurn` or a stutter (`QueueImplementsTurn`). `QInv` relates channels to the
stages of their builds and the mutex to the build inside `pass`: a sent channel
belongs to a build that is still waiting or leaving, so the turn in it is used
or passed on. `PreviewsAreNotStarved` bounds a history; `BInv` connects it to
what the code keeps, the order of the queue and `overtaken`: a preview build at
place *i* has seen `ahead + 1 - i` builds go or give up before it, each after at
most one burst, and `overtaken` counts the burst in progress. For that the proof
needs what `retain` computes (`RetainKeeps`): it is shown by induction over the
queue, with the induction principle stated for sets of naturals and derived from
the well-foundedness of `<` (`NatSetInduction`), since the provers cannot use
the library's principles over predicates. Assumptions: a build is of an
environment or of a preview, the burst is positive, and, for the type of the
history only, previews are finitely many.

`IngressProofs` proves, for any environments, specifications and numbers of
operations, faults and restarts, `ITypeOK`, `AcknowledgedBackendsExist`,
`UnfinishedIsRestorable` and `ServedIsKnown`. The inductive invariant has three
parts besides the types. `GatewayInv` says which containers and files a pass
finds at each of its calls, wherever an earlier one was interrupted. `RoutesInv`
relates staged and acknowledged routes, the table a pass has read and how far
the operation of each environment has come to the services that exist: it is why
the plan that removes a service is one made after its routes were acknowledged
away. `KnownInv` extends `ServedIsKnown` to the configuration of a stopped
gateway and to rollback.json while it can still be restored. Assumptions:
`IngressAssumption`, the types of the constants.

`NotificationsProofs` proves `RecoveryFollowsFailure`, `OneAlertPerIncident`,
`NothingUnwantedIsQueued`, `RecoveryKeepsItsFailures` and the action property
`AlertIsNotReplayed`, for any destinations, settings and numbers of reports,
edits and restarts. `NInv` has a part for each piece of state: nothing that was
handled clears an open condition (`ConditionsInv`), so an alert is of the open
incident or was cleared before it (`IncidentsInv`); the event that clears an
incident pairs its recovery with every alert that is still to be sent, and both
rows of a pair exist (`SourcesInv`); a delivery that is attached to a
destination has the receiver it had when it was queued (`OutboxInv`), also while
the worker posts it (`WorkerInv`); and receivers got alerts before their
recoveries (`InboxInv`). Steps either queue nothing (`Fading`) or queue the
deliveries of one event (`Queueing`). Assumptions: `NotificationsAssumption`, the
types of the constants.

Only model-checked: `OperationsSettle`, `SuccessIsMaintained`, `StopTakesEffect`,
`CleanupCompletes`, `StoppedServicesReturn`, `DeliveriesSettle`,
`GatewayConverges`, `GarbageIsRemoved` and the fairness in `ImplementsFairTurn`.
They are liveness under fairness, which is out of the prover's reach; so is the
leads-to of `StopTakesEffect`, whose other half is checked beside it.

## Findings

`resumed_routes`: *a restarted gateway must never briefly resume routes that were
removed by deployments while ingress was disabled* (the comment at
`ingress/gateway.rs:884`). `restore_gateway` starts the former container without
writing the routing table. Ingress is disabled and a deployment removes its
routes; it is enabled again and the daemon stops after creating the container
and before writing the table; it starts with another container specification and
the replacement is interrupted after NAME-next was created. Recovery starts the
former container, which resumes the routes until the pass after it.

Further disagreements between documentation and code that the models showed, and
that no run here repeats:

- *Attempt outcomes are retained* (`docs/dev/architecture/persistence.md:28`). A
  retry resets an ended operation without a new attempt number; superseded
  before it runs again, its recorded outcome is overwritten with superseded.
  `AttemptOutcomesAreRetained` excepts this step by name and shows that it is the
  only one that replaces a recorded outcome.
- *A stopped environment stays stopped until asked*
  (`docs/user/applications/environments.md:511`). The automatic rollback of a
  deployment that was stopped while it ran clears the stop. `StopTakesEffect`
  excepts it by name and shows that besides requests nothing else does; its run
  reaches such a rollback, and stops of the rollback itself.
- *Every action is followed by observation and fresh planning*
  (`docs/dev/architecture/docker-reconciliation.md:155`). `publish` waits for
  the lock after planning; a repair that lands meanwhile is not observed, and
  an operation with an empty plan succeeds while a service runs the former
  target. `SuccessIsMaintained` shows that the next scan corrects it.
- *Each job succeeds at most once per deployment*
  (`docs/user/reference/manifest.md:1284`). A run may exit successfully as its
  timeout is declared; a client's retry runs it again. `SuccessIsNotRerun`
  shows that this, or somebody removing the run, is the only way.
- *A superseded deployment stops its running job, and the next deployment stops
  what an earlier one left behind* (`docs/user/reference/manifest.md:1294`). A
  run kept for a retry outlives its operation when the next one fails before
  `run_jobs`.

What a reader of the properties should know:

- A restore is accepted under the newest revision, which `publish_prepared` then
  records as resolved although an older configuration runs; `ResolvedIsCurrent`
  excludes restored targets.
- A late repetition of a creating save, after its receipt went with the deleted
  application, creates the application again. The receipt of deleting an
  application without environments outlives it.
- When the acknowledgement of an environment's first routes is lost and the next
  deployment has none, `has_routes` is false: the backend goes at once and the
  gateway routes to it until the next pass. `AcknowledgedBackendsExist` speaks
  of acknowledged routes for that reason.
- An environment deleted and created again may be alerted of anew, and a retried
  recovery whose failure event was pruned has lost its sources.

## Modelling assumptions

- Specifications of different targets differ, so a service of another target has
  drifted. Equal ones would only mean fewer requests.
- One environment, except in `Ingress`. Others only delay the mutation lock.
- A discovery pass reads and dispatches in one step: the scan reads the
  operation again before it uses it, and all transitions recheck under a
  transaction.
- Reads that the code repeats under the lock are only modelled under the lock,
  unless the earlier value is used.
- A request in flight at an error or a crash is applied at once or never.
- Routes are modelled in `Ingress` only, with one listener per environment;
  networks and volumes exist; services have no startup dependencies; links are
  absent.
- `SuccessIsNotRerun` excuses operations that lost a run to somebody else: the
  daemon cannot tell that from a run that never started.
- `Ingress` leaves out the stop flag in `served_table`, redirect-only routes,
  the switch between ports and tunnel and a gateway container that dies.
- A target of `ImageRetention` has one service and one image built here. That a
  container uses an image, or its removal fails, is a bounded fault.

## Not modelled

Left for later, in the order of the plan: the journal, promotion and previews,
sync and webhooks, links, secret versions, sessions, the audit trail, and the
planner's comparison of resources.

Not going to be modelled: manifest parsing and editing, HTTP decoding and views,
DNS providers and certificates, Git, telemetry, configuration, command line,
dashboard, generated client and tools. They transform text or do I/O and keep no
state the properties speak of. They are by far most of the repository's lines
(the dashboard, the generated client, the command line, tests and the text of
requests, queries and messages inside the modelled files too), which is why the
map covers a small share of all lines while it covers most of the
control of the daemon's core: the operation rows, acceptance, the reconciler,
jobs, the build queue, ingress, notifications and image retention.

## Plan

Order of what is left, most important first.

1. `Planner`: `Plan::reconcile`, `deletion`, `next_job_preparation` and
   `preserve_job_prerequisites` over services with dependencies, networks and
   volumes; checked against what a plan promises (removals last, no action on
   what is not owned, repeated execution reaches an empty plan).
2. The steps that liveness rests on, as action properties that can be proved:
   what each settled operation, removed run and acknowledged route decreases.
3. `JobRuns` as an implementation of the store, with the cleanup transactions as
   steps of it.
4. `Journal` (open entries, recovery), promotion and previews in `Acceptance`
   and `ImageRetention`, `Sync`, `Links`, secret versions, `Sessions`, `Audit`.
