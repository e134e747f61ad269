# msight-cloud in TLA+

A model-checked and partly proved account of msight-cloud: the Lambdas,
containers and AWS services that keep track of connected road users, carry
sensor and signal data to them, and run sensor and microservice infrastructure
on request of an admin console, and the console itself.

Run everything from this directory: `tlc -config X.cfg M` for a run,
`tlapm M.tla` for the proofs. Source paths are relative to the directory that
holds the repository's Lambdas (`src/` with `functions/`, `services/` and
`shared/`) unless they start with `lib/` or `admin-console/`.

1. [Inventory](#1-inventory)
2. [Modules](#2-modules)
3. [The client presence registry](#3-the-client-presence-registry)
4. [The microservice launch](#4-the-microservice-launch)
5. [Sensors, storage and the stack](#5-sensors-storage-and-the-stack)
6. [The data path](#6-the-data-path)
7. [The control plane](#7-the-control-plane)
8. [Runs](#8-runs)
9. [Proofs](#9-proofs)
10. [Where the code and its documents disagree](#10-where-the-code-and-its-documents-disagree)
11. [What is not modelled](#11-what-is-not-modelled)

## 1. Inventory

| Component | State it keeps | Operations | Talks to |
|---|---|---|---|
| **Client presence registry**: `functions/location-api`, `ws-connect`, `ws-disconnect`, `expiration-cleanup`, `shared/radius-broadcaster.ts`, `shared/ws-sender.ts`, `services/sensor-consumer/radius_broadcaster.py` | Valkey: `geo:clients`, `client:<id>`, `expires:clients`, `ws:connection:<id>` | upsert a location, connect, disconnect, reap, broadcast | Valkey, API Gateway management API |
| **Microservice launch**: `admin-vpc-api/services/provisioning.ts`, `microservices.ts` | Postgres: `microservice_clusters` | create, check, launch, build, refresh, stop, deploy, roll back, deprovision, tear down, push, reconcile | CodeBuild, ECS, ECR, GitHub, the console, the webhook, a 5 min schedule |
| **Compute clusters**: `services/clusters.ts`, `provisioning.ts` | `compute_clusters` | create, provision, deprovision, delete, inspect | ECS, auto scaling |
| **Microservice infrastructure**: `shared/microservice-infrastructure.ts` | none (idempotent `ensure*` and `delete*`) | one function per AWS resource | ECS, ECR, CodeBuild, logs |
| **Sensor consumer**: `services/sensor-consumer/consumer.py` | merge buffer in memory | receive, merge, broadcast, delete, shut down | SQS FIFO, Valkey, API Gateway |
| **SPaT consumers**: `functions/*spat-sns-consumer` | Valkey: last state and last broadcast per intersection | rate limit, detect significant change, broadcast | SNS, Valkey, API Gateway |
| **Configuration cache**: `shared/python/msight_config_cache.py`, `msight_valkey_cache.py` | a value in the container's memory, a value and a claim in Valkey, each with its times | load, refresh by one container, stale fallback | Valkey, Aurora |
| **Valkey client**: `shared/valkey-client.ts` | shared connection promise, command queue, receive buffer | send, time out, reset | Valkey |
| **Sensors**: `services/sensor-registry.ts`, `shared/sensor-infrastructure.ts`, `sensor-reaper` | `sensors` rows, SQS, SNS, ECS | register, provision, reconcile, retire, reap | SNS, SQS, ECS |
| **Storage buckets**: `services/storage.ts`, `shared/storage-infrastructure.ts` | rows and S3 notification wiring | register, reconcile, remove | S3, SNS |
| **GitHub App and webhook**: `services/github-app.ts`, `functions/github-*` | the App's row and secret, installations, single-use intents; credentials cached in a container | create, paste, forget, install, remove, sign | GitHub, Secrets Manager |
| **MCP server and tokens**: `functions/mcp-*`, `services/mcp-tokens.ts` | token rows, cached authorizer answers, the tool table | issue, authorize, call a tool, revoke | both admin Lambdas |
| **Aurora browser**: `services/aurora.ts`, `admin-console/src/pages/AuroraPage.vue` | tables; rows on screen, a trail of cursors | page, edit, delete | Aurora |
| **Admin API**: `shared/admin-api`, the route modules of `admin-api` and `admin-vpc-api` | none | route, check the role, parse | every service above |
| **Console accounts**: `admin-api/services/cognito.ts`, `admin-bootstrap` | Cognito users and role groups, ID tokens | sign in, refresh, create, delete, disable, change role | Cognito |
| **Admin console**: `admin-console/src` | who is signed in, the page, what was loaded and for what | navigate, load, poll, submit | the admin API |
| **Deployment stack**: `lib/msight-cloud-stack.ts` | the resources and what they refer to | create, update, roll back, destroy | CloudFormation |
| Maps, apps, console reads, schemas | none that a second actor changes | validation, single statements, reads | - |

### How they interact

* The Lambdas of the presence registry share nothing but four kinds of Valkey
  keys and API Gateway's idea of which connections exist. There is no lock;
  what is atomic is one command or one Lua script.
* Sensor data reach the broadcasters through SNS and, for sensors with a
  container of their own, SQS FIFO. A broadcast reads the registry and, when
  API Gateway answers Gone, writes it.
* The console, the webhook and a schedule call the admin API. The rows in
  Postgres say what AWS should hold; every operation is read the row, call
  AWS, write the row, with nothing holding the row in between. One
  conditional UPDATE (`claimLaunch`, and its twin in `advanceLaunch`) is the
  only mutual exclusion.
* Builds run in CodeBuild and are only ever polled: by whoever looks at the
  service, and by the reconcile every five minutes.

### What is hard, and what makes each component correct

| Component | Hard behaviour | Correct when |
|---|---|---|
| Presence registry | commands of five kinds of Lambda interleave on the same keys; a clean-up pass acts on what it read; `$disconnect` may be late or lost; a broadcast clears registrations long after it read them | nothing expired stays findable; no fresh client is lost; late clean-up never hits a new connection; a dead registration goes |
| Microservice launch, compute clusters | two requests and the reconcile on one row; a Lambda dies between AWS and the UPDATE; one AWS call of several fails; status read for one build and written on the row of another; pushes during a build | one launch at a time; one build at a time; every launch ends; rows never deny what AWS has; a removed service leaves nothing that bills; a service runs an image that exists, and in the end the pushed commit |
| Microservice infrastructure | partial creation, retries of creation and of deletion | idempotent, and never deletes what it did not create |
| Sensor consumer | redelivery, a batch half merged, a full or expired buffer, SIGTERM in between | every message is broadcast, in order within a group, or is redelivered |
| SPaT consumers | two invocations on one intersection, state saved before or after the broadcast, late messages | vehicles are told the phase in the end and nothing they were not told is held back; the rate stays bounded |
| Configuration cache | two tiers, refreshes that race or outlive their claim, stale values handed between containers | what is served is never older than a bound, whatever fails |
| Valkey client | time out with an answer still on the wire, close of the old socket after the new one is up | an answer reaches the command it answers; no command waits for ever |
| Sensors, storage | provisioning half done, reconcile racing removal, reaper racing a heartbeat | rows and AWS agree once the reconcile ran; live sensors are never reaped |
| Stack | create and destroy in any order the references allow, passes that outlive their schedule | a destroy ends and leaves no queue, service or instance behind |
| GitHub App, webhook | redirects replayed, pastes over a working App, kills between secret and row, cached credentials | an intent is accepted once; recorded installations belong to the App whose key is stored |
| MCP tokens | revocation behind a cached authorizer answer and an authorizer that read before it | revocation and expiry take effect within a bound; the calls of a listed tool are ones its routes take |
| Console accounts | groups changed one Cognito call at a time, roles believed for a token's life | one role group each; a former admin stops within a token's life |
| Console pages | replies in any order, for a service, table or log left meanwhile | what is shown is what is selected; what is written goes to what is shown |

The hazards behind this table, each at its line, are in `PROJECT.json`.

## 2. Modules

Each module is a component; an `MC` module puts several components side by
side for TLC. Where a component promises something that can be said without
its machinery, an abstract module says it, and the component is shown to
implement it.

| Module | Component | Composed in |
|---|---|---|
| `ClientRegistry`, `ClientRegistryProofs` | presence registry | `MCClientRegistry` |
| `MicroserviceLaunch`, `MicroserviceLaunchProofs` | service, its cluster, webhook, reconcile, CodeBuild | checked alone |
| `SensorProvisioning` | sensor queues, subscriptions, services; converge and reaper | `MCInfrastructure` |
| `StorageWiring` | archive prefixes and bucket notifications | `MCInfrastructure` |
| `DeploymentStack` | the CloudFormation stack and what the running system adds to it | `MCInfrastructure` |
| `InfrastructureProofs` | the three above | - |
| `SensorConsumer`, implementing `FrameDelivery`; `SensorConsumerProofs` | the task that drains a sensor's queue | `MCDataPath` |
| `SpatRateLimit`, `CriticalSpat`; `SpatProofs` | the two SPaT consumers | `MCDataPath` |
| `ValkeyClient`, implementing `CommandChannel` | the Lambdas' Valkey client | `MCDataPath` |
| `ServicePage`, `AsyncLoad` | the console's service page; any loading value | `MCDataPath`; `AsyncLoad` alone |
| `EventLoopProofs` | the three above | - |
| `ConfigTiers`; proofs in `SpatProofs` | the two-tier configuration cache | `MCControlPlane` |
| `ClusterCapacity` | a compute cluster's row and its AWS capacity, call by call | `MCControlPlane` |
| `GithubConnection` | the GitHub App, its secret and installations | `MCControlPlane`; alone |
| `RowBrowser` | the Aurora page and its service | `MCControlPlane`; alone |
| `ControlPlaneProofs` | the three above | - |
| `AdminApi` | every route of the admin API: path, role, fields; the router and the gateway | extended by the next two |
| `McpAccess` | the MCP tokens, authorizer, gateway cache and tools | `MCControlPlane` |
| `ConsoleAccess` | sign-in, roles, pages, user management, the master account | `MCControlPlane` |
| `AccessProofs` | the two above, and `MCControlPlane` as it runs them | - |

The components that one `MC` module extends share no state: its variable
`part` says which of them a behaviour runs, and the others stay as they start.
So a run checks each of them over its own state space, not their product, and
an invariant that speaks of a part that does not run holds of its initial
state. Components that do interact are in one module: a service with its
cluster and builds, the sensors' converge with the reaper, the stack with the
passes that outlive its schedule, the two tiers of the cache with the
containers, tokens and pages with the routes they call.

What could be built next: `MicroserviceLaunch` with several services on one
cluster and moves between clusters; the forms' checks (`normalizeScaling`,
`normalizeRepoPath`, `interpretInspection`) against a reference definition.

## 3. The client presence registry

`ClientRegistry.tla`. One action is one Valkey command (a Lua script counts as
one), one call to API Gateway or one event of it.

| State | In the code |
|---|---|
| `geo`, `hash`, `expires`, `lookup` | the keys `geo:clients`, `client:<id>` (whether it has location fields, and `ws_connection_id`), `expires:clients`, `ws:connection:<id>` |
| `now`, `inflight`, `posts` | the clock; location requests that have computed their expiry and not written it; how many there were |
| `socket`, `owner` | API Gateway: not opened, `$connect` running, open, closed; the client each connection was opened with |
| `connect`, `disconnect`, `cleaner`, `caster` | program counter and local variables of every invocation |
| `faults`, `raced` | failures so far; history: clients whose last upsert came while a pass was past its recheck of them |

| Code | Actions |
|---|---|
| `location-api` | `ReceiveLocation`, `UpsertClientLocation` (the Lua script), `LocationFails` |
| `ws-connect` | `GetExistingWsConnection`, `CloseExistingConnectionIfAny`, `RegisterConnection`, `SetConnectionLookup`, `ConnectReplies`, `ConnectFails` |
| `ws-disconnect` | `GetConnectionLookup`, `UnregisterConnection`, `DeleteConnectionLookup`, `DisconnectFails` |
| `expiration-cleanup` | `StartCleanup`, `ScanExpired`, then for each client `RecheckScore`, `ReadWsFields`, `CloseWsConnection`, `DelLookup`, `DelHash`, `ZremGeo`, `ZremExpires`; `ClientCleanupFails`, `EndCleanup`, `CleanupDies` |
| `radius-broadcaster.ts` | `FindNearbyWsClients`, `PostToConnection`, `ClearGone`, `ClearGoneFails`, `EndBroadcast` |
| `radius_broadcaster.py` | `GeoSearch`, `FetchConnection` (a pipeline, not a transaction), then as above |
| API Gateway (external) | `OpenSocket`, `ClientCloses`, `DeleteConnection`, `DisconnectEventLost` |
| Valkey's own expiry | `LookupExpires` |

What is abstracted:

* Positions, radius and limit: a broadcast reaches any subset of the geo
  index. Message contents and headers are left out.
* One application. All keys but the lookup carry the app id, and connection
  ids are unique, so applications do not meet.
* A location request is answered before the expiry it computed passes (the
  guard of `Tick`): its Lambda times out after seconds, the TTL is longer. A
  clean-up pass may span ticks: several may overlap.
* `ws:connection:<id>` is SET with EX 24 h and API Gateway closes a connection
  after two hours at most, so `LookupExpires` comes only after the connection
  closed and its `$disconnect` was handled or lost.
* A failure may hit any command, lose any `$disconnect`, or end any
  invocation; there are at most `MaxFaults` in a behaviour. A failed command
  that took effect is the next step followed by the failure.

The properties are at the end of the module. What they are worth: the code
deletes in an order (geo and hash before expiry, compare before delete,
recheck before reap) that only matters when something else runs or fails
between two commands, which no unit test of a handler does.

## 4. The microservice launch

`MicroserviceLaunch.tla`. One action is one SQL statement, or one run of AWS
calls between two statements. Reading a row and deciding on it are one action;
what a request remembers of a row is in its own record, and may be stale when
it is used. Any request may die between two actions.

| State | In the code |
|---|---|
| `row` | the service's row of `microservice_clusters`: `launch_state`, `provision_state`, whether `service_arn`, `build_project` and `repository_uri` are set, `build_state`, `build_id`, `image_tag` |
| `cluster` | `provision_state` of the cluster that belongs to the service |
| `stale` | `updated_at` is older than `LAUNCH_STALL_SECONDS` |
| `aws`, `images`, `builds` | what ECS, auto scaling, CodeBuild and ECR have; the commit behind each tag; state, tag and commit of each build, 0 until it cloned and when it pushed nothing |
| `head`, `deliveries` | the tracked branch; pushes forwarded and not handled |
| `req` | every request: its step, what it claimed, what it remembers |
| `robbed` | history: requests whose claim was overwritten |
| `misled` | history: a live launch was overwritten by a writer that does not know whose launch it ends (`Overtakes`), the row was given another build's state, or a request died before the row named its build |

| Code | Actions |
|---|---|
| `createMicroservice`, `removeMicroservice` | `CreateMicroservice`; `ReadForRemove`, `RemoveRows` |
| `claimLaunch`, `launchMicroservice` | `ClaimLaunch`, `ReadForScaffold`, `EnsureCluster`, `RecordCluster`, `EnsureScaffold`, `RecordScaffold`, `LaunchBuildOrJoin`, `RecordBuilding`, `RecordFailed`, `RecordRunning`, `ClearLaunch` |
| `checkMicroservice`, `buildMicroservice` | `ReadForBuild`, `CheckSource`, `StartImageBuild`, `RecordBuild` |
| `refreshBuild`, `advanceLaunch` | `RefreshBuild`, `BuildStatus`, `RecordStatus`, `Reread`, `ClaimDeploy` |
| `deployMicroservice`, `rollbackMicroservice` | `ReadForDeploy`, `ReadForRollback`, `DeployService`, `RecordDeploy` |
| `stopMicroserviceBuild` | `ReadForStop`, `StopBuild`, `RecordStop` |
| `deprovisionMicroservice`, `deprovisionCluster`, `teardownMicroservice` | `DeleteService`, `DeleteProject`, `DeleteRepository`, `RecordDeprovision`, `ClusterIfUp`, `CheckClusterFree`, `DeleteCapacity`, `DeleteCluster`, `RecordClusterGone`, `Teardown`, `TeardownCluster` |
| `handlePushEvent`, `reconcileLaunches` | `HandlePushEvent`, `ReconcileLaunches` |
| CodeBuild, GitHub, Lambda (external) | `CloneSource`, `BuildSucceeds`, `BuildPushesNothing`, `BuildFails`, `GithubPush`, `Die`, `ClaimGoesStale` |

What is abstracted:

* One application, one service, with a cluster of its own, whose provisioning
  is one step here and call by call in `ClusterCapacity`. Editing the
  service, moving it to another cluster, restarting it, log settings and the
  event history are left out.
* CodeBuild's queued and in-progress states are one, `running`. CodeBuild
  keeps builds when their project is deleted, so a status is never missing.
* The image tag is the commit that was checked; the build clones the branch
  when it runs, which may be later.
* A build may succeed having pushed nothing (`BuildPushesNothing`;
  `provisioning.ts:689-691`, `755-759`). `refreshBuild` then stores a null
  `image_digest` beside `build_state = 'succeeded'`. No guard reads the digest,
  so it is not part of `row`: `deployMicroservice` (868-885) deploys the tag all
  the same, and `DeployedImageExists` has that as its exception.
* Log groups are left out: they are created with the build project and do not
  bill by existing.
* `ClaimGoesStale` waits until no request is running. `updated_at` has to be
  120 s old for a claim to be stale, and a Lambda of the admin API lives 30 s
  at most (`lib/msight-cloud-stack.ts`), so the writer of the row is gone; any
  request that is still running started later, has not written the row, and
  can be taken to start after it went stale.
* `ReconcileLaunches` is the part of the schedule that found work.
* The repository stays behind on purpose unless the request says otherwise.
* `misled` changes nothing: it marks the behaviours in which the row stops
  being a guide to what CodeBuild runs. `OneBuild` was once stated without it
  and held with room for two builds and three requests. With three builds and
  four requests TLC refutes it: a poll or the reconcile that saw the last build
  fail records `failed` over a launch that was claimed meanwhile, the next
  launch is granted a claim too, and both start a build. A status that arrives
  late and is written on another build's row has the same effect, as has a
  death between CodeBuild's answer and the UPDATE. The three are excepted, and
  `BuildsAreJoined` proves there is no fourth among launches, polls, checks,
  provisions, deploys, rollbacks, dismissals, cluster operations, pushes and
  reconciles.
* Calls to AWS fail at most `MaxErrors` times and requests die at most
  `MaxDeaths` times. A failing run of calls leaves any prefix of its effects
  that the code's order of calls allows.

## 5. Sensors, storage and the stack

### `SensorProvisioning`

One action is one SELECT, one listing, or one AWS call that changes something,
with the reads right before it. Any number of invocations of `converge` run at
once, and the reaper's beside them.

| State | In the code |
|---|---|
| `wanted` | the sensor's row: none, `streamingDesired` false or true |
| `queue`, `subscribed`, `service`, `serviceTag`, `taskTag` | SQS (with the tags that say whose it is), the SNS subscription, ECS and its cost tags |
| `pass` | each invocation of `converge`: what it read of the rows and of AWS, what is left to do, the sensor and the call it is at |
| `reaper` | the custom resource of the stack |

| Code | Actions |
|---|---|
| routes of `sensors.routes.ts` | `AddSensorRow`, `SwitchSensor`, `RemoveSensorRow` |
| `converge` | `StartPass`, `ListOwnedQueues`, `ListClusterServices`, `PickSensor` |
| `deleteSensorInfrastructure` | `FindQueue`, `Unsubscribe`, `StopSensorService`, `DeleteSensorService`, `DeleteSensorQueue` |
| `createSensorInfrastructure` | `CreateSensorQueue`, `SubscribeQueue`, `EnsureSensorService` |
| `convergeTags` | `TagQueue`, `TagService`, `RestartTasks` |
| `sensor-reaper` | `StackDeleted`, `PollReaper`, `PollFails` |
| failures, ECS (external) | `SensorCallFails`, `PassDies`, `ServiceDrained` |

A draining service may be missing from a listing (`Listings`), for `converge` as
for the reaper's poll: `PollReaper` completes when it is shown none, or more than
DescribeServices takes at once (`DescribeLimit`).

### `StorageWiring`

One action is one SQL statement or one S3 call. S3 has no call that changes
one rule of a bucket, so every writer gets the whole notification
configuration and puts it back; `rules` are those of ours on a bucket,
`foreignRule` stands for somebody else's. `addSensor`, `setSensorIngest`,
`removeSensor`, `addStorage`, `removeStorage` are requests, one statement at a
time; `reconcileNotifications` is a notifier. Two prefixes are either equal,
nested or apart, which is all the code asks of them (`Nested`). Deleting a
bucket's row fails while a sensor archives there; otherwise the foreign key
sets the bucket of the sensors that name it without archiving to NULL, which
overtakes whatever request has read one of those rows (`Overtake`).

### `DeploymentStack`

A group is a set of resources the stack declares together, and `Needs` is what
it refers to or has a declared dependency on, read off the constructs:
`WsApiNeeds`, `ReaperNeeds`, ... CloudFormation creates every group whose
needs are there and deletes every group nothing needs any more; the groups of
`Slow` take any time. The reaper's custom resource is polled: `PollReap` ends it
when the service is gone, `PollUnseen` when the poll did not see it, and
`ReapTimesOut` when half an hour is over. Beside it the running system goes on: passes of
`converge`, a sensor's queue and service, instances of a microservice cluster.
A pass that the schedule started outlives the deletion of its function.

## 6. The data path

### `FrameDelivery` and `SensorConsumer`

`FrameDelivery` says what a consumer owes each message: it waits, is held, and
ends delivered or discarded, once; one that could be delivered is discarded
only after a failure. `SensorConsumer` is `consumer.py`: batches from an SQS
FIFO queue, the merge buffer (`task[t].pending`), acknowledgement after
buffering, poison and skipped messages, receipts that time out while a task is
still at work on the batch (`expired`), a second task while ECS replaces one,
SIGTERM and kills. The refinement mapping `Fate` says for each message where
it is: broadcast, in some task's buffer, gone, or waiting; a message that was
deleted waits still while a task whose receipt has timed out is to process it
(`Gone`). A fragment published after a newer one by more than the window
(`Late`) is of no use to anyone, like a malformed one. `ImplementsDelivery` is
checked with this mapping and proved.

| Code | Actions |
|---|---|
| receive loop | `Receive`, `DeleteBatch`, `VisibilityTimeout` |
| `process_message` | `SkipMessage`, `BufferFirst`, `MergeFragment`, `DropStale`, `FlushAndBuffer`, `FlushRaises` |
| ECS, signals | `StartTask`, `Sigterm`, `Shutdown`, `TaskDies` |
| the sensor (external) | `Publish` |

### `SpatRateLimit`, `CriticalSpat`

`SpatRateLimit` is the two-per-second filter: one Lua script that compares a
capture time with the last that passed and replaces it. `CriticalSpat` is the
filter for changes: GET of the last message (`GetPrev`), comparison
(`Significant`: the phase, or the end of it when that is near), SET
(`SetPrev`), then the broadcast. Invocations overlap and overtake, and time
marks wrap with the hour.

### `CommandChannel` and `ValkeyClient`

`CommandChannel` is what callers rely on: commands settle in the order they
were sent, each once, with its own answer or an error, and every one in the
end. `ValkeyClient` is the client: the promise of a connection that is kept,
one command in flight, the reply that is taken to be its, the command's timer,
errors and close events of sockets that were given up long before. A step is
one callback of the event loop. `ImplementsChannel` is checked with `Outcome`
as the refinement mapping, liveness included.

### `ServicePage`, `AsyncLoad`

The page of one microservice keeps four reads going, each on its own clock;
the code after an await runs when the route, the tab or the log source may
have changed. `wire` holds the requests in flight. `AsyncLoad` is
`useAsyncValue`: one abort controller and one timer shared by all requests of
a value.

## 7. The control plane

### `ConfigTiers`

`_load_config` in both SPaT consumers: memory, then Valkey, then Aurora. A
value is the number of the edit of the tables it was read after, so "how old"
is a comparison with later edits. One action is one command or one query; a
claim in Valkey (`claim`) lasts less than a load may take, and a value that is
stale is put back in memory with a new life (`SharedStale`).

### `ClusterCapacity`

The row of a compute cluster and the ECS cluster, template, group and provider
behind it, a call per step: `ensureEcsCluster`, `ensureTemplate`,
`ensureGroup`, `ensureProvider`, `attachProvider`, and in the opposite order
`detachProvider`, `drainGroup`, `deleteProvider`, `deleteGroup`,
`deleteTemplate`, `deleteEcsCluster`. A call may be refused (`Refuse`: a
provider still attached, a group still scaling), fail, or be the last thing a
killed Lambda did. `normalizeCluster` decides what a form becomes.

### `GithubConnection`

The App's row, its secret, the installations, single-use intents, and the
transport container that signs with credentials it keeps. Two admins' requests
interleave, one call each: pasting credentials (`StartSave`, `PutSecret`,
`VerifySave`, `RecordApp`), the manifest flow, forgetting, installing,
removing.

### `RowBrowser`

Pages of a table along its primary key, on the console's side (`trail`,
`place`, `grid`, `asks`) and on the service's (`PageOf`), with other writers
at work, edits and deletes with their typed confirmation.

### `AdminApi`, `McpAccess`, `ConsoleAccess`

`AdminApi` is the table of every route of both admin Lambdas: method, path,
least role, the fields it requires and those it reads; the router's matching
(in order, 405 when only the method differs); the gateway's prefixes that
choose the Lambda; and `StatusOf`, what a caller gets for a request.

`McpAccess` has the tools twice, as `mcp-api/handler.ts` has them: `TOOLS` is
what is listed for whom, with which arguments, and `executeTool` which
requests each makes. Around it tokens are issued, presented, authorized
(`AuthorizerReads` and `Authorized` are apart, so an answer can be older than
a revocation), kept by the gateway (`cached`) and revoked.

`ConsoleAccess` has the console's `api` table, its pages with the role the
router opens each for and what each asks for, sign-in and token refresh
(`SignIn`, `currentSession`, `restore`), and user management a Cognito call at
a time (`groupsForUser`, `RemoveFromGroup`, `AddToGroup`, ...), with the
custom resource that seeds the master account on a deployment. The token, not
the account, decides what a request may do.

A field is a name; values, ranges and formats are left out. `Sent(call, full)`
is a request with only its required fields or with all it can carry, and
`Ignored` what the route takes no notice of. An answer is its field names: `enc`
gives what a tool makes of a field the answer does not have, which matters for
`query_logs`, the one tool whose second call is addressed by the first's answer.

## 8. Runs

| Run | Instance | Question | Answer |
|---|---|---|---|
| `registry` | a clean-up slot, two location requests, clock 0..2, and two clients, one connection and two failures, or one client, two connections and a broadcast without a failure | `IndexSafety` (`TypeOK` and `ExpiryOutlivesIndex`), `FreshClientKept`, `ReapedUnlessRaced`, `DeadRegistrationReaped` whatever fails; `RegistrationFindable`, `ReconnectNotWiped`, `ClosedUnregistered` in every interleaving | yes |
| `launch_serial` | one request at a time, five requests of every kind but stop, two builds, two commits, one failing call | `TypeOK`, `NothingStranded`, `RegistryTruthful`, `DeployedImageExists` | yes |
| `launch_joins` | one request slot and the reconcile, four launches, polls, provisions or deploys, pushes, room for three builds | `OneBuild`, `ClaimRespected` | yes |
| `launch_settles` | launch, check, poll, stop, a failing call and a death, fair | `LaunchSettles` | yes |
| `infrastructure` | a sensor with two overlapping passes, or one and the reaper; a bucket with two nested prefixes, two sensors, two requests and a pass; the stack with six slow groups and one redeploy; one failure each | `PassesDoNoHarm`, `RerunRepairs`, `TeardownSettles`; `StorageSafety`, `RestLeftAlone`, `WiringConverges`; `StackSafety`, `DestroyFinishes` | yes |
| `data_path` | five fragments of three frames, one of them poison, batches of three, two tasks, one failure; two SPaT invocations, hour of three marks, two changes; a 13-tick TTL with messages 7 late and one 6 ahead; four Valkey commands, three broken sockets; two services, two of a visit, a click and a lost read; three reloads | `ImplementsDelivery`, `ConsumerSafety`, `LossBounded`, `FlushedByNewer`; `HeldBackIsKnown`, `PhaseReachesVehicles`; `RateSafety`; `ImplementsChannel`, `ClientSafety`; `PageSafety`, `WatchedLaunchEndsUnlessLost`; `LoadSafety` | yes |
| `control_plane` | two containers, an edit and a failure; two requests on a cluster of four forms, or one with a failure, a kill or an edit; two Apps, three intents, two requests; three rows of two tables a page each, four turns, one other writer or failed read; two tokens of one name, two requests, clock to 7; two users, two requests, four edits, a failure, a token expiry or a deployment | `TiersSafety`; `ClusterSafety`, `RetryConverges`; `GithubSafety`; `BrowserSafety`; `AccessSafety` | yes |
| `launch_stranded` | one request at a time, launches and teardowns, one death | `NothingStranded` | no |
| `destroy_stuck` | the stack with a slow cluster and network, no failure and no redeploy | `DestroyNotStranded` | no |
| `load_settles` | three reloads, fair | `LoadSettles` | no |
| `github_mint` | two Apps, two requests, pastes with escaped newlines | `ConfiguredCanMint` | no |
| `rows_written` | two tables, four turns | `WritesHitTheRowShown` | no |

A property that holds in one run and not in another is meant so: its passing
run names the conditions under which the code delivers it, the other one shows
what takes it away. `NothingStranded` survives a failing AWS call but not a
dying Lambda.

A few properties carry their exceptions in the statement, each a way the code
is known to fall short, so that what is left can be relied on:
`DeployedImageExists` (`NeverPushed`), `RerunRepairs` (two shapes no pass
sees), `WiringConverges` (nested prefixes that crossing requests wrote), `FlushedByNewer` (a failure or a second task),
`HeldBackIsKnown` (phases that end within the hour, no overlap), `SettingsLead`
(the cost entry), `ListedToolsWork` (`ListedTooLow`, `WrongFields`,
`PartlyIgnored`, `MisreadAnswer`), `NotStranded` and `DestroyFinishes` (a poll
that did not see the service, `early`), `ClosedUnregistered` (after a failure,
`DeadRegistrationReaped` takes over), `GrantsKeepTheirApp` (no two requests at a time, no paste,
none signed with credentials that were replaced; it holds between any two
calls and after a request that was stopped), `OneBuild` (`misled`),
`NothingOutlives` (of the queue only, after two failures).

### Bounds

* `ClientRegistry`: two connections of one client are the least for a
  reconnect, and what a third one could do it can do to one of the two: the
  code compares one registered connection with one other. Two location
  requests give one to expire and one to race its reaping; a clock of 0..2
  with TTL 1 lets an entry expire, be reaped and be written again. A clean-up
  slot is used again after each pass. Two failures let a lost `$disconnect`
  meet a failed pass. Keys of different clients never meet; the part with
  failures has two clients for the one thing they share, a pass that works
  through a list. The part with two connections and a broadcast has no
  failures, and its broadcasts do not overlap a second location request
  (`MCClientRegistry`).
* `MicroserviceLaunch`: `MaxOps` counts console requests; pushes and the
  reconcile come on top. Two builds and two commits let one build's status
  land on the other's row and a push fall on either side of a clone; a third
  build and a fourth request let a late failure of the first be recorded over
  the launch that starts the second while a third is asked for. One failure
  and one death each hit any step.
* `SensorProvisioning`: sensors do not share anything in AWS, so one shows
  what overlapping passes do to it; two edits take it off and on again.
  With `DescribeLimit` 1 one service does not exceed what DescribeServices
  takes; that more than that end the poll early is what `PollUnseen` stands
  for in the stack.
* `StorageWiring`: a conflict needs two prefixes, two sensors and two
  requests; the second request only edits a sensor (`StoragePart`).
* `SensorConsumer`: three fragments of one frame, then two newer frames: one
  to flush it, one to flush that. Two tasks are as many as ECS runs.
* `CriticalSpat`: `Hour` 3 and `TimingWindow` 2 make the wrap reachable.
* `ConfigTiers` in `control_plane`: `LockTtl` is at most `LoadTime`, so a claim runs out under a
  load. With one centre a stale one never joins an absent one; the proof has
  any number.
* `McpAccess`: `Clock` 7 exceeds `AuthTime + CacheTtl + RunTime` after a token
  of life 1 by enough to see one run too long. `McpPart` lets tool calls and
  overlapping tokens happen in different behaviours, since they touch no
  common state but the token's role.
* `ConsoleAccess`: `Days` 2 with `TokenLife` 1 lets a token outlive the role it
  carries. `ConsolePart` keeps the tour of the pages apart from user
  management for the same reason.
* What an `MC` module says about combinations (`Overlapping`, `Disturbed`,
  `GithubPart`, `BrowserPart`, `PagePart`) are bounds too: two requests
  overlap, or one meets a failure, not both.

`CHECK_DEADLOCK FALSE` is set because the bounded systems do stop: with no
requests, pushes, clock ticks or edits left, nothing is to be done.

### Symmetry

`AnyContainer` permutes the containers of `ConfigTiers`, which no definition
tells apart. It is used in `control_plane`, whose temporal properties are
safety properties (`[][A]_v` and `[]P`) of other components.

### Fairness

* `ClientRegistry!Fairness`: time passes; an invocation that has started runs
  on to its answer; EventBridge keeps starting `expiration-cleanup` every
  minute. A failing command or a death is never fair, and nothing is assumed
  of clients or broadcasts. Weak fairness is enough, as a step of an
  invocation stays enabled until it is taken.
* `MicroserviceLaunch!Fairness`: a request runs on unless it dies; time
  passes (`ClaimGoesStale`); EventBridge runs the reconcile every five
  minutes; CodeBuild ends every build, by its own timeout if need be; a
  forwarded push is handled. Nothing is assumed of operators: `LaunchSettles`
  holds when nobody ever polls.
* `SensorFairness`: the schedule starts passes and a pass runs on; ECS drains
  a deleted service; the provider framework polls the reaper.
  `StorageFairness`: requests and passes run on. `StackFairSpec`:
  CloudFormation, the provider's poll and ECS get on with their work; nobody
  has to deploy or destroy, and no poll has to overlook a service.
* `ConsumerFairness`: a task runs on, ECS keeps one running and stops the one
  it replaces, visibility timeouts pass. `SpatFairness`: SNS delivers the
  signal's messages, handlers run, keys expire. `ClientFairness`: the event
  loop runs what is queued and its timers fire; a peer need not answer.
* `PageFairSpec`: builds end, requests are answered, replies are handled,
  timers fire. `LoadFairSpec`: timers fire and settled promises run; nothing
  makes a server answer, which is what a timeout is for.

In an `MC` module each of these is stated for the behaviours that run its
part.

### Mutants

Next to the definitions they replace stand `Mut...` operators: the same
action with one bug (an unconditional HDEL, the two ZREMs swapped, no recheck,
a claim without its WHERE, a queue owned by its name, a buffer that an old
fragment replaces, a socket left as it is after a timeout, an intent read
before it is deleted, a guard against demoting oneself that forgets the role
change, ...). `PROJECT.json` says which property catches which.

## 9. Proofs

Each module of proofs EXTENDS the module it is about. A theorem holds for every
value of the constants - any numbers of clients, connections, requests, builds,
containers, commands, failures and deaths - that meets the ASSUME of its module
(see the end of this section). Every property proved is also checked by a
run; what is added to make it inductive is named here, with one lemma for each
action that can disturb it.

`ClientRegistryProofs`:

* `TypeCorrect`. `TypeOK` is not inductive: a step of `ws-connect` writes
  `owner[c]` into the lookup, which has to be a client. `TypeInv` adds that
  (`OwnerBound`), and that a pass that is reaping has a client (`CurBound`).
* `ExpiryLast` (`IndexSafety`) and `FreshKept` (`FreshClientKept`).
  `IndexInv` adds `ReapOrder` - a client being reaped and not upserted since
  has an expiry in the past, no location fields once the hash is deleted, and
  no geo entry when only the expiry is left - and `CutoffPassed`. The order
  of the deletes in `cleanupExpiredClient` is what makes it inductive.
* `DisconnectFindsIt` (`RegistrationFindable`) and `ReconnectSafe`
  (`ReconnectNotWiped`). `RegistrationInv` has four parts:
  `SocketLifecycle` (a socket, its `$connect` and its `$disconnect` are in
  step), `RegistrationOwned` (only a client's own connections are registered
  under it), `ReapedConnectionOwned` (so are those a pass closes) and
  `LookupWritten` (the lookup is there from the SET on, or a pass that deleted
  it is about to delete the registration too).

`MicroserviceLaunchProofs`:

* `LaunchTypeCorrect`.
* `ClaimIsRespected` (`ClaimRespected`). `IInv` adds to the type invariant
  what a request can hold at each step (`SessionsOK`) and `HoldersOK`: a
  request with a claim nobody has overwritten finds its claim on the row, and
  the row is not stale. `OnlyClaimsClaim` shows that no action but `ClaimLaunch`
  and `ClaimDeploy` hands out a claim, and their guards contradict
  `HoldersOK`. The steps of a request are proved in groups, by what they do to
  the row (`QuietStep`, `QuietRead`, `QuietUpdate`, `LaunchWritten`).
* `BuildsAreJoined` (`OneBuild`), for any number of requests, reconciles,
  builds, failures and deaths, where builds are started by launches
  (`Joining`: not `build`, `stop`, `deprovision` or `teardown`, which build or
  forget without a claim; two `build` requests that both read the row first do
  start two builds). `JoinInv`: builds are started by requests that hold a
  launch and have read the row since (`RequestsJoin`, `RobbedHold`, `RowThere`),
  and, unless the row was misled, one request holds a launch (`OneLaunch`), what
  runs is on the row or about to be written there (`BuildShown`), and nothing
  runs while a request is about to start a build (`StartsAlone`).
* `NothingIsStranded` (`NothingStranded`), `RegistryIsTruthful`
  (`RegistryTruthful`) and `OnlyImagesDeployed` (`DeployedImageExists`), for one
  request at a time and no deaths (`OneAtATime`) and otherwise any operations,
  builds, pushes and failed calls. `SerialInv` bounds what the rows may deny at
  each step of the request: `RowTells` (what the row and the cluster's state
  say of AWS, but for the UPDATE the request is about to make), `CallsTell`
  (what the request knows of its own calls) and `TagsTell` (a tag that is to be
  deployed has an image, because the build the row names pushed it or only
  claims to have: `Imaged`). The
  hypothesis is not for the proof's convenience: `launch_stranded` refutes the
  first with a death, and overlapping polls refute the last.

`SensorConsumerProofs`:

* `InOrderAndOnce` (`ConsumerSafety`): the frames a task broadcasts are each
  newer than the one before by more than the window, and while nothing fails
  no fragment is broadcast twice. `ConsumerInv` adds to the types the place of
  each task in its loop (`LoopState`), that SQS hands out in order
  (`QueueState`), that the buffer holds the first fragment's time
  (`BufferState`), that it is newer than what the task has broadcast
  (`OrderState`), and, while nothing fails (`CalmState`), that one batch is out
  (`OneBatch`), that what has been buffered is before what is to come
  (`Ahead`) and that every fragment is in one place once (`Apart`).
* `ConsumerIsADelivery` (`ImplementsDelivery`), the refinement of
  `FrameDelivery`: initial states map to initial states, and each action - a
  poll, a fragment merged, a flush, a receipt that times out, a kill - to a step
  or a stutter under `Fate`. The attempt found two steps the model had wrong (a
  message deleted under a task that still had to process it, and one published
  too late); both were corrected there.
* `FailuresCostTwoFrames` (`LossBounded`). `LossInv` names the frames failures are
  charged with, a set of times that grows by one when a task dies and by two
  when a broadcast raises. Every other message is held, was broadcast, or waits
  (`Waits`): it is in the queue, and no task has gone past it, neither in its
  buffer nor in its batch. That a batch is the front of the queue
  (`BatchIsFirst`) keeps it so, and that is why a message dropped as stale came
  late or is on a failure's account. The theorem is about streams in which the
  fragments of a frame have one time (`OneTimeAFrame`), as the property is; a
  receipt that times out and a delete that fails turn out to cost nothing.

`SpatProofs`:

* `HeldBackOnlyIfKnown` (`HeldBackIsKnown`), an action property of
  `CriticalSpat`. While invocations do not overlap and nothing fails, at most
  one is under way (`OneAtATime`), and what Valkey remembers is what vehicles
  were told last, or what is about to be broadcast (`RememberedWasSent`); so
  each message is compared with what is on display and small shifts do not add
  up.
* `TwoASecond` (`RateSafety`). `PassedBefore` relates every capture time
  that has passed to the one the script has kept and to the age of its
  key, `SilenceKnown` the silence to both.
* `OldValuesEnd` (`TiersSafety`), of `ConfigTiers`. Each place a value can be in bounds how long
  ago the value was replaced: a load by the time it has taken (`LoadAge`),
  Valkey by `LoadTime + HardTtl` less the life the value has left there
  (`SharedAge`), memory by that and the longest life in memory, less what is
  left (`MemoryAge`). A tick moves both sides of each bound by one, and a copy
  starts within the bound of the place it goes to. `ServedBound` is the last
  of them and one more load. `AllAtHand` (a centre found fresh has `MaxStale`
  left when the load begins, and `LoadTime <= MaxStale`) gives
  `CentersAtHand`, and `WonIsHeld` (who won the claim holds it for at least as
  long), for each of the two caches, with `LoadsDecided` (a load that queries
  has a reason to) gives `ReloadsAreClaimed`. That says less than "one container
  per TTL", which the code does not do (section 10).

`EventLoopProofs`:

* `ConnectionsBounded` (`ClientSafety`). `ClientInv` says which connection
  owes which command an answer (`OwesOne`), that one has a command in flight
  (`OneBusy`), that results come in the order of the commands (`InOrder`), that
  connections and buffers are no more than the commands made them (`Counted`),
  and bounds the connections nobody keeps by the sockets whose close event has
  come (`LooseBounded`).
* `ClientIsAChannel`. From the same invariant: the initial states of
  `ValkeyClient` are those of `CommandChannel`, and each callback - a reply, a
  timeout, a close event of a socket given up long ago - is a step of the
  channel or a stutter under `Outcome`.
* `PageShowsItsService` (`PageSafety`). `RequestsOK` and `ViewOK` type what
  is on the wire and on screen; the rest is that each handler compares what it
  asked for with what is open now (`Wanted`) before it takes an answer over.
* `NewestShown` (`LoadSafety`), with `ShownWasAsked`: an outcome is on screen
  only once a request was made.

`ControlPlaneProofs`:

* `HandshakesOnce` (`GithubSafety`). `IntentsFresh`: an intent that is still there
  was never accepted and is alone under its token. `GhCalm`: while no two
  requests overlapped, none was a paste and none signed with replaced
  credentials, nothing is recorded where the key is about to be replaced or
  cleared, and what is about to be recorded is of the App whose key is stored.
* `RowTellsTheTruth` (`ClusterSafety`) and `AttemptsConverge` (`RetryConverges`,
  an action property). `UnhitIsAlone`: a request that met nothing of its own is
  the only one under way and has made (`BuiltUp`) or taken away (`TakenDown`)
  everything before its next call, whatever attempt it started from.
  `ClusterCalm`: while no two requests overlapped and none was stopped, a
  request knows the row (`RowIsKnown`) and the row is true to AWS unless a
  request that moves the capacity is under way (`RowIsTrue`, `Bare`).
* `PagesShowAll` (`BrowserSafety`). `AsksKnown`, `GridKnown` and `ShownBefore`
  say which rows an answer on its way and the grid can hold for the cursor they
  were asked with; `FirstAndLast` is the lemma about the ends of a page.

`InfrastructureProofs`:

* `NestedOnlyIfCrossed` (`StorageSafety`). `StorageInv`: a request past its
  check that nobody overtook would pass it again (`StillFree`), an edit holds
  what the row has in the fields it was not given (`StillKnown`), and of two
  sensors whose prefixes nest one was written by a request that was overtaken
  (`CrossedPairs`). The attempt found that deleting a bucket's row had to
  overtake requests too.
* `RestIsLeftAlone` (`RestLeftAlone`), two action properties, from the same
  invariant.
* `ConvergeDoesNoHarm` (`PassesDoNoHarm`): types and two action properties.
  `PassOK` says what a pass that is past its listings may delete: queues that
  were ours then, and are still, of sensors the rows did not ask for.
* `DestroyLeavesNothing` (`StackSafety`). `StackInv`: what exists is closed
  under what the reaper needs (`Supported`), the stages of the deployment, of
  the reaper and of the destroy (`DeployCounts`, `ReapStage`, `DestroyStage`,
  which counts what one and two failures let stay, and follows a poll that did
  not see the service). The attempt found that two failures may leave the queue,
  which the property now says. That a destroy without a failure gets stuck only
  behind such a poll is part of it; that such a poll happens is `destroy_stuck`.

`AccessProofs`, of `McpAccess`, `ConsoleAccess` and the way `MCControlPlane` runs
them:

* `AccessIsSafe` (`AccessSafety`), from the next three: each step of
  `ControlNext` is a step or a stutter of `McpNext` and of `ConsoleNext`
  (`ControlSteps`), whatever the limits on combinations, so what the two
  components keep is kept.
* `DeadTokensAreStopped` (`McpSafety`). A role is believed in three places: what
  an authorizer has read (`Judging`), the answer the gateway keeps (`AnswerOK`)
  and the role a server was started with (`Serving`). Each bounds how long ago
  the token may have died by the time that can be spent in it and the places
  before it; a denial is bounded in the same way by the failure that caused it
  (`TurnedAway`). `StillDead`, `RevokingKillsNow` and `TimeKillsNow` say how the
  time of a token's death can change: it is set once, to now.
* `FormerAdminsAreStopped` (`ConsoleSafety`). `Believed` relates what a token says
  to when the role was lost: a token with the admin group was issued before, so
  `BeginUserRequest` lets nobody in after a token's life (`Recent`). `Working` and
  `Apart`: an assignment that is alone on its account removes groups the account
  has and leaves the one it assigns, which gives `OneGroup`.
* `NoAdminLocksOut` (`LastAdminTaken`), an action property. Three Cognito calls
  can end a role, each on the account its request is about (`TakenBy`), and
  `refuseSelf` keeps that account from being the caller's, except where the
  request creates it.

Of every constant the proofs assume what its module's ASSUME says, and TLC
evaluates it on the module's run. Three are more than types and bounds. `TierConstants`: a
longest refresh delay exists, the soft life in Valkey is within the hard one,
and a load is over within the grace of the memory tier, as the handlers'
settings have it. `RateConstants` has the key outlive the lateness it is meant
to cover. `ConsumerConstants` has fewer poison messages than a batch takes. The
theorems on one request at a time, on joined builds and on what a failure costs
have their hypothesis in the ASSUME of the theorem.

Four assumptions are about no constant: `ToolTable`, `PageTable`, `SettingsTable`
and `UserTable` compare the tools and pages with the routes of `AdminApi`, entry
by entry. They are closed formulas over finite tables, so a run of TLC decides
them once and for all; the provers cannot, as the tables are put together with
`@@` and searched with `SelectSeq`. What is proved from them is what needs a
proof: that the page on screen and the role of a token stay such that the
table applies. They hold of this code's tables and say nothing of others.

Only model-checked:

* liveness (`ReapedUnlessRaced`, `ClosedUnregistered`,
  `DeadRegistrationReaped`, `LaunchSettles`, `RerunRepairs`,
  `TeardownSettles`, `WiringConverges`, `DestroyFinishes`, `FlushedByNewer`,
  `PhaseReachesVehicles`, `WatchedLaunchEndsUnlessLost`), and the fairness half
  of `ImplementsChannel`: reasoning about fairness needs ENABLED, which the
  prover does not handle;
* the four tables of the last paragraph, which are evaluated.

## 10. Where the code and its documents disagree

With a run whose counterexample is the schedule described:

* `launch_stranded`: a provision that dies before its UPDATE leaves a cluster
  that teardown does not look for.
* `destroy_stuck`: the reaper's `isComplete` (`sensor-reaper/handler.ts:117-120`)
  asks only for the services ListServices returns. ECS need not return one that
  drains, and `converge` allows for that. With more than ten services its one
  DescribeServices is refused (`sensor-infrastructure.ts:532` knows the limit and
  batches), and the catch at 135-145 answers complete. `handler.ts:100-104` and
  `lib/msight-cloud-stack.ts:2707-2710` say it polls until the services are
  INACTIVE. In the run no call fails: a poll does not see the draining service,
  and the deletion of the cluster is refused.
* `load_settles`: `useAsyncValue.ts` has one timer for all requests of a
  value. A request that was superseded clears it when it ends, although it is
  the newest one's, and the spinner then turns for as long as the server
  leaves it.
* `github_mint`: `saveApp` puts pasted credentials into Secrets Manager before
  it verifies them. When an App is already recorded, a refused paste leaves a
  connection that is shown as configured and cannot sign.
* `rows_written`: another table is opened and its rows are slow; the grid
  still shows the rows of the table before, and an edit or a delete goes to
  the new table.

Met on the way, described here and contained in the models, without a run:

Registry and launch

* Two overlapping `$connect`s of one client do not close each other; closing
  the registered one leaves the other open and unreachable.
* An upsert between the two ZREMs of a pass leaves a client in the geo index
  without an expiry.
* A broadcast between the HSET of `ws-connect` and its answer gets Gone and
  unregisters the connection that is about to open.
* A client that reconnects between the HMGET of a pass and its DEL loses the new
  registration with the hash, while the socket stays open (`ReconnectNotWiped`
  leaves out what a pass deletes).
* An upsert between the recheck and `DEL client:<id>` or `ZREM geo:clients`
  loses the location just reported; a pass deletes the hash before the geo
  entry, so a reader can find a client that has no hash.
* `recordLaunch` overwrites a claim, and a second request is granted one; with
  room for a third build two builds then run at once, which
  `provisioning.ts:1652` means to rule out ("rather than a reason to start a
  second").
* `deployMicroservice` refuses a service without an image because its tasks
  would "fail to pull and retry forever" (`provisioning.ts:842-844`), and goes by
  `build_state`. `refreshBuild` knows a build can succeed having pushed nothing
  (689-691, 755-759) and stores the missing digest, which nobody reads: such a
  build is deployed. Without its exception `DeployedImageExists` is refuted by a
  provision, a build, a poll and a deploy, one after the other.
* A slow poll marks the next build as succeeded, and its image is deployed
  before it is pushed (TLC refutes `DeployedImageExists` on the instance of
  `launch_joins`); two overlapping polls both record one outcome.
* A push during a launch is dropped although the build has cloned; a push
  between check and clone puts the new commit behind the old one's tag.
* `deprovisionMicroservice` clears `service_arn` although `deleteService`
  failed, after which `deprovisionCluster` takes the capacity from under the
  running service.
* A relaunch after a deploy that failed behind `ensureService` writes
  `scaffolded` for a service that runs; a failing `stopBuild` is recorded as
  `stopped`; a rollback while a build runs replaces the tag the build will be
  deployed under.

Sensors, storage, stack

* `converge` says re-running repairs partial failures. A queue and a service
  that are both listed while the subscription is gone are left as they are,
  and so is a service without a queue (`RerunRepairs` excludes both).
* Two requests for nested prefixes on one bucket can both pass
  `assertPrefixAvailable`; S3 then refuses the bucket's whole configuration.
* `storage-infrastructure.ts:482` says notifications are bucket-wide; the code
  below writes one rule per prefix.
* `lib/msight-cloud-stack.ts:2743` speaks of a 30 minute schedule, `:2791`
  sets five minutes. `:2758` says the build id changes with every deploy;
  `computeBuildId` hashes only TypeScript sources, so a deploy that changes
  Python alone starts no converge. The comment near `:2404` says
  `ecs:ListServices` was dropped from the conditioned statement, which still
  has it (`:2190`).
* A redeploy gives sensors that exist no new task definition. A destroy does
  not look for the instances of microservice clusters, and gets stuck on the
  cluster while they run (`NotStranded`).

Data path

* A frame is deleted from the queue when it is in the buffer: a crash loses
  one that no redelivery brings back. It is broadcast when a newer one comes:
  the last frame of a quiet stream stays in the buffer.
* A phase that ends after the top of the hour seems to have ended long ago,
  and a shift of its end goes unnoticed (`HeldBackIsKnown` excludes it).
* `msight_config_cache.py:43` gives `ttl_s * (1 + jitter)` as the time an edit
  takes to show. `_load_config` gives what it reads from Valkey a whole new life
  in memory, so the lives of the two tiers add up even when nothing fails: with
  the handlers' times TLC finds a value served two minutes after it was
  replaced, where the comment allows 75 s. `ServedBound` is what holds.
* `release_refresh` deletes the lock whoever holds it, so two containers can
  reload at once after a failure (`ReloadsAreClaimed` counts claims while nothing
  fails).
* `_load_config` says that with Valkey in front "exactly one container per TTL
  goes to the database for the whole fleet" (`spat-sns-consumer/handler.py:297-298`,
  `critical-spat-sns-consumer/handler.py:405-406`). What is absent from Valkey is
  queried without a claim, so cold containers all go at once; stale centres join
  such a query without one (handler.py:343-344); the app list and the centres
  have a claim each; and a claim lives 10 s where a load may take 30.
  `ReloadsAreClaimed` is what is left of it.
* `valkey-client.ts:90` compares a length in bytes with the length of a
  JavaScript string: a reply with a character outside ASCII never completes.
* `loadCapacity` of the service page does not compare its answer with the
  route and may show the capacity of the service before; a failed log read of
  the source that was left wipes the lines of the one shown.

Clusters, GitHub, rows

* An edit while a cluster is being provisioned leaves it shown as provisioned
  with settings nobody applied, because `updateCluster` marks drift by the
  state it read before; and `ensureProvider` leaves a capacity provider that
  exists as it was created, although `provisioning.ts:205` says a repeated run
  converges.
* `assertVramFits` reads the reservations and the caller writes one: two
  services can both pass.
* Forgetting or replacing the App while installations of it are recorded
  leaves rows of an App whose key is gone; the webhook receiver keeps the old
  secret until its container is recycled.
* `SET LOCAL statement_timeout` outside a transaction (`aurora.ts:47`) has no
  effect.

MCP and the console (`ListedToolsWork`, `SettingsLead` and `OneRoleEach` state
what remains)

* `list_microservices` and `list_alarms` are listed for viewers; their routes
  ask for an operator.
* `set_log_retention`, `set_valkey_ttl`, `update_aurora_row`, `create_cluster`
  and `update_cluster` send other fields than the route requires;
  `get_cost_by_service` never sends a service; `register_storage` without
  `create`, and `list_clients` and `search_clients_nearby` without the `app_id`
  their schema calls optional, are refused.
* `clear_microservice_logs`, `deprovision_microservice` and
  `create_microservice` send something the route takes no notice of (which
  log, the delete flags, the cluster's name).
* `query_logs` reads `started.queryId` (`mcp-api/handler.ts:1403`, 1408); the
  route answers `query_id` (`admin-api/services/logs.ts:214`,
  `shared/schemas/admin.ts:316`). It polls `/v1/admin/logs/query/undefined`,
  so no query's result ever reaches the caller. `test/mcp-parity.test.ts:79` says
  the tool stops its own query; no tool makes that call.
* Not in the model, as it is inside a handler: `LogGroupsResponseSchema`
  (`shared/schemas/admin.ts:302`) allows five categories, and
  `admin-api/services/logs.ts` answers two more, `microservice` and `build`, so
  listing the log groups fails once there is a group of either.
* An authorizer's failure is kept as a denial for five minutes. A token keeps
  its role when the person who issued it is demoted. A caller through MCP is
  called `mcp:<name>`, so what a person may not do to their own account, their
  token may. A token that has expired and was not revoked keeps its name.
* `cognito.ts:75` says a user holds exactly one role group. An assignment that
  fails half way leaves none, two that overlap can leave two, and
  `admin-bootstrap` adds a group without taking any. It does not enable a
  master account that was disabled either.
* The settings list shows the cost entry to operators; the page is for admins
  and sends them back to the overview.
* Two admins whose tokens are fresh can demote each other until none is left,
  and a deleted admin can create their own account anew, for as long as a token
  lives.

## 11. What is not modelled

* `ws-send`, `radius-broadcast-api`: wrappers around the sender and the
  broadcaster, with no state of their own.
* `maps`, `apps`, `clients`, `valkey`, `metrics`, `alarms`, `cost`, `network`,
  `cache-debug`, `latency-api`, `system-api`: single statements or reads. Their
  routes, roles and fields are in `AdminApi`; what they compute is not.
* The checks of the forms and the requests' value ranges: `normalizeScaling`,
  `normalizeRepoPath`, `interpretInspection`, the wizard of
  `MicroservicesPage.vue`. `normalizeCluster` is modelled.
* The signature check and the cached secret of `github-webhook`: a delivery
  arrives at `HandlePushEvent` as one that was accepted.
* The bodies of the console's pages apart from their requests, and of
  `MicroservicePage`, `AuroraPage` and `useAsyncValue`, which are modelled;
  layout, charts, formatting.
* The OpenAPI text, naming and tagging, log retention: tables and wording.
* The vendored V2X decoder, which the sensor consumer calls: here a message is
  decodable, skipped or poison.
