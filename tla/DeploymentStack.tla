--------------------------- MODULE DeploymentStack ---------------------------
(***************************************************************************)
(* The CloudFormation stack (lib/msight-cloud-stack.ts), as the graph of   *)
(* its resources and what a create, a failed create, a redeploy and a      *)
(* destroy do with it, together with what the running system adds behind   *)
(* CloudFormation's back: the queue and the service of a sensor, and the   *)
(* instances of a microservice cluster.                                    *)
(*                                                                         *)
(* A group is a set of resources the stack declares together; `Needs` is   *)
(* what a group refers to or declares a dependency on.  CloudFormation     *)
(* works in waves: it takes every group it may, except that the groups of  *)
(* Slow may take any time.                                                 *)
(***************************************************************************)
EXTENDS Integers

CONSTANTS
  Slow,         \* groups whose creation and deletion time is arbitrary
  Deploys,      \* bound: deploys after the first
  StackFaults   \* bound: failed resources, AWS calls and polls

VARIABLES
  stack,        \* absent, creating, rollback, up, deleting, stuck, gone
  live,         \* groups that exist
  stackQueue,   \* the sensor's: "none", "here", "cooling" (just deleted)
  stackService, \* its ECS service: "none", "running", "draining"
  sensor,       \* BOOLEAN: the database has the sensor's row
  hosts,        \* BOOLEAN: a microservice cluster has instances
  stackPass,    \* a converge: "idle", or the queue it saw: "saw", "missed"
  reap,         \* the reaper's Delete: "none", "polling", "done"; "early" when it
                \* was reported complete over a service the poll did not see
  stackFaults,
  deploys,      \* deploys that ended
  invoked,      \* how many of them ran a converge
  had           \* history: the queue existed when the destroy began

runtime   == <<stackQueue, stackService, sensor, hosts, stackPass>>
stackVars == <<stack, live, stackQueue, stackService, sensor, hosts, stackPass, reap,
               stackFaults, deploys, invoked, had>>
counts    == <<deploys, invoked>>

-----------------------------------------------------------------------------
(* What each group refers to. *)
NetworkNeeds == [network |-> {}, endpoints |-> {"network"}]
StoreNeeds   == [cache |-> {"network"}, database |-> {"network"}]

ClientNeeds ==
  [clientLambdas |-> {"network", "cache", "wsApi"}, publicLambdas |-> {"wsApi"}]
ReadNeeds ==
  [readLambdas |-> {"network", "cache", "database", "wsApi"}]
ClientApiNeeds ==
  [httpApi   |-> {},
   httpRoutes |-> {"httpApi", "clientLambdas", "readLambdas"},
   sensorApi |-> {"publicLambdas"}]
WsApiNeeds ==
  [wsApi    |-> {},
   wsRoutes |-> {"wsApi", "clientLambdas"},
   cleanup  |-> {"network", "cache", "wsApi"}]

TopicNeeds == [topics |-> {}]
LayerNeeds == [layer |-> {}]
ClusterNeeds ==
  [cluster  |-> {},
   template |-> {"cache", "database", "wsApi"}]
SpatNeeds ==
  [spat |-> {"network", "cache", "database", "layer", "topics", "clientLambdas"}]

ConsoleNeeds ==
  [site     |-> {},
   userPool |-> {}]
MasterUserNeeds == [masterUser |-> {"userPool"}]
AdminApiNeeds ==
  [adminLambda |-> {"userPool", "httpApi", "sensorApi", "wsApi", "site", "topics"},
   adminApi    |-> {"userPool", "site"}]
RoleNeeds == [roles |-> {"database", "topics", "wsApi"}]
GithubNeeds ==
  [secret       |-> {},
   githubLambda |-> {"secret"}]
WebhookNeeds == [webhook |-> {"secret", "vpcLambda", "httpApi"}]
VpcLambdaNeeds ==
  [vpcLambda |-> {"network", "cache", "database", "topics", "cluster", "template",
                  "site", "githubLambda", "secret", "httpApi", "roles", "wsApi"}]

\* MUTANT: without the addDependency calls the reaper refers to nothing.
MutReaperNeeds == [reaper |-> {}]
ReaperNeeds == [reaper |-> {"cluster", "topics", "template"}]
ReconcileNeeds ==
  [deployPass |-> {"vpcLambda", "template", "cluster"},
   schedule   |-> {"vpcLambda"}]
RouteNeeds == [adminRoutes |-> {"adminApi", "vpcLambda", "adminLambda"}]
McpNeeds ==
  [mcp |-> {"network", "database", "vpcLambda", "adminLambda", "adminApi"}]
AccessLogNeeds == [accessLogs |-> {"httpApi", "sensorApi", "adminApi"}]

Tables ==
  {NetworkNeeds, StoreNeeds, ClientNeeds, ReadNeeds, ClientApiNeeds, WsApiNeeds,
   TopicNeeds, LayerNeeds, ClusterNeeds, SpatNeeds, ConsoleNeeds,
   MasterUserNeeds, AdminApiNeeds, RoleNeeds, GithubNeeds, WebhookNeeds, VpcLambdaNeeds,
   ReaperNeeds, ReconcileNeeds, RouteNeeds, McpNeeds, AccessLogNeeds}

Groups   == UNION {DOMAIN t : t \in Tables}
Needs    == [g \in Groups |-> (CHOOSE t \in Tables : g \in DOMAIN t)[g]]

ASSUME StackConstants == StackFaults \in Nat /\ Deploys \in Nat /\ Slow \subseteq Groups

-----------------------------------------------------------------------------
StackTypeOK ==
  /\ stack \in {"absent", "creating", "rollback", "up", "deleting", "stuck", "gone"}
  /\ live \subseteq Groups
  /\ stackQueue \in {"none", "here", "cooling"}
  /\ stackService \in {"none", "running", "draining"}
  /\ sensor \in BOOLEAN /\ hosts \in BOOLEAN /\ had \in BOOLEAN
  /\ stackPass \in {"idle", "saw", "missed"}
  /\ reap \in {"none", "polling", "done", "early"}
  /\ stackFaults \in 0..StackFaults
  /\ deploys \in 0..Deploys + 1 /\ invoked \in 0..deploys + 1

StackInit ==
  /\ stack = "absent" /\ live = {}
  /\ stackQueue = "none" /\ stackService = "none" /\ sensor = FALSE /\ hosts = FALSE
  /\ stackPass = "idle" /\ reap = "none" /\ stackFaults = 0 /\ had = FALSE
  /\ deploys = 0 /\ invoked = 0

StackFault == stackFaults < StackFaults /\ stackFaults' = stackFaults + 1

\* What a converge that reads the rows and lists AWS now goes on to do.
Seen(row) == IF ~row THEN "idle"
             ELSE IF stackQueue = "here" /\ stackService # "none" THEN "saw" ELSE "missed"

-----------------------------------------------------------------------------
(* CloudFormation creates, and deletes again when a resource fails. *)
Deploy ==
  /\ stack = "absent" /\ stack' = "creating" /\ invoked' = 0
  /\ UNCHANGED <<live, runtime, reap, stackFaults, deploys, had>>

Creatable == {g \in Groups \ live : Needs[g] \subseteq live}

\* One wave; reaching deployPass invokes a converge that nobody waits for.
CreateWave ==
  /\ stack = "creating" /\ live # Groups
  /\ \E late \in SUBSET (Creatable \cap Slow) :
       /\ late # Creatable
       /\ live' = live \cup (Creatable \ late)
       /\ IF "deployPass" \in live' \ live
          THEN stackPass' = Seen(sensor) /\ invoked' = invoked + 1
          ELSE UNCHANGED <<stackPass, invoked>>
  /\ UNCHANGED <<stack, stackQueue, stackService, sensor, hosts, reap, stackFaults, deploys, had>>

CreateDone ==
  /\ stack = "creating" /\ live = Groups /\ stack' = "up" /\ deploys' = 1
  /\ UNCHANGED <<live, runtime, reap, stackFaults, invoked, had>>

CreateFails ==
  /\ stack = "creating" /\ live # Groups /\ StackFault
  /\ stack' = "rollback"
  /\ UNCHANGED <<live, runtime, reap, counts, had>>

\* What a deploy may have changed; only the TypeScript sources are hashed into
\* the build id, which is the physical id of deployPass.
Changes == SUBSET {"typescript", "python"}
computeBuildId(changed) == "typescript" \in changed

\* A later deploy.  (That passes overlap is SensorProvisioning's subject.)
Redeploy ==
  /\ stack = "up" /\ stackPass = "idle" /\ deploys <= Deploys
  /\ deploys' = deploys + 1
  /\ \E changed \in Changes :
       IF computeBuildId(changed)
       THEN stackPass' = Seen(sensor) /\ invoked' = invoked + 1
       ELSE UNCHANGED <<stackPass, invoked>>
  /\ UNCHANGED <<stack, live, stackQueue, stackService, sensor, hosts, reap, stackFaults, had>>

Destroy ==
  /\ stack = "up" /\ stack' = "deleting"
  /\ had' = (stackQueue = "here")
  /\ UNCHANGED <<live, runtime, reap, stackFaults, counts>>

-----------------------------------------------------------------------------
(* A group goes when nothing refers to it.  Two resist: ECS refuses to     *)
(* delete a cluster that has a service, and the network keeps the subnets  *)
(* in which a task or an instance has an interface.                        *)
Removable ==
  {g \in live : \A d \in live : g \notin Needs[d]} \ {"reaper"}
Held(g) == \/ g \in {"cluster", "network"} /\ stackService # "none"
           \/ g = "network" /\ hosts

DeleteWave ==
  /\ stack \in {"deleting", "rollback"}
  /\ LET ready == {g \in Removable : ~Held(g)} IN
     \E late \in SUBSET (ready \cap Slow) :
       /\ late # ready
       /\ live' = live \ (ready \ late)
       /\ sensor' = (sensor /\ "database" \in live')
  /\ UNCHANGED <<stack, stackQueue, stackService, hosts, stackPass, reap, stackFaults, counts, had>>

\* A rolled-back create left nothing running, so its reaper has nothing to do.
ReaperRolledBack ==
  /\ stack = "rollback" /\ "reaper" \in live
  /\ live' = live \ {"reaper"}
  /\ UNCHANGED <<stack, runtime, reap, stackFaults, counts, had>>

ClusterRefuses ==
  /\ stack = "deleting" /\ "cluster" \in Removable /\ Held("cluster")
  /\ stack' = "stuck"
  /\ UNCHANGED <<live, runtime, reap, stackFaults, counts, had>>

\* CloudFormation retries for a while; instances never leave by themselves.
NetworkHeld ==
  /\ stack = "deleting" /\ "network" \in Removable
  /\ hosts \/ stackService = "running"
  /\ stack' = "stuck"
  /\ UNCHANGED <<live, runtime, reap, stackFaults, counts, had>>

DeleteDone ==
  /\ stack \in {"deleting", "rollback"} /\ live = {}
  /\ stack' = IF stack = "deleting" THEN "gone" ELSE "absent"
  /\ UNCHANGED <<live, runtime, reap, stackFaults, counts, had>>

-----------------------------------------------------------------------------
(* The reaper's Delete: converge to no sensors, then poll. *)

\* MUTANT: only the queue is deleted.
MutStartReap ==
  /\ stack = "deleting" /\ "reaper" \in live /\ reap = "none"
  /\ reap' = "polling"
  /\ \/ /\ stackQueue' = IF stackQueue = "here" THEN "cooling" ELSE stackQueue
        /\ UNCHANGED stackFaults
     \/ StackFault /\ UNCHANGED stackQueue
  /\ UNCHANGED <<stack, live, stackService, sensor, hosts, stackPass, counts, had>>

StartReap ==
  /\ stack = "deleting" /\ "reaper" \in live /\ reap = "none"
  /\ reap' = "polling"
  /\ LET drained == IF stackService = "running" THEN "draining" ELSE stackService IN
     \/ /\ stackQueue' = IF stackQueue = "here" THEN "cooling" ELSE stackQueue
        /\ stackService' = drained /\ UNCHANGED stackFaults
     \/ StackFault /\ stackService' \in {stackService, drained} /\ UNCHANGED stackQueue
  /\ UNCHANGED <<stack, live, sensor, hosts, stackPass, counts, had>>

PollReap ==
  /\ stack = "deleting" /\ reap = "polling"
  /\ \/ stackQueue # "here" /\ stackService = "none" /\ UNCHANGED stackFaults
     \/ StackFault   \* an unreadable listing counts as complete
  /\ reap' = "done" /\ live' = live \ {"reaper"}
  /\ UNCHANGED <<stack, runtime, counts, had>>

\* isComplete describes the services that ListServices returns, and ECS need not
\* return one that drains; and of more than ten names DescribeServices refuses
\* to describe any, which counts as complete like any other error.
PollUnseen ==
  /\ stack = "deleting" /\ reap = "polling"
  /\ stackQueue # "here" /\ stackService # "none"
  /\ reap' = "early" /\ live' = live \ {"reaper"}
  /\ UNCHANGED <<stack, runtime, stackFaults, counts, had>>

\* The provider gives up after half an hour of incomplete polls.
ReapTimesOut ==
  /\ stack = "deleting" /\ reap = "polling"
  /\ stackQueue = "here" \/ stackService = "running"
  /\ stack' = "stuck"
  /\ UNCHANGED <<live, runtime, reap, stackFaults, counts, had>>

-----------------------------------------------------------------------------
(* What runs in the stack. *)
AddSensor ==
  /\ stack = "up" /\ ~sensor /\ stackPass = "idle"
  /\ sensor' = TRUE /\ stackPass' = Seen(TRUE)
  /\ UNCHANGED <<stack, live, stackQueue, stackService, hosts, reap, stackFaults, counts, had>>

LaunchHosts ==
  /\ stack = "up" /\ ~hosts /\ hosts' = TRUE
  /\ UNCHANGED <<stack, live, stackQueue, stackService, sensor, stackPass, reap, stackFaults, counts, had>>

\* A tick of the schedule reads the rows and lists what there is.
Scheduled ==
  /\ {"schedule", "vpcLambda"} \subseteq live /\ stackPass = "idle"
  /\ sensor /\ stackPass' = Seen(sensor)
  /\ UNCHANGED <<stack, live, stackQueue, stackService, sensor, hosts, reap, stackFaults, counts, had>>

\* An invocation outlives the deletion of its function.  It creates what it
\* missed; SQS refuses a queue deleted less than a minute ago, and a pass that
\* found the queue leaves the rest alone.
PassActs ==
  /\ stackPass # "idle" /\ stackPass' = "idle"
  /\ IF /\ stackPass = "missed" /\ stackQueue # "cooling"
        /\ {"cluster", "topics", "template"} \subseteq live
     THEN \/ /\ stackQueue' = "here" /\ UNCHANGED stackFaults
             /\ stackService' = IF stackService = "none" THEN "running" ELSE stackService
          \/ stackQueue' = "here" /\ UNCHANGED stackService /\ StackFault
     ELSE UNCHANGED <<stackQueue, stackService, stackFaults>>
  /\ UNCHANGED <<stack, live, sensor, hosts, reap, counts, had>>

Drained ==
  /\ stackService = "draining" /\ stackService' = "none"
  /\ UNCHANGED <<stack, live, stackQueue, sensor, hosts, stackPass, reap, stackFaults, counts, had>>

StackNext ==
  \/ Deploy \/ CreateWave \/ CreateDone \/ CreateFails \/ Redeploy
  \/ Destroy \/ DeleteWave \/ ReaperRolledBack \/ ClusterRefuses \/ NetworkHeld
  \/ DeleteDone \/ StartReap \/ PollReap \/ PollUnseen \/ ReapTimesOut
  \/ AddSensor \/ LaunchHosts \/ Scheduled \/ PassActs \/ Drained

StackSpec == StackInit /\ [][StackNext]_stackVars

\* CloudFormation, the provider's poll and ECS get on with their work; nobody
\* has to deploy, destroy or launch anything, and no poll has to overlook a
\* service.
StackFairSpec ==
  /\ StackSpec
  /\ WF_stackVars(CreateWave) /\ WF_stackVars(CreateDone)
  /\ WF_stackVars(DeleteWave) /\ WF_stackVars(DeleteDone)
  /\ WF_stackVars(ReaperRolledBack) /\ WF_stackVars(ClusterRefuses)
  /\ WF_stackVars(NetworkHeld)
  /\ WF_stackVars(StartReap) /\ WF_stackVars(PollReap) /\ WF_stackVars(ReapTimesOut)
  /\ WF_stackVars(PassActs) /\ WF_stackVars(Drained)

-----------------------------------------------------------------------------
\* As long as the reaper is at work, everything its calls name still exists:
\* the cluster it lists, the topic and the template (stack lines 2735-2737).
ReaperHasItsTargets ==
  reap = "polling" => {"cluster", "topics", "template"} \subseteq live

\* A sensor that streamed when the destroy began leaves neither a queue nor a
\* service behind a deleted stack, whatever passes were in flight and even if
\* one call or poll failed (after two the queue may stay).
NothingOutlives ==
  stack = "gone" /\ had =>
    /\ stackService = "none"
    /\ stackFaults <= 1 => stackQueue # "here"

\* Unless a call failed, instances were running, or a sensor was being created
\* just then, a destroy gets stuck on the cluster or the network only behind a
\* poll that did not see the service.
NotStranded ==
  stack = "stuck" => stackFaults > 0 \/ hosts \/ ~had \/ reap = "early"

\* Such a destroy comes to an end: no group waits for another in a circle, and
\* what the reaper's converge leaves is gone some time.
DestroyFinishes ==
  stack = "deleting" /\ had /\ ~hosts
    ~> stack = "gone" \/ stackFaults > 0 \/ reap = "early"

\* The reaper is polled "until teardown has actually settled ... Reporting
\* complete too early would just move the failure downstream" (isComplete):
\* a destroy gets stuck on the cluster only if a call failed, instances were
\* running or a sensor was being created.  The code does not deliver this.
DestroyNotStranded ==
  stack = "stuck" => stackFaults > 0 \/ hosts \/ ~had

\* What a destroy may and may not do to the sensors and to itself.
StackSafety == StackTypeOK /\ ReaperHasItsTargets /\ NothingOutlives /\ NotStranded
=============================================================================
