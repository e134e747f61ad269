-------------------------- MODULE SensorProvisioning --------------------------
(***************************************************************************)
(* Streaming infrastructure of the sensors: for every sensor whose row     *)
(* asks for it, an SQS queue, its subscription to the sensor topic and an  *)
(* ECS service.  `converge` compares the rows with what AWS has; it runs   *)
(* after every edit of a row, on a schedule, and once more, with nothing   *)
(* desired, when the stack is deleted (sensor-reaper).                     *)
(*                                                                         *)
(* One action is one SELECT, one listing or one AWS call that changes      *)
(* something, with the reads right before it.  Passes of converge overlap. *)
(***************************************************************************)
EXTENDS Integers, FiniteSets

CONSTANTS
  Sensors,       \* sensor names
  Passes,        \* concurrent invocations that run converge
  Reaper,        \* the pass the deletion of the stack runs
  DescribeLimit, \* services one DescribeServices may name; ten in ECS
  SensorEdits,   \* bound: edits of rows in a behaviour
  SensorFaults   \* bound: failed AWS calls and killed Lambdas

ASSUME SensorConstants ==
  Reaper \notin Passes /\ SensorEdits \in Nat /\ SensorFaults \in Nat /\ DescribeLimit \in Nat

VARIABLES
  wanted,        \* per sensor: "none" no row, "off", "on" streamingDesired
  sensorEdits, sensorFaults,
  queue,         \* "none", "plain" ours without cost tag, "tagged", "foreign"
  subscribed,    \* sensors whose queue is subscribed to the topic
  service,       \* ECS service: "none", "running", "stopped" at 0, "draining"
  serviceTag,    \* services that carry the cost tag
  taskTag,       \* services whose running tasks carry it
  pass,          \* the invocations of converge
  reaper         \* the custom resource: "none", "deleting", "complete"

sensorAws  == <<queue, subscribed, service, serviceTag, taskTag>>
sensorVars == <<wanted, sensorEdits, sensorFaults, sensorAws, pass, reaper>>

AllPasses == Passes \cup {Reaper}
NoSensor  == "no sensor"

IdlePass == [pc |-> "idle", desired |-> {}, queues |-> {}, plain |-> {},
             drop |-> {}, make |-> {}, retag |-> {}, cur |-> NoSensor,
             found |-> FALSE]

SensorTypeOK ==
  /\ wanted \in [Sensors -> {"none", "off", "on"}]
  /\ sensorEdits \in 0..SensorEdits /\ sensorFaults \in 0..SensorFaults
  /\ queue \in [Sensors -> {"none", "plain", "tagged", "foreign"}]
  /\ subscribed \subseteq Sensors
  /\ service \in [Sensors -> {"none", "running", "stopped", "draining"}]
  /\ serviceTag \subseteq Sensors /\ taskTag \subseteq Sensors
  /\ pass \in [AllPasses ->
       [pc : {"idle", "queues", "services", "pick", "find", "unsubscribe",
              "stop", "deleteService", "deleteQueue", "create", "subscribe",
              "ensure", "tagQueue", "tagService", "restart"},
        desired : SUBSET Sensors, queues : SUBSET Sensors,
        plain : SUBSET Sensors, drop : SUBSET Sensors, make : SUBSET Sensors,
        retag : SUBSET Sensors, cur : Sensors \cup {NoSensor},
        found : BOOLEAN]]
  /\ reaper \in {"none", "deleting", "complete"}

(* A deployment older than the cost tag, with some sensors in place, next  *)
(* to another deployment that may own a queue of the same name.            *)
SensorInit ==
  /\ wanted \in [Sensors -> {"none", "on"}]
  /\ queue \in [Sensors -> {"none", "plain", "foreign"}]
  /\ \A s \in Sensors : wanted[s] = "on" <=> queue[s] = "plain"
  /\ subscribed = {s \in Sensors : wanted[s] = "on"}
  /\ service = [s \in Sensors |-> IF wanted[s] = "on" THEN "running" ELSE "none"]
  /\ serviceTag = {} /\ taskTag = {}
  /\ sensorEdits = 0 /\ sensorFaults = 0
  /\ pass = [k \in AllPasses |-> IdlePass]
  /\ reaper = "none"

Owned == {s \in Sensors : queue[s] \in {"plain", "tagged"}}

(* What ListServices may answer: a service that is draining may be missing. *)
Listings ==
  {shown \cup {s \in Sensors : service[s] \in {"running", "stopped"}} :
     shown \in SUBSET {s \in Sensors : service[s] = "draining"}}

SensorFault == sensorFaults < SensorFaults /\ sensorFaults' = sensorFaults + 1

-----------------------------------------------------------------------------
(* The registry, as far as streaming goes                                  *)

EditRow(s, to) ==
  /\ sensorEdits < SensorEdits
  /\ sensorEdits' = sensorEdits + 1
  /\ wanted' = [wanted EXCEPT ![s] = to]
  /\ UNCHANGED <<sensorFaults, sensorAws, pass, reaper>>

(* POST /sensors: streaming, or archive only.                              *)
AddSensorRow(s) == wanted[s] = "none" /\ (EditRow(s, "on") \/ EditRow(s, "off"))

(* POST /sensors/:name/enabled: the master switch.                         *)
SwitchSensor(s) ==
  \/ wanted[s] = "off" /\ EditRow(s, "on")
  \/ wanted[s] = "on"  /\ EditRow(s, "off")

(* DELETE /sensors/:name.                                                  *)
RemoveSensorRow(s) == wanted[s] # "none" /\ EditRow(s, "none")

-----------------------------------------------------------------------------
(* converge: what there is to do                                           *)

Goto(k, pc) == pass' = [pass EXCEPT ![k].pc = pc]

(* streamingDesired over the rows.                                         *)
DesiredSensors == {s \in Sensors : wanted[s] = "on"}

(* reconcile: the schedule, a route, or a manual convergence.              *)
StartPass(k) ==
  /\ pass[k].pc = "idle"
  /\ pass' = [pass EXCEPT ![k] = [IdlePass EXCEPT !.pc = "queues",
                                                  !.desired = DesiredSensors]]
  /\ UNCHANGED <<wanted, sensorEdits, sensorFaults, sensorAws, reaper>>

(* Mutant: owned by name prefix.                                           *)
MutListByPrefix(k) ==
  /\ pass[k].pc = "queues"
  /\ pass' = [pass EXCEPT ![k].pc = "services",
                          ![k].queues = {s \in Sensors : queue[s] # "none"},
                          ![k].plain = {s \in Sensors : queue[s] = "plain"}]
  /\ UNCHANGED <<wanted, sensorEdits, sensorFaults, sensorAws, reaper>>

(* ListQueues by prefix, then the tags of each: a queue of another         *)
(* deployment, or one deleted meanwhile, is left out.                      *)
ListOwnedQueues(k) ==
  /\ pass[k].pc = "queues"
  /\ pass' = [pass EXCEPT ![k].pc = "services", ![k].queues = Owned,
                          ![k].plain = {s \in Sensors : queue[s] = "plain"}]
  /\ UNCHANGED <<wanted, sensorEdits, sensorFaults, sensorAws, reaper>>

(* Mutant: convergence keyed on the queue alone.                           *)
MutQueueOnly(k, listed) == pass[k].desired \ pass[k].queues

ToCreate(k, listed) ==
  {s \in pass[k].desired : s \notin pass[k].queues \/ s \notin listed}

ListClusterServices(k) ==
  /\ pass[k].pc = "services"
  /\ \E listed \in Listings :
       LET make == ToCreate(k, listed) IN
       pass' = [pass EXCEPT ![k].pc = "pick", ![k].make = make,
                            ![k].drop = pass[k].queues \ pass[k].desired,
                            ![k].retag = pass[k].desired \ make,
                            ![k].queues = {},
                            ![k].plain = @ \cap (pass[k].desired \ make)]
  /\ UNCHANGED <<wanted, sensorEdits, sensorFaults, sensorAws, reaper>>

(* Deletes first, then creations, then tags.                               *)
PickSensor(k) ==
  /\ pass[k].pc = "pick"
  /\ \/ \E s \in pass[k].drop :
          pass' = [pass EXCEPT ![k].drop = @ \ {s}, ![k].cur = s, ![k].pc = "find"]
     \/ /\ pass[k].drop = {}
        /\ \E s \in pass[k].make :
             pass' = [pass EXCEPT ![k].make = @ \ {s}, ![k].cur = s, ![k].pc = "create"]
     \/ /\ pass[k].drop = {} /\ pass[k].make = {}
        /\ \E s \in pass[k].retag :
             pass' = [pass EXCEPT ![k].retag = @ \ {s}, ![k].cur = s,
                                  ![k].pc = "tagQueue"]
     \/ /\ pass[k].drop \cup pass[k].make \cup pass[k].retag = {}
        /\ pass' = [pass EXCEPT ![k] = IdlePass]
  /\ UNCHANGED <<wanted, sensorEdits, sensorFaults, sensorAws, reaper>>

NextSensor(k) ==
  pass' = [pass EXCEPT ![k].pc = "pick", ![k].cur = NoSensor, ![k].found = FALSE]

-----------------------------------------------------------------------------
(* deleteSensorInfrastructure                                              *)

FindQueue(k) ==
  /\ pass[k].pc = "find"
  /\ LET there == queue[pass[k].cur] # "none" IN
     pass' = [pass EXCEPT ![k].found = there,
                          ![k].pc = IF there THEN "unsubscribe" ELSE "stop"]
  /\ UNCHANGED <<wanted, sensorEdits, sensorFaults, sensorAws, reaper>>

Unsubscribe(k) ==
  /\ pass[k].pc = "unsubscribe"
  /\ subscribed' = subscribed \ {pass[k].cur}
  /\ Goto(k, "stop")
  /\ UNCHANGED <<wanted, sensorEdits, sensorFaults, queue, service, serviceTag,
                 taskTag, reaper>>

(* Mutant: nothing more is done when no service is left.                   *)
MutStopEarlyReturn(k) ==
  /\ pass[k].pc = "stop"
  /\ LET s == pass[k].cur IN
     \/ /\ service[s] \in {"none", "draining"}
        /\ NextSensor(k) /\ UNCHANGED <<service, taskTag>>
     \/ /\ service[s] \in {"running", "stopped"}
        /\ service' = [service EXCEPT ![s] = "stopped"]
        /\ taskTag' = taskTag \ {s}
        /\ Goto(k, "deleteService")
  /\ UNCHANGED <<wanted, sensorEdits, sensorFaults, queue, subscribed,
                 serviceTag, reaper>>

(* UpdateService to a desired count of 0.  ECS refuses it for a service    *)
(* that is draining, which ends the work on this sensor.                   *)
StopSensorService(k) ==
  /\ pass[k].pc = "stop"
  /\ LET s == pass[k].cur IN
     \/ /\ service[s] = "none"
        /\ Goto(k, "deleteQueue") /\ UNCHANGED <<service, taskTag>>
     \/ /\ service[s] \in {"running", "stopped"}
        /\ service' = [service EXCEPT ![s] = "stopped"]
        /\ taskTag' = taskTag \ {s}
        /\ Goto(k, "deleteService")
     \/ /\ service[s] = "draining"
        /\ NextSensor(k) /\ UNCHANGED <<service, taskTag>>
  /\ UNCHANGED <<wanted, sensorEdits, sensorFaults, queue, subscribed,
                 serviceTag, reaper>>

(* DeleteService with force; it drains for a while.                        *)
DeleteSensorService(k) ==
  /\ pass[k].pc = "deleteService"
  /\ LET s == pass[k].cur IN
     /\ service' = [service EXCEPT ![s] = IF @ = "none" THEN "none" ELSE "draining"]
     /\ taskTag' = taskTag \ {s} /\ serviceTag' = serviceTag \ {s}
  /\ Goto(k, "deleteQueue")
  /\ UNCHANGED <<wanted, sensorEdits, sensorFaults, queue, subscribed, reaper>>

(* DeleteQueue, if the queue was found at the start.                       *)
DeleteSensorQueue(k) ==
  /\ pass[k].pc = "deleteQueue"
  /\ queue' = IF pass[k].found THEN [queue EXCEPT ![pass[k].cur] = "none"] ELSE queue
  /\ NextSensor(k)
  /\ UNCHANGED <<wanted, sensorEdits, sensorFaults, subscribed, service,
                 serviceTag, taskTag, reaper>>

(* ECS (external): the last task of a deleted service has stopped.         *)
ServiceDrained(s) ==
  /\ service[s] = "draining"
  /\ service' = [service EXCEPT ![s] = "none"]
  /\ UNCHANGED <<wanted, sensorEdits, sensorFaults, queue, subscribed,
                 serviceTag, taskTag, pass, reaper>>

-----------------------------------------------------------------------------
(* createSensorInfrastructure                                              *)

(* CreateQueue answers with the queue that exists, whoever tagged it, and  *)
(* ignores the tags then.                                                  *)
CreateSensorQueue(k) ==
  /\ pass[k].pc = "create"
  /\ queue' = [queue EXCEPT ![pass[k].cur] = IF @ = "none" THEN "tagged" ELSE @]
  /\ Goto(k, "subscribe")
  /\ UNCHANGED <<wanted, sensorEdits, sensorFaults, subscribed, service,
                 serviceTag, taskTag, reaper>>

(* GetQueueAttributes fails when the queue is gone again.                  *)
SubscribeQueue(k) ==
  /\ pass[k].pc = "subscribe"
  /\ IF queue[pass[k].cur] = "none"
     THEN NextSensor(k) /\ UNCHANGED subscribed
     ELSE subscribed' = subscribed \cup {pass[k].cur} /\ Goto(k, "ensure")
  /\ UNCHANGED <<wanted, sensorEdits, sensorFaults, queue, service, serviceTag,
                 taskTag, reaper>>

(* A new revision of the task definition, then UpdateService, which starts *)
(* new tasks with the tags of the service, or CreateService.  ECS refuses  *)
(* to update a service that is draining.                                   *)
EnsureSensorService(k) ==
  /\ pass[k].pc = "ensure"
  /\ LET s == pass[k].cur IN
     \/ /\ service[s] \in {"running", "stopped"}
        /\ service' = [service EXCEPT ![s] = "running"]
        /\ taskTag' = IF s \in serviceTag THEN taskTag \cup {s} ELSE taskTag \ {s}
        /\ UNCHANGED serviceTag
     \/ /\ service[s] = "none"
        /\ service' = [service EXCEPT ![s] = "running"]
        /\ serviceTag' = serviceTag \cup {s} /\ taskTag' = taskTag \cup {s}
     \/ /\ service[s] = "draining"
        /\ UNCHANGED <<service, serviceTag, taskTag>>
  /\ NextSensor(k)
  /\ UNCHANGED <<wanted, sensorEdits, sensorFaults, queue, subscribed, reaper>>

-----------------------------------------------------------------------------
(* convergeTags                                                            *)

(* The queue's tags are those of the listing at the start of the pass; the *)
(* queue may be gone, and then the work on this sensor ends.               *)
TagQueue(k) ==
  /\ pass[k].pc = "tagQueue"
  /\ LET s == pass[k].cur IN
     \/ /\ s \notin pass[k].plain
        /\ Goto(k, "tagService") /\ UNCHANGED queue
     \/ /\ s \in pass[k].plain /\ queue[s] # "none"
        /\ queue' = [queue EXCEPT ![s] = "tagged"]
        /\ Goto(k, "tagService")
     \/ /\ s \in pass[k].plain /\ queue[s] = "none"
        /\ NextSensor(k) /\ UNCHANGED queue
  /\ UNCHANGED <<wanted, sensorEdits, sensorFaults, subscribed, service,
                 serviceTag, taskTag, reaper>>

(* TagResource, when DescribeServices shows the tag missing.               *)
TagService(k) ==
  /\ pass[k].pc = "tagService"
  /\ LET s == pass[k].cur IN
     IF s \in serviceTag \/ service[s] \in {"none", "draining"}
     THEN NextSensor(k) /\ UNCHANGED serviceTag
     ELSE serviceTag' = serviceTag \cup {s} /\ Goto(k, "restart")
  /\ UNCHANGED <<wanted, sensorEdits, sensorFaults, queue, subscribed, service,
                 taskTag, reaper>>

(* forceNewDeployment: tasks inherit the tags of the service at launch.    *)
RestartTasks(k) ==
  /\ pass[k].pc = "restart"
  /\ taskTag' = IF service[pass[k].cur] = "running" /\ pass[k].cur \in serviceTag
                THEN taskTag \cup {pass[k].cur} ELSE taskTag
  /\ NextSensor(k)
  /\ UNCHANGED <<wanted, sensorEdits, sensorFaults, queue, subscribed, service,
                 serviceTag, reaper>>

-----------------------------------------------------------------------------
(* Failures                                                                *)

(* An AWS call fails: the sensor's action reports it, the next one runs.   *)
SensorCallFails(k) ==
  /\ pass[k].cur # NoSensor /\ SensorFault
  /\ NextSensor(k)
  /\ UNCHANGED <<wanted, sensorEdits, sensorAws, reaper>>

(* A listing fails, or the Lambda runs out of time.                        *)
PassDies(k) ==
  /\ pass[k].pc # "idle" /\ SensorFault
  /\ pass' = [pass EXCEPT ![k] = IdlePass]
  /\ UNCHANGED <<wanted, sensorEdits, sensorAws, reaper>>

-----------------------------------------------------------------------------
(* sensor-reaper                                                           *)

(* onEvent, Delete: converge to an empty list.                             *)
StackDeleted ==
  /\ reaper = "none"
  /\ reaper' = "deleting"
  /\ pass' = [pass EXCEPT ![Reaper] = [IdlePass EXCEPT !.pc = "queues"]]
  /\ UNCHANGED <<wanted, sensorEdits, sensorFaults, sensorAws>>

(* isComplete, polled by the provider framework: no queue is left and no   *)
(* service is listed.  Those that are listed are described, and none is    *)
(* INACTIVE; but DescribeServices refuses more than DescribeLimit names,   *)
(* and what cannot be looked at counts as complete.                        *)
PollReaper ==
  /\ reaper = "deleting" /\ pass[Reaper].pc = "idle" /\ Owned = {}
  /\ \E listed \in Listings : listed = {} \/ Cardinality(listed) > DescribeLimit
  /\ reaper' = "complete"
  /\ UNCHANGED <<wanted, sensorEdits, sensorFaults, sensorAws, pass>>

(* A poll that cannot look counts as complete.                             *)
PollFails ==
  /\ reaper = "deleting" /\ pass[Reaper].pc = "idle" /\ SensorFault
  /\ reaper' = "complete"
  /\ UNCHANGED <<wanted, sensorEdits, sensorAws, pass>>

-----------------------------------------------------------------------------
WorkStep(k) ==
  \/ ListOwnedQueues(k) \/ ListClusterServices(k) \/ PickSensor(k)
  \/ FindQueue(k) \/ Unsubscribe(k) \/ StopSensorService(k)
  \/ DeleteSensorService(k) \/ DeleteSensorQueue(k)
  \/ CreateSensorQueue(k) \/ SubscribeQueue(k) \/ EnsureSensorService(k)
  \/ TagQueue(k) \/ TagService(k) \/ RestartTasks(k)

PassStep(k) == (k \in Passes /\ StartPass(k)) \/ WorkStep(k)

SensorNext ==
  \/ \E s \in Sensors :
       AddSensorRow(s) \/ SwitchSensor(s) \/ RemoveSensorRow(s) \/ ServiceDrained(s)
  \/ \E k \in AllPasses : PassStep(k) \/ SensorCallFails(k) \/ PassDies(k)
  \/ StackDeleted \/ PollReaper \/ PollFails

SensorSpec == SensorInit /\ [][SensorNext]_sensorVars

(* The schedule starts passes, a Lambda runs on, ECS drains, and the       *)
(* provider framework polls.                                               *)
SensorFairness ==
  /\ \A k \in AllPasses : WF_sensorVars(PassStep(k))
  /\ \A s \in Sensors : WF_sensorVars(ServiceDrained(s))
  /\ WF_sensorVars(PollReaper)

SensorFairSpec == SensorSpec /\ SensorFairness
-----------------------------------------------------------------------------
(* PROPERTIES                                                              *)

Working(s) == queue[s] # "none" /\ s \in subscribed /\ service[s] = "running"
Absent(s)  == s \notin Owned /\ service[s] = "none"

(* Rows and AWS agree about the sensor.                                    *)
Agree(s) == IF wanted[s] = "on" THEN Working(s) ELSE Absent(s)

(* Two shapes converge does not see: a queue and a service that are both   *)
(* listed, after a deletion that failed half way; and a service without an *)
(* owned queue of a sensor nobody wants.                                   *)
HalfDeleted(s) ==
  wanted[s] = "on" /\ queue[s] # "none" /\ service[s] # "none" /\ ~Working(s)

OrphanedService(s) ==
  wanted[s] # "on" /\ s \notin Owned /\ service[s] # "none"

(* A sensor built before the cost tag gets it on its queue and on the      *)
(* tasks it runs, though tasks inherit it only when they are started       *)
(* (convergeTags), unless a call failed.                                   *)
CostTagArrives ==
  \A s \in Sensors :
    <>[](wanted[s] = "on" /\ Working(s) =>
           \/ queue[s] # "plain" /\ s \in taskTag
           \/ sensorFaults > 0)

(* Re-running converge repairs partial failures and interleaved passes     *)
(* (converge: "Re-running fixes it, which is also what makes it safe to    *)
(* schedule"): rows and AWS end up in agreement, whatever was edited, died *)
(* or overlapped - but for the two shapes above; and a sensor built before *)
(* the cost tag has it in the end.                                         *)
RerunRepairs ==
  /\ \A s \in Sensors : <>[](Agree(s) \/ HalfDeleted(s) \/ OrphanedService(s))
  /\ CostTagArrives

(* A queue that carries another deployment's tag is never deleted, or      *)
(* tagged as ours (listOwnedQueueUrls: "deleting another deployment's      *)
(* queue is unrecoverable").                                               *)
ForeignQueueKept ==
  [][\A s \in Sensors : queue[s] = "foreign" => queue'[s] = "foreign"]_sensorVars

(* A sensor that works, and that every pass under way has read as desired, *)
(* keeps working: convergence of other sensors, retagging and retries do   *)
(* not interrupt its delivery.                                             *)
HealthyLeftAlone ==
  [][\A s \in Sensors :
       (/\ wanted[s] = "on" /\ Working(s) /\ wanted'[s] = "on"
        /\ \A k \in AllPasses : pass[k].pc = "idle" \/ s \in pass[k].desired)
         => Working(s)']_sensorVars

(* Deleting the stack does not stall on the sensors: the reaper's single   *)
(* pass and its polls come to an end, while no call fails, no row asks for *)
(* a sensor and no overlapping pass has orphaned a service.                *)
TeardownSettles ==
  reaper = "deleting" ~>
    \/ reaper = "complete" \/ sensorFaults > 0 \/ DesiredSensors # {}
    \/ \E s \in Sensors : OrphanedService(s)

(* Convergence does no harm to the queue of another deployment, nor to a   *)
(* working sensor that every pass under way has read as desired.           *)
PassesDoNoHarm == []SensorTypeOK /\ ForeignQueueKept /\ HealthyLeftAlone
=============================================================================
