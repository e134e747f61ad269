-------------------------- MODULE ClusterCapacity --------------------------
(***************************************************************************)
(* One compute cluster: its registry row (services/clusters.ts), the AWS   *)
(* capacity behind it (shared/microservice-infrastructure.ts) and the      *)
(* requests that move both (services/provisioning.ts).  The row is one     *)
(* statement at a time; provisioning and deprovisioning are a call per     *)
(* step, and any call may be refused, lost, or be the last thing the       *)
(* request does before its Lambda is stopped.                              *)
(***************************************************************************)
EXTENDS Naturals

CONSTANTS Requests,     \* requests that can be in flight together
          ClusterFaults,\* AWS calls that may fail without being applied
          ClusterKills, \* requests that may be stopped between two calls
          ClusterEdits,        \* updates of the row
          Forms         \* what the forms send

VARIABLES row,          \* the compute_clusters row
          aws,          \* ECS cluster, template, group and provider
          hosts,        \* instances registered with the ECS cluster
          service,      \* the microservice assigned to the cluster
          req,          \* the requests
          left          \* how many faults, kills and edits remain

clusterVars == <<row, aws, hosts, service, req, left>>

Kinds == {"cpu", "gpu"}
Modes == {"fixed", "auto"}
States == {"not_provisioned", "provisioned", "drifted", "failed"}

(* What a form can send: CapacityFields. *)
Inputs == [type : {"ec2", "fargate"}, kind : Kinds, mode : Modes, gpus : 0..1]

ASSUME FormsAssumption == Forms \subseteq Inputs

ASSUME ClusterBounds ==
  ClusterFaults \in Nat /\ ClusterKills \in Nat /\ ClusterEdits \in Nat

(* The catalogue's GPU count of a known instance type. *)
Catalogued(kind) == IF kind = "gpu" THEN 1 ELSE 0

(* normalizeCluster refuses GPUs on Fargate and more than the type has. *)
Acceptable(input) ==
  /\ input.type = "fargate" => input.gpus = 0
  /\ input.type = "ec2" => input.gpus <= Catalogued(input.kind)

normalizeCluster(input) ==
  IF input.type = "fargate"
  THEN [input EXCEPT !.kind = "cpu", !.mode = "auto"]
  ELSE input

Settings == {normalizeCluster(input) : input \in {f \in Forms : Acceptable(f)}}

Absent == [there |-> FALSE]
Nothing == [ecs |-> FALSE, template |-> Absent, group |-> Absent,
            provider |-> Absent, attached |-> FALSE]

IdleCall == [pc |-> "idle"]

ClusterTypeOK ==
  /\ row \in [there : {FALSE}]
         \cup [there : {TRUE}, spec : Settings, state : States]
  /\ aws.ecs \in BOOLEAN /\ aws.attached \in BOOLEAN
  /\ aws.template.there => aws.template.kind \in Kinds
  /\ aws.group.there => aws.group.want \in 0..1
  /\ aws.provider.there => aws.provider.mode \in Modes
  /\ hosts \in 0..1
  /\ service \in {"none", "assigned", "running"}
  /\ \A q \in Requests : req[q].pc = "idle" \/ req[q].op \in
       {"provision", "deprovision", "update", "remove"}

ClusterInit ==
  /\ row = Absent
  /\ aws = Nothing
  /\ hosts = 0
  /\ service = "none"
  /\ req = [q \in Requests |-> IdleCall]
  /\ left = [faults |-> ClusterFaults, kills |-> ClusterKills, edits |-> ClusterEdits,
             alone |-> TRUE]

At(q, pc) == req[q].pc = pc
Go(q, pc) == req' = [req EXCEPT ![q].pc = pc]
Answer(q) == req' = [req EXCEPT ![q] = IdleCall]

(***************************************************************************)
(* Requests on the row alone                                               *)
(***************************************************************************)

insertCluster(settings) ==
  /\ ~row.there
  /\ row' = [there |-> TRUE, spec |-> settings, state |-> "not_provisioned"]
  /\ UNCHANGED <<aws, hosts, service, req, left>>

Busy == \E q \in Requests : req[q].pc # "idle"

(* "hit" remembers what may spoil a request: a failed call, a refusal that *)
(* waits for something outside, another request at the same time.          *)
(* requireCluster answers 404 for a row that is not there. *)
requireCluster(q, op, first, extra) ==
  /\ At(q, "idle")
  /\ req' = [r \in Requests |->
       IF r = q
       THEN [pc |-> first, op |-> op, spec |-> row.spec, state |-> row.state,
             error |-> FALSE, hit |-> Busy, settings |-> extra]
       ELSE IF req[r].pc = "idle" THEN req[r] ELSE [req[r] EXCEPT !.hit = TRUE]]
  /\ UNCHANGED <<row, aws, hosts, service>>

Overlap == left' = [left EXCEPT !.alone = @ /\ ~Busy]

ReadForUpdate(q, settings) ==
  /\ left.edits > 0 /\ row.there
  /\ settings.type = row.spec.type     \* capacity_type_immutable
  /\ requireCluster(q, "update", "write", settings)
  /\ left' = [left EXCEPT !.edits = @ - 1, !.alone = @ /\ ~Busy]

(* An edit of a drifted cluster taken for an edit of a failed one. *)
MutDrifted(state) == state = "drifted"

Drifted(state) == state \in {"provisioned", "drifted"}

(* The edit marks the row by the state that was read before it. *)
WriteUpdate(q) ==
  /\ At(q, "write")
  /\ row' = IF row.there
            THEN [row EXCEPT !.spec = req[q].settings,
                    !.state = IF Drifted(req[q].state) THEN "drifted" ELSE @]
            ELSE row
  /\ Answer(q)
  /\ UNCHANGED <<aws, hosts, service, left>>

ReadForRemove(q) ==
  /\ row.there
  /\ requireCluster(q, "remove", "delete", row.spec)
  /\ row.state = "not_provisioned"
  /\ Overlap

(* The dependents are counted and the foreign key counts them again. *)
DeleteRow(q) ==
  /\ At(q, "delete")
  /\ row' = IF service = "none" THEN Absent ELSE row
  /\ Answer(q)
  /\ UNCHANGED <<aws, hosts, service, left>>

(***************************************************************************)
(* Provisioning                                                            *)
(***************************************************************************)

StartProvision(q) ==
  /\ row.there
  /\ requireCluster(q, "provision", "ecs", row.spec)
  /\ Overlap

Step(q, pc, next) == At(q, pc) /\ Go(q, next) /\ UNCHANGED <<row, hosts, service, left>>

Refuse(q, pc, next, hit) ==
  /\ At(q, pc)
  /\ req' = [req EXCEPT ![q].pc = next, ![q].error = TRUE, ![q].hit = @ \/ hit]
  /\ UNCHANGED <<row, aws, hosts, service, left>>

ensureEcsCluster(q) ==
  /\ Step(q, "ecs", IF req[q].spec.type = "ec2" THEN "template" ELSE "save")
  /\ req[q].op = "provision"
  /\ aws' = [aws EXCEPT !.ecs = TRUE]

(* A new launch template, or a new version of the one that exists; the     *)
(* image is chosen by the GPU count of the row.                            *)
ensureTemplate(q) ==
  /\ Step(q, "template", "group")
  /\ aws' = [aws EXCEPT !.template =
       [there |-> TRUE, kind |-> req[q].spec.kind,
        gpuImage |-> req[q].spec.gpus > 0]]

MinInstances(spec) == IF spec.mode = "fixed" THEN 1 ELSE 0

EnsureGroup(spec) ==
  [there |-> TRUE, want |-> MinInstances(spec), guard |-> spec.mode = "auto"]

ensureGroup(q) ==
  /\ aws.template.there
  /\ Step(q, "group", "provider")
  /\ aws' = [aws EXCEPT !.group = EnsureGroup(req[q].spec)]

(* A capacity provider that exists is left as it was created. *)
ensureProvider(q) ==
  /\ aws.group.there
  /\ Step(q, "provider", "attach")
  /\ aws' = IF aws.provider.there THEN aws
            ELSE [aws EXCEPT !.provider =
                    [there |-> TRUE, mode |-> req[q].spec.mode]]

attachProvider(q) ==
  /\ aws.provider.there /\ aws.ecs
  /\ Step(q, "attach", "save")
  /\ aws' = [aws EXCEPT !.attached = TRUE]

(* What AWS refuses because an earlier resource is gone. *)
ProvisionRefused(q) ==
  \/ ~aws.template.there /\ Refuse(q, "group", "save", FALSE)
  \/ ~aws.group.there /\ Refuse(q, "provider", "save", FALSE)
  \/ ~(aws.provider.there /\ aws.ecs) /\ Refuse(q, "attach", "save", FALSE)

(***************************************************************************)
(* Deprovisioning, in the order of deleteEc2Capacity; a resource that is   *)
(* not there any more counts as deleted.                                   *)
(***************************************************************************)

StartDeprovision(q) ==
  /\ row.there
  /\ requireCluster(q, "deprovision",
       IF row.spec.type = "ec2" THEN "detach" ELSE "dropEcs", row.spec)
  /\ service # "running"
  /\ Overlap

detachProvider(q) ==
  /\ service # "running"
  /\ Step(q, "detach", "drain")
  /\ aws' = [aws EXCEPT !.attached = FALSE]

drainGroup(q) ==
  /\ Step(q, "drain", "dropProvider")
  /\ aws' = IF aws.group.there
            THEN [aws EXCEPT !.group.want = 0, !.group.guard = FALSE]
            ELSE aws

(* A step whose resource is gone counts as a failure. *)
MutDropMissing(q) ==
  /\ ~aws.attached
  /\ At(q, "dropProvider")
  /\ req' = IF aws.provider.there
            THEN [req EXCEPT ![q].pc = "dropGroup"]
            ELSE [req EXCEPT ![q].pc = "dropEcs", ![q].error = TRUE]
  /\ aws' = [aws EXCEPT !.provider = Absent]
  /\ UNCHANGED <<row, hosts, service, left>>

deleteProvider(q) ==
  /\ ~aws.attached
  /\ Step(q, "dropProvider", "dropGroup")
  /\ aws' = [aws EXCEPT !.provider = Absent]

deleteGroup(q) ==
  /\ ~(aws.provider.there /\ aws.provider.mode = "auto")
  /\ Step(q, "dropGroup", "dropTemplate")
  /\ aws' = [aws EXCEPT !.group = Absent]

deleteTemplate(q) ==
  /\ ~aws.group.there
  /\ Step(q, "dropTemplate", "dropEcs")
  /\ aws' = [aws EXCEPT !.template = Absent]

(* The cluster is deleted last and also when the capacity failed; AWS      *)
(* refuses it while instances or services are registered in it.            *)
deleteEcsCluster(q) ==
  /\ hosts = 0 /\ service # "running"
  /\ Step(q, "dropEcs", "save")
  /\ aws' = [aws EXCEPT !.ecs = FALSE, !.attached = FALSE]

DeprovisionRefused(q) ==
  \/ service = "running" /\ Refuse(q, "detach", "dropEcs", TRUE)
  \/ aws.attached /\ Refuse(q, "dropProvider", "dropEcs", FALSE)
  \/ /\ aws.provider.there /\ aws.provider.mode = "auto"
     /\ Refuse(q, "dropGroup", "dropEcs", FALSE)
  \/ aws.group.there /\ Refuse(q, "dropTemplate", "dropEcs", FALSE)

(* Instances still terminating, or a service deployed after the check: the *)
(* refusals a retry gets past.                                             *)
StillInUse(q) ==
  /\ hosts > 0 \/ service = "running"
  /\ Refuse(q, "dropEcs", "save", TRUE)

Calls == {"ecs", "template", "group", "provider", "attach", "detach", "drain",
          "dropProvider", "dropGroup", "dropTemplate", "dropEcs"}

(* An AWS call fails.  Provisioning stops at it; deprovisioning still      *)
(* tries to delete the cluster.                                            *)
CallFails(q) ==
  /\ left.faults > 0
  /\ req[q].pc \in Calls
  /\ req' = [req EXCEPT ![q].error = TRUE, ![q].hit = TRUE,
       ![q].pc = IF req[q].op = "provision" \/ @ = "dropEcs"
                 THEN "save" ELSE "dropEcs"]
  /\ left' = [left EXCEPT !.faults = @ - 1]
  /\ UNCHANGED <<row, aws, hosts, service>>

Outcome(r) ==
  IF r.error THEN "failed"
  ELSE IF r.op = "provision" THEN "provisioned" ELSE "not_provisioned"

Save(q) ==
  /\ At(q, "save")
  /\ row' = IF row.there THEN [row EXCEPT !.state = Outcome(req[q])] ELSE row
  /\ Answer(q)
  /\ UNCHANGED <<aws, hosts, service, left>>

(* The Lambda times out, or the database write fails after the AWS calls. *)
Killed(q) ==
  /\ left.kills > 0
  /\ req[q].pc # "idle"
  /\ Answer(q)
  /\ left' = [left EXCEPT !.kills = @ - 1, !.alone = FALSE]
  /\ UNCHANGED <<row, aws, hosts, service>>

(***************************************************************************)
(* Outside: instances, and the service on the cluster                      *)
(***************************************************************************)

Target == IF aws.group.there THEN aws.group.want ELSE 0

HostJoins ==
  /\ aws.ecs /\ hosts < Target
  /\ hosts' = hosts + 1
  /\ UNCHANGED <<row, aws, service, req, left>>

HostLeaves ==
  /\ hosts > Target
  /\ hosts' = hosts - 1
  /\ UNCHANGED <<row, aws, service, req, left>>

(* Managed scaling raises the group for tasks that wait. *)
ManagedScaling ==
  /\ aws.attached /\ aws.group.there /\ aws.group.want = 0
  /\ aws.provider.there /\ aws.provider.mode = "auto"
  /\ service = "running"
  /\ aws' = [aws EXCEPT !.group.want = 1]
  /\ UNCHANGED <<row, hosts, service, req, left>>

AssignService ==
  /\ row.there /\ service = "none"
  /\ service' = "assigned"
  /\ UNCHANGED <<row, aws, hosts, req, left>>

DeployService ==
  /\ service = "assigned"
  /\ row.there /\ row.state = "provisioned"
  /\ aws.ecs /\ (row.spec.type = "ec2" => aws.attached)
  /\ service' = "running"
  /\ UNCHANGED <<row, aws, hosts, req, left>>

RemoveService ==
  /\ service # "none"
  /\ service' = "none"
  /\ UNCHANGED <<row, aws, hosts, req, left>>

ClusterNext ==
  \/ \E s \in Settings : insertCluster(s)
  \/ \E q \in Requests :
       \/ \E s \in Settings : ReadForUpdate(q, s)
       \/ WriteUpdate(q)
       \/ ReadForRemove(q) \/ DeleteRow(q)
       \/ StartProvision(q) \/ ensureEcsCluster(q) \/ ensureTemplate(q)
       \/ ensureGroup(q) \/ ensureProvider(q) \/ attachProvider(q)
       \/ ProvisionRefused(q)
       \/ StartDeprovision(q) \/ detachProvider(q) \/ drainGroup(q)
       \/ deleteProvider(q) \/ deleteGroup(q) \/ deleteTemplate(q)
       \/ deleteEcsCluster(q) \/ DeprovisionRefused(q) \/ StillInUse(q)
       \/ CallFails(q) \/ Save(q) \/ Killed(q)
  \/ HostJoins \/ HostLeaves \/ ManagedScaling
  \/ AssignService \/ DeployService \/ RemoveService

ClusterSpec == ClusterInit /\ [][ClusterNext]_clusterVars

(***************************************************************************)
(* Properties                                                              *)
(***************************************************************************)

(* A request that meets no failure of its own converges, whatever half     *)
(* finished attempt it starts from: provisioning ends in "provisioned" and *)
(* deprovisioning in "not_provisioned" (provisioning.ts:200-214,           *)
(* microservice-infrastructure.ts:1384-1391).                              *)
RetryConverges ==
  [][\A q \in Requests :
       req[q].pc = "save" /\ ~req[q].hit =>
         (req'[q].pc = "idle" => Outcome(req[q]) # "failed")]_clusterVars

(* Requests one at a time and none stopped: a row that says there is       *)
(* nothing in AWS is right, so removing it strands nothing                 *)
(* (clusters.ts:586-589).                                                  *)
NothingLeftBehind ==
  left.alone /\ ~Busy /\ (row.there => row.state = "not_provisioned") => aws = Nothing

(* Requests one at a time and none stopped: a cluster shown provisioned    *)
(* has an attached provider, and the template and group of its row.        *)
ProvisionedIsWhole ==
  left.alone /\ ~Busy /\ row.there /\ row.state = "provisioned" =>
    /\ aws.ecs
    /\ row.spec.type = "ec2" =>
         /\ aws.attached /\ aws.provider.there /\ aws.template.there
         /\ aws.template.kind = row.spec.kind
         /\ aws.template.gpuImage = (row.spec.gpus > 0)
         /\ aws.group.there
         /\ aws.group.guard = (row.spec.mode = "auto")

(* What the registry says of a cluster nobody is working on is true, both  *)
(* ways: provisioned means whole, not_provisioned means nothing is left.   *)
ClusterSafety == ClusterTypeOK /\ ProvisionedIsWhole /\ NothingLeftBehind
=============================================================================
