------------------------- MODULE MicroserviceLaunch -------------------------
(***************************************************************************)
(* The life of one microservice: the registry rows of the service and of   *)
(* the cluster that belongs to it, what AWS has, and the requests of the   *)
(* admin API that bring the two together.                                  *)
(*                                                                         *)
(* One action is one SQL statement, or one run of AWS calls between two    *)
(* statements.  Requests are Lambda invocations: they interleave between   *)
(* any two actions, and may die at any action (Lambda timeout).  Reading a *)
(* row and deciding on it are one action; what a request remembers of a    *)
(* row is in its own record and may be stale when it is used.              *)
(***************************************************************************)
EXTENDS Integers, FiniteSets

CONSTANTS
  Requests,     \* slots for requests of the console and the webhook
  Reconcilers,  \* slots for the scheduled reconcile
  Ops,          \* the operations the console may ask for
  AutoDeploy,   \* auto_deploy: a push rebuilds the service
  MaxOps,       \* bound: requests served in a behaviour
  MaxBuilds,    \* bound: image builds CodeBuild accepts
  MaxHead,      \* bound: commits pushed to the branch
  MaxErrors,    \* bound: AWS and GitHub calls that fail
  MaxDeaths     \* bound: requests that die

Procs    == Requests \cup Reconcilers
BuildIds == 1..MaxBuilds
Commits  == 1..MaxHead

AllOps == {"launch", "provision", "check", "build", "stop", "deploy", "rollback", "poll",
           "dismiss", "deprovision", "teardown", "clusterUp", "clusterDown"}

ASSUME LaunchAssumption ==
  /\ Requests \cap Reconcilers = {} /\ Ops \subseteq AllOps
  /\ AutoDeploy \in BOOLEAN
  /\ MaxOps \in Nat /\ MaxBuilds \in Nat /\ MaxHead \in Nat \ {0}
  /\ MaxErrors \in Nat /\ MaxDeaths \in Nat

VARIABLES
  row,         \* microservice_clusters: the row of the service
  cluster,     \* compute_clusters.provision_state of its cluster
  stale,       \* row.updated_at is more than LAUNCH_STALL_SECONDS ago
  aws,         \* what exists on AWS; service: the image it runs, 0 for no service
  images,      \* the ECR repository: the commit behind every tag, 0 for no image
  builds,      \* CodeBuild: state, image tag and commit of every build; commit 0:
               \* not cloned yet, or succeeded and nothing pushed
  head,        \* head commit of the tracked branch
  deliveries,  \* pushes forwarded by the webhook and not handled yet
  req,         \* the requests being served
  robbed,      \* history: requests whose launch claim was overwritten
  misled,      \* history: a launch was overtaken, or the row misses its build
  ops, errors, deaths  \* bounded counters

registry == <<row, cluster, stale, robbed>>
world    == <<aws, images, builds>>
github   == <<head, deliveries>>
counters == <<ops, errors, deaths, misled>>
vars == <<row, cluster, stale, robbed, aws, images, builds, head, deliveries,
          req, ops, errors, deaths, misled>>

LaunchState    == {"none", "requested", "provisioning", "building", "deploying",
                   "running", "failed"}
LaunchInFlight == {"requested", "provisioning", "building", "deploying"}
BuildState     == {"never", "running", "succeeded", "failed", "stopped"}
Terminal       == {"succeeded", "failed", "stopped"}
ProvisionState == {"not_provisioned", "scaffolded", "provisioned", "failed"}

(* The steps of a request; "idle" is a free slot.                          *)
Steps ==
  {"idle", "claim", "scaffoldRead", "ensureCluster", "clusterRow", "scaffold",
   "scaffoldRow", "launchBuild", "buildRead", "check", "startBuild", "buildRow",
   "recordBuilding", "recordFailed", "recordRunning", "refresh", "status",
   "statusRow", "reread", "claimDeploy", "deployRead", "rollbackRead", "deploy",
   "deployRow", "stopRead", "stop", "stopRow", "dismiss", "deleteService",
   "deleteProject", "deleteRepository", "deprovisionRow", "clusterIfUp",
   "clusterCheck", "deleteCapacity", "deleteCluster", "clusterGoneRow",
   "teardown", "teardownCluster", "remove", "removeRows"}

(* pc, the operation, the launch state it has claimed, and what it          *)
(* remembers: a launch state, a build state, a build, an image tag, whether *)
(* the row was provisioned, whether an error occurred, whether images go.   *)
Request ==
  [pc : Steps, op : AllOps \cup {"push", "reconcile", "none"},
   owns : {"none", "provisioning", "deploying"}, launch : LaunchState,
   build : BuildState, bid : 0..MaxBuilds, tag : 0..MaxHead, was : BOOLEAN,
   err : BOOLEAN, wipe : BOOLEAN]

Idle == [pc |-> "idle", op |-> "none", owns |-> "none", launch |-> "none",
         build |-> "never", bid |-> 0, tag |-> 0, was |-> FALSE, err |-> FALSE,
         wipe |-> FALSE]

NewRow(l) == [exists |-> TRUE, launch |-> l, prov |-> "not_provisioned",
              arn |-> FALSE, project |-> FALSE, repo |-> FALSE,
              build |-> "never", bid |-> 0, tag |-> 0]
NoRow == [NewRow("none") EXCEPT !.exists = FALSE]

NoImages == [t \in Commits |-> 0]
Pushed   == {t \in Commits : images[t] # 0}

(* Tags of builds that succeeded having pushed nothing.                    *)
NeverPushed ==
  {builds[b].tag : b \in {c \in BuildIds : /\ builds[c].state = "succeeded"
                                           /\ builds[c].commit = 0}}

RowOK ==
  /\ row \in [exists : BOOLEAN, launch : LaunchState, prov : ProvisionState,
              arn : BOOLEAN, project : BOOLEAN, repo : BOOLEAN,
              build : BuildState, bid : 0..MaxBuilds, tag : 0..MaxHead]
  /\ cluster \in {"not_provisioned", "provisioned", "failed"}
  /\ stale \in BOOLEAN
  /\ robbed \subseteq Procs

WorldOK ==
  /\ aws \in [cluster : BOOLEAN, capacity : BOOLEAN, project : BOOLEAN,
              repo : BOOLEAN, service : 0..MaxHead]
  /\ images \in [Commits -> 0..MaxHead]
  /\ builds \in [BuildIds -> [state : BuildState, tag : 0..MaxHead, commit : 0..MaxHead]]

GithubOK   == head \in Commits /\ deliveries \in Nat
RequestsOK == req \in [Procs -> Request]
CountersOK ==
  /\ ops \in 0..MaxOps /\ errors \in 0..MaxErrors /\ deaths \in 0..MaxDeaths
  /\ misled \in BOOLEAN

TypeOK == RowOK /\ WorldOK /\ GithubOK /\ RequestsOK /\ CountersOK

Init ==
  /\ row = NoRow
  /\ cluster = "not_provisioned"
  /\ stale = FALSE
  /\ robbed = {}
  /\ aws = [cluster |-> FALSE, capacity |-> FALSE, project |-> FALSE,
            repo |-> FALSE, service |-> 0]
  /\ images = NoImages
  /\ builds = [b \in BuildIds |-> [state |-> "never", tag |-> 0, commit |-> 0]]
  /\ head = 1
  /\ deliveries = 0
  /\ req = [p \in Procs |-> Idle]
  /\ ops = 0 /\ errors = 0 /\ deaths = 0 /\ misled = FALSE

-----------------------------------------------------------------------------
(* Helpers                                                                 *)

At(p, step) == req[p].pc = step

(* The request goes on with a new record, or ends.                         *)
Becomes(p, r) == req' = [req EXCEPT ![p] = r]
Goto(p, step) == Becomes(p, [req[p] EXCEPT !.pc = step])
Forgets(p, step) ==
  Becomes(p, [Idle EXCEPT !.pc = step, !.op = req[p].op, !.owns = req[p].owns])
Ends(p)       == Becomes(p, Idle) /\ robbed' = robbed \ {p}

(* An exception: a launch or deploy that holds a claim records the failure. *)
Throws(p) == IF req[p].owns = "none" THEN Ends(p)
             ELSE Forgets(p, "recordFailed") /\ UNCHANGED robbed

(* UPDATE microservice_clusters ... WHERE name: no row, no effect.         *)
Update(new) ==
  IF row.exists THEN row' = new /\ stale' = FALSE ELSE UNCHANGED <<row, stale>>

(* Writing launch_state ends the hold of every other request that has one. *)
Holders(p) == {q \in Procs \ {p} : req[q].owns # "none"}

(* The writer does not know whose launch it ends, and then another launch  *)
(* may begin before that one is done.                                      *)
Overtakes(p) ==
  misled' = (misled \/ \E q \in Holders(p) : req[q].owns = "provisioning")

Fault == errors < MaxErrors /\ errors' = errors + 1

(* AWS calls that change aws to new: they succeed, or one fails before or   *)
(* after it took effect, which may leave any of partial.                   *)
Call(p, new, partial, next) ==
  \/ /\ aws' = new /\ UNCHANGED errors
     /\ Goto(p, next)
  \/ /\ Fault
     /\ aws' \in {aws, new} \cup partial
     /\ Becomes(p, [req[p] EXCEPT !.pc = next, !.err = TRUE])

-----------------------------------------------------------------------------
(* createMicroservice: both rows, in one transaction; the source has been  *)
(* checked, and the console may ask for a launch.                          *)
CreateMicroservice ==
  /\ ~row.exists /\ ops < MaxOps
  /\ ops' = ops + 1
  /\ \E l \in {"none", "requested"} : row' = NewRow(l)
  /\ cluster' = "not_provisioned" /\ stale' = FALSE
  /\ UNCHANGED <<robbed, world, github, req, errors, deaths, misled>>

FirstStep ==
  [launch |-> "claim", provision |-> "scaffoldRead", check |-> "check", build |-> "buildRead",
   stop |-> "stopRead", deploy |-> "deployRead", rollback |-> "rollbackRead",
   poll |-> "refresh", dismiss |-> "dismiss", deprovision |-> "deleteService",
   teardown |-> "teardown", clusterUp |-> "ensureCluster",
   clusterDown |-> "clusterCheck"]

(* A request of the console arrives.  One that names no service is a 404.  *)
StartRequest(p, op, wipe) ==
  /\ At(p, "idle") /\ row.exists /\ ops < MaxOps
  /\ wipe => op \in {"deprovision", "teardown"}
  /\ ops' = ops + 1
  /\ Becomes(p, [Idle EXCEPT !.pc = FirstStep[op], !.op = op, !.wipe = wipe])
  /\ UNCHANGED <<registry, world, github, errors, deaths, misled>>

(* GitHub delivers a push; the webhook forwards it asynchronously.         *)
GithubPush ==
  /\ head < MaxHead
  /\ head' = head + 1 /\ deliveries' = deliveries + 1
  /\ UNCHANGED <<registry, world, req, counters>>

(* handlePushEvent: a push joins a launch that is in flight.               *)
HandlePushEvent(p) ==
  /\ At(p, "idle") /\ deliveries > 0
  /\ deliveries' = deliveries - 1
  /\ IF row.exists /\ AutoDeploy /\ row.launch \notin LaunchInFlight
     THEN Becomes(p, [Idle EXCEPT !.pc = "claim", !.op = "push"])
     ELSE UNCHANGED req
  /\ UNCHANGED <<registry, world, head, counters>>

(* Mutant: only what no request owns is picked up.                         *)
MutReconcileOwnerless(p) ==
  /\ At(p, "idle") /\ row.exists
  /\ \/ /\ row.launch = "requested"
        /\ Becomes(p, [Idle EXCEPT !.pc = "claim", !.op = "reconcile"])
     \/ /\ row.launch = "building"
        /\ Becomes(p, [Idle EXCEPT !.pc = "refresh", !.op = "reconcile"])
  /\ UNCHANGED <<registry, world, github, counters>>

(* reconcileLaunches: what it would pick up.                               *)
ReconcileLaunches(p) ==
  /\ At(p, "idle") /\ row.exists
  /\ \/ /\ row.launch = "requested" \/ (row.launch = "provisioning" /\ stale)
        /\ Becomes(p, [Idle EXCEPT !.pc = "claim", !.op = "reconcile"])
     \/ /\ row.launch = "building" \/ (row.launch = "deploying" /\ stale)
        /\ Becomes(p, [Idle EXCEPT !.pc = "refresh", !.op = "reconcile"])
  /\ UNCHANGED <<registry, world, github, counters>>

(* A request lives 30 s and the claims go stale after 120 s, so whatever   *)
(* wrote the row last is gone.                                             *)
ClaimGoesStale ==
  /\ row.launch \in {"provisioning", "deploying"} /\ ~stale
  /\ \A p \in Procs : At(p, "idle")
  /\ stale' = TRUE
  /\ UNCHANGED <<row, cluster, robbed, world, github, req, counters>>

(* The Lambda times out, or is killed, between two steps.  A push was      *)
(* forwarded asynchronously, and Lambda invokes it again.                  *)
Die(p) ==
  /\ ~At(p, "idle") /\ deaths < MaxDeaths
  /\ deaths' = deaths + 1
  /\ Ends(p)
  /\ deliveries' = IF req[p].op = "push" THEN deliveries + 1 ELSE deliveries
  /\ misled' = (misled \/ At(p, "buildRow"))
  /\ UNCHANGED <<row, cluster, stale, world, head, ops, errors>>

-----------------------------------------------------------------------------
(* launchMicroservice                                                      *)

(* Mutant: the claim is an UPDATE without its WHERE.                       *)
MutClaimAlways(p) ==
  /\ At(p, "claim")
  /\ Update([row EXCEPT !.launch = "provisioning"])
  /\ robbed' = robbed \cup Holders(p)
  /\ Becomes(p, [req[p] EXCEPT !.pc = "scaffoldRead", !.owns = "provisioning"])
  /\ UNCHANGED <<cluster, world, github, counters>>

ClaimLaunch(p) ==
  /\ At(p, "claim")
  /\ IF row.exists /\ (row.launch # "provisioning" \/ stale)
     THEN /\ Update([row EXCEPT !.launch = "provisioning"])
          /\ robbed' = robbed \cup Holders(p)
          /\ Becomes(p, [req[p] EXCEPT !.pc = "scaffoldRead", !.owns = "provisioning"])
     ELSE UNCHANGED <<row, stale>> /\ Ends(p)
  /\ UNCHANGED <<cluster, world, github, counters>>

(* provisionMicroservice: the row, then its cluster.                       *)
ReadForScaffold(p) ==
  /\ At(p, "scaffoldRead")
  /\ IF row.exists
     THEN /\ Becomes(p, [req[p] EXCEPT
                !.was = (row.prov = "provisioned"),
                !.pc = IF cluster = "provisioned" THEN "scaffold" ELSE "ensureCluster"])
          /\ UNCHANGED robbed
     ELSE Throws(p)
  /\ UNCHANGED <<row, cluster, stale, world, github, counters>>

(* provisionCluster: the ECS cluster, then its capacity.                   *)
EnsureCluster(p) ==
  /\ At(p, "ensureCluster")
  /\ IF row.exists
     THEN /\ Call(p, [aws EXCEPT !.cluster = TRUE, !.capacity = TRUE],
                  {[aws EXCEPT !.cluster = TRUE]}, "clusterRow")
          /\ UNCHANGED robbed
     ELSE Throws(p) /\ UNCHANGED <<aws, errors>>
  /\ UNCHANGED <<row, cluster, stale, images, builds, github, ops, deaths, misled>>

(* Mutant: the cluster gets the state of a service.                        *)
MutClusterScaffolded(p) ==
  /\ At(p, "clusterRow")
  /\ cluster' = IF ~row.exists THEN cluster
                ELSE IF req[p].err THEN "failed" ELSE "scaffolded"
  /\ IF req[p].op = "clusterUp" THEN Ends(p)
     ELSE Goto(p, "scaffold") /\ UNCHANGED robbed
  /\ UNCHANGED <<row, stale, world, github, counters>>

RecordCluster(p) ==
  /\ At(p, "clusterRow")
  /\ cluster' = IF ~row.exists THEN cluster
                ELSE IF req[p].err THEN "failed" ELSE "provisioned"
  /\ IF req[p].op = "clusterUp" THEN Ends(p)
     ELSE Goto(p, "scaffold") /\ UNCHANGED robbed
  /\ UNCHANGED <<row, stale, world, github, counters>>

(* The image repository, the log groups and the build project, whatever    *)
(* became of the cluster.                                                  *)
EnsureScaffold(p) ==
  /\ At(p, "scaffold")
  /\ Call(p, [aws EXCEPT !.project = TRUE, !.repo = TRUE],
          {[aws EXCEPT !.project = TRUE], [aws EXCEPT !.repo = TRUE]}, "scaffoldRow")
  /\ UNCHANGED <<registry, images, builds, github, ops, deaths, misled>>

(* Mutant: a failure is reported, not recorded.                            *)
MutScaffoldFailureDropped(p) ==
  /\ At(p, "scaffoldRow")
  /\ IF req[p].err THEN UNCHANGED <<row, stale>>
     ELSE Update([row EXCEPT
            !.prov = IF req[p].was THEN "provisioned" ELSE "scaffolded",
            !.project = TRUE, !.repo = TRUE])
  /\ IF req[p].owns = "none" THEN Ends(p)
     ELSE /\ Forgets(p, IF req[p].err THEN "recordFailed" ELSE "launchBuild")
          /\ UNCHANGED robbed
  /\ UNCHANGED <<cluster, world, github, counters>>

RecordScaffold(p) ==
  /\ At(p, "scaffoldRow")
  /\ Update([row EXCEPT
       !.prov = IF req[p].err THEN "failed"
                ELSE IF req[p].was THEN "provisioned" ELSE "scaffolded",
       !.project = TRUE, !.repo = TRUE])
  /\ IF req[p].owns = "none" THEN Ends(p)
     ELSE /\ Forgets(p, IF req[p].err THEN "recordFailed" ELSE "launchBuild")
          /\ UNCHANGED robbed
  /\ UNCHANGED <<cluster, world, github, counters>>

(* A build in flight is the build this launch waits for.                   *)
LaunchBuildOrJoin(p) ==
  /\ At(p, "launchBuild")
  /\ IF row.exists
     THEN /\ Goto(p, IF row.build = "running" THEN "recordBuilding" ELSE "buildRead")
          /\ UNCHANGED robbed
     ELSE Throws(p)
  /\ UNCHANGED <<row, cluster, stale, world, github, counters>>

(* buildMicroservice: the guards, on the row as it is read.                *)
ReadForBuild(p) ==
  /\ At(p, "buildRead")
  /\ IF row.exists /\ row.project /\ row.build # "running"
     THEN Goto(p, "check") /\ UNCHANGED robbed
     ELSE Throws(p)
  /\ UNCHANGED <<row, cluster, stale, world, github, counters>>

(* checkMicroservice: the branch head becomes the tag.  updated_at moves    *)
(* also when the source is unusable, unless GitHub cannot be reached.       *)
CheckSource(p) ==
  /\ At(p, "check")
  /\ \/ /\ row.exists /\ Update(row) /\ UNCHANGED errors
        /\ IF req[p].op = "check" THEN Ends(p)
           ELSE /\ Becomes(p, [req[p] EXCEPT !.pc = "startBuild", !.tag = head])
                /\ UNCHANGED robbed
     \/ /\ ~row.exists /\ Throws(p)
        /\ UNCHANGED <<row, stale, errors>>
     \/ /\ row.exists /\ Fault /\ Throws(p)
        /\ Update(row) \/ UNCHANGED <<row, stale>>
  /\ UNCHANGED <<cluster, world, github, ops, deaths, misled>>

StartImageBuild(p) ==
  /\ At(p, "startBuild")
  /\ LET free == {b \in BuildIds : builds[b].state = "never"} IN
     \/ /\ aws.project
        /\ \E b \in free :
             /\ \A c \in free : b <= c
             /\ builds' = [builds EXCEPT ![b] = 
                  [state |-> "running", tag |-> req[p].tag, commit |-> 0]]
             /\ Becomes(p, [req[p] EXCEPT !.pc = "buildRow", !.bid = b])
        /\ UNCHANGED <<robbed, errors>>
     \/ /\ ~aws.project \/ free = {}
        /\ Throws(p) /\ UNCHANGED <<builds, errors>>
     \/ Fault /\ Throws(p) /\ UNCHANGED builds
  /\ UNCHANGED <<row, cluster, stale, aws, images, github, ops, deaths, misled>>

RecordBuild(p) ==
  /\ At(p, "buildRow")
  /\ Update([row EXCEPT !.bid = req[p].bid, !.build = "running", !.tag = req[p].tag])
  /\ IF req[p].owns = "none" THEN Ends(p)
     ELSE Forgets(p, "recordBuilding") /\ UNCHANGED robbed
  /\ UNCHANGED <<cluster, world, github, counters>>

(* recordLaunch is not conditional on the state the request claimed.       *)
RecordLaunch(p, l) ==
  /\ Update([row EXCEPT !.launch = l])
  /\ robbed' = (robbed \cup Holders(p)) \ {p} /\ Overtakes(p)
  /\ Becomes(p, Idle)
  /\ UNCHANGED <<cluster, world, github, ops, errors, deaths>>

RecordBuilding(p) == At(p, "recordBuilding") /\ RecordLaunch(p, "building")
RecordFailed(p)   == At(p, "recordFailed")   /\ RecordLaunch(p, "failed")
RecordRunning(p)  == At(p, "recordRunning")  /\ RecordLaunch(p, "running")
ClearLaunch(p)    == At(p, "dismiss")        /\ RecordLaunch(p, "none")

-----------------------------------------------------------------------------
(* CodeBuild                                                               *)

(* The build clones the branch when it runs, not when it was asked for.     *)
CloneSource(b) ==
  /\ builds[b].state = "running" /\ builds[b].commit = 0
  /\ builds' = [builds EXCEPT ![b].commit = head]
  /\ UNCHANGED <<registry, aws, images, github, req, counters>>

BuildSucceeds(b) ==
  /\ builds[b].state = "running" /\ builds[b].commit # 0 /\ aws.repo
  /\ builds' = [builds EXCEPT ![b].state = "succeeded"]
  /\ images' = [images EXCEPT ![builds[b].tag] = builds[b].commit]
  /\ UNCHANGED <<registry, aws, github, req, counters>>

(* A build that reports SUCCEEDED may have pushed nothing "if its final     *)
(* phase was skipped" (refreshBuild); its tag is in the repository then    *)
(* only if an earlier build put it there.                                  *)
BuildPushesNothing(b) ==
  /\ builds[b].state = "running"
  /\ builds' = [builds EXCEPT ![b].state = "succeeded", ![b].commit = 0]
  /\ UNCHANGED <<registry, aws, images, github, req, counters>>

BuildFails(b) ==
  /\ builds[b].state = "running"
  /\ builds' = [builds EXCEPT ![b].state = "failed"]
  /\ UNCHANGED <<registry, aws, images, github, req, counters>>

-----------------------------------------------------------------------------
(* microserviceStatus and the reconcile: advanceLaunch(refreshBuild(name)) *)

(* What advanceLaunch decides on the row refreshBuild returned.            *)
NextAdvance(r) ==
  IF r.launch \notin {"building", "deploying"} THEN "idle"
  ELSE IF r.launch = "deploying" \/ r.build = "succeeded" THEN "claimDeploy"
  ELSE IF r.build = "running" THEN "idle"
  ELSE "recordFailed"

AdvanceLaunch(p) ==
  IF row.exists /\ NextAdvance(row) # "idle"
  THEN /\ Becomes(p, [req[p] EXCEPT !.pc = NextAdvance(row), !.launch = row.launch,
                                    !.build = "never", !.bid = 0])
       /\ UNCHANGED robbed
  ELSE Ends(p)

RefreshBuild(p) ==
  /\ At(p, "refresh")
  /\ IF row.exists /\ row.bid # 0 /\ row.build \notin Terminal
     THEN /\ Becomes(p, [req[p] EXCEPT !.pc = "status", !.bid = row.bid])
          /\ UNCHANGED robbed
     ELSE AdvanceLaunch(p)
  /\ UNCHANGED <<row, cluster, stale, world, github, counters>>

BuildStatus(p) ==
  /\ At(p, "status")
  /\ \/ /\ Becomes(p, [req[p] EXCEPT !.pc = "statusRow",
                                     !.build = builds[req[p].bid].state])
        /\ UNCHANGED <<robbed, errors>>
     \/ Fault /\ Ends(p)
  /\ UNCHANGED <<row, cluster, stale, world, github, ops, deaths, misled>>

(* The row is named, its build is not.                                     *)
RecordStatus(p) ==
  /\ At(p, "statusRow")
  /\ Update([row EXCEPT !.build = req[p].build])
  /\ misled' = (misled \/ (row.exists /\ row.bid # req[p].bid))
  /\ IF row.exists THEN Goto(p, "reread") /\ UNCHANGED robbed ELSE Ends(p)
  /\ UNCHANGED <<cluster, world, github, ops, errors, deaths>>

Reread(p) ==
  /\ At(p, "reread")
  /\ AdvanceLaunch(p)
  /\ UNCHANGED <<row, cluster, stale, world, github, counters>>

ClaimDeploy(p) ==
  /\ At(p, "claimDeploy")
  /\ IF row.exists /\ row.launch = req[p].launch
                   /\ (req[p].launch # "deploying" \/ stale)
     THEN /\ Update([row EXCEPT !.launch = "deploying"])
          /\ robbed' = robbed \cup Holders(p)
          /\ Becomes(p, [req[p] EXCEPT !.pc = "deployRead", !.owns = "deploying",
                                       !.launch = "none"])
     ELSE UNCHANGED <<row, stale>> /\ Ends(p)
  /\ UNCHANGED <<cluster, world, github, counters>>

(* Mutant: an image tag is taken for an image.                             *)
MutDeployAnyTag == row.exists /\ cluster # "not_provisioned" /\ row.repo /\ row.tag # 0

(* deployMicroservice: the guards, and the image of the row as it is read. *)
Deployable == /\ row.exists /\ cluster # "not_provisioned"
              /\ row.repo /\ row.tag # 0 /\ row.build = "succeeded"

ReadForDeploy(p) ==
  /\ At(p, "deployRead")
  /\ IF Deployable
     THEN /\ Becomes(p, [req[p] EXCEPT !.pc = "deploy", !.tag = row.tag, !.was = row.arn])
          /\ UNCHANGED robbed
     ELSE Throws(p)
  /\ UNCHANGED <<row, cluster, stale, world, github, counters>>

(* rollbackMicroservice: an image that is in the repository.               *)
ReadForRollback(p) ==
  /\ At(p, "rollbackRead")
  /\ \/ /\ row.exists /\ row.repo /\ cluster # "not_provisioned"
        /\ \E t \in Pushed :
             Becomes(p, [req[p] EXCEPT !.pc = "deploy", !.tag = t, !.was = row.arn])
        /\ UNCHANGED robbed
     \/ /\ ~(row.exists /\ row.repo /\ cluster # "not_provisioned") \/ Pushed = {}
        /\ Ends(p)
  /\ UNCHANGED <<row, cluster, stale, world, github, counters>>

(* Task definition, service and scaling; there is no service without its   *)
(* ECS cluster.                                                            *)
DeployService(p) ==
  /\ At(p, "deploy")
  /\ \/ /\ aws.cluster
        /\ aws' = [aws EXCEPT !.service = req[p].tag]
        /\ \/ /\ Becomes(p, [req[p] EXCEPT !.pc = "deployRow", !.was = TRUE])
              /\ UNCHANGED errors
           \/ /\ Fault
              /\ Becomes(p, [req[p] EXCEPT !.pc = "deployRow", !.was = TRUE,
                                           !.err = TRUE])
     \/ /\ IF aws.cluster THEN Fault ELSE UNCHANGED errors
        /\ Becomes(p, [req[p] EXCEPT !.pc = "deployRow", !.err = TRUE])
        /\ UNCHANGED aws
  /\ UNCHANGED <<registry, images, builds, github, ops, deaths, misled>>

RecordDeploy(p) ==
  /\ At(p, "deployRow")
  /\ Update([row EXCEPT
       !.prov = IF req[p].err THEN "failed" ELSE "provisioned",
       !.arn  = @ \/ req[p].was,
       !.tag  = IF req[p].op = "rollback" THEN req[p].tag ELSE @])
  /\ IF req[p].owns = "none" THEN Ends(p)
     ELSE /\ Forgets(p, IF req[p].err THEN "recordFailed" ELSE "recordRunning")
          /\ UNCHANGED robbed
  /\ UNCHANGED <<cluster, world, github, counters>>

-----------------------------------------------------------------------------
(* stopMicroserviceBuild                                                   *)

ReadForStop(p) ==
  /\ At(p, "stopRead")
  /\ IF row.exists /\ row.bid # 0
     THEN Becomes(p, [req[p] EXCEPT !.pc = "stop", !.bid = row.bid]) /\ UNCHANGED robbed
     ELSE Ends(p)
  /\ UNCHANGED <<row, cluster, stale, world, github, counters>>

StopBuild(p) ==
  /\ At(p, "stop")
  /\ \/ /\ builds' = IF builds[req[p].bid].state = "running"
                     THEN [builds EXCEPT ![req[p].bid].state = "stopped"] ELSE builds
        /\ UNCHANGED errors
     \/ Fault /\ UNCHANGED builds
  /\ Goto(p, "stopRow")
  /\ UNCHANGED <<registry, aws, images, github, ops, deaths, misled>>

RecordStop(p) ==
  /\ At(p, "stopRow")
  /\ IF row.build = "running" THEN Update([row EXCEPT !.build = "stopped"])
     ELSE UNCHANGED <<row, stale>>
  /\ Ends(p)
  /\ UNCHANGED <<cluster, world, github, counters>>

-----------------------------------------------------------------------------
(* deprovisionMicroservice                                                 *)

DeleteService(p) ==
  /\ At(p, "deleteService")
  /\ Call(p, [aws EXCEPT !.service = 0], {}, "deleteProject")
  /\ UNCHANGED <<registry, images, builds, github, ops, deaths, misled>>

DeleteProject(p) ==
  /\ At(p, "deleteProject")
  /\ Call(p, [aws EXCEPT !.project = FALSE], {},
          IF req[p].wipe THEN "deleteRepository" ELSE "deprovisionRow")
  /\ UNCHANGED <<registry, images, builds, github, ops, deaths, misled>>

(* Only if asked for: with its images.                                     *)
DeleteRepository(p) ==
  /\ At(p, "deleteRepository")
  /\ Call(p, [aws EXCEPT !.repo = FALSE], {}, "deprovisionRow")
  /\ images' = IF aws'.repo THEN images ELSE NoImages
  /\ UNCHANGED <<registry, builds, github, ops, deaths, misled>>

(* The row forgets the service whether or not AWS deleted it.              *)
RecordDeprovision(p) ==
  /\ At(p, "deprovisionRow")
  /\ LET wiped == IF req[p].wipe
                  THEN [row EXCEPT !.repo = FALSE, !.tag = 0, !.build = "never", !.bid = 0]
                  ELSE row
     IN Update([wiped EXCEPT
          !.prov = IF req[p].err THEN "failed" ELSE "not_provisioned",
          !.launch = "none", !.arn = FALSE, !.project = FALSE])
  /\ IF req[p].err
     THEN Becomes(p, Idle) /\ robbed' = (robbed \cup Holders(p)) \ {p}
     ELSE Forgets(p, "clusterIfUp") /\ robbed' = robbed \cup Holders(p)
  /\ Overtakes(p)
  /\ UNCHANGED <<cluster, world, github, ops, errors, deaths>>

(* The cluster goes too, if there is one.                                  *)
ClusterIfUp(p) ==
  /\ At(p, "clusterIfUp")
  /\ IF row.exists /\ cluster # "not_provisioned"
     THEN Goto(p, "clusterCheck") /\ UNCHANGED robbed
     ELSE IF row.exists /\ req[p].op = "teardown"
     THEN Goto(p, "teardownCluster") /\ UNCHANGED robbed
     ELSE Ends(p)
  /\ UNCHANGED <<row, cluster, stale, world, github, counters>>

(* deprovisionCluster: refused while the registry says a service runs.     *)
CheckClusterFree(p) ==
  /\ At(p, "clusterCheck")
  /\ IF row.exists /\ row.prov # "provisioned" /\ ~row.arn
     THEN Goto(p, "deleteCapacity") /\ UNCHANGED robbed
     ELSE Ends(p)
  /\ UNCHANGED <<row, cluster, stale, world, github, counters>>

DeleteCapacity(p) ==
  /\ At(p, "deleteCapacity")
  /\ Call(p, [aws EXCEPT !.capacity = FALSE], {}, "deleteCluster")
  /\ UNCHANGED <<registry, images, builds, github, ops, deaths, misled>>

(* ECS refuses to delete a cluster that has a service.                     *)
DeleteCluster(p) ==
  /\ At(p, "deleteCluster")
  /\ IF aws.service = 0
     THEN Call(p, [aws EXCEPT !.cluster = FALSE], {}, "clusterGoneRow")
     ELSE /\ Becomes(p, [req[p] EXCEPT !.pc = "clusterGoneRow", !.err = TRUE])
          /\ UNCHANGED <<aws, errors>>
  /\ UNCHANGED <<registry, images, builds, github, ops, deaths, misled>>

(* Mutant: the cluster is recorded as gone whether or not AWS deleted it.  *)
MutClusterAlwaysGone(p) ==
  /\ At(p, "clusterGoneRow")
  /\ cluster' = "not_provisioned"
  /\ IF req[p].op = "teardown" /\ ~req[p].err
     THEN /\ Goto(p, IF req[p].was THEN "remove" ELSE "teardownCluster")
          /\ UNCHANGED robbed
     ELSE Ends(p)
  /\ UNCHANGED <<row, stale, world, github, counters>>

RecordClusterGone(p) ==
  /\ At(p, "clusterGoneRow")
  /\ cluster' = IF ~row.exists THEN cluster
                ELSE IF req[p].err THEN "failed" ELSE "not_provisioned"
  /\ IF req[p].op = "teardown" /\ ~req[p].err
     THEN /\ Goto(p, IF req[p].was THEN "remove" ELSE "teardownCluster")
          /\ UNCHANGED robbed
     ELSE Ends(p)
  /\ UNCHANGED <<row, stale, world, github, counters>>

-----------------------------------------------------------------------------
(* teardownMicroservice                                                    *)

Teardown(p) ==
  /\ At(p, "teardown")
  /\ IF row.exists
     THEN /\ Goto(p, IF row.prov # "not_provisioned" THEN "deleteService"
                     ELSE "teardownCluster")
          /\ UNCHANGED robbed
     ELSE Ends(p)
  /\ UNCHANGED <<row, cluster, stale, world, github, counters>>

(* The cluster, if the service's own teardown did not take it.             *)
TeardownCluster(p) ==
  /\ At(p, "teardownCluster")
  /\ IF row.exists
     THEN /\ Becomes(p, [req[p] EXCEPT !.was = TRUE,
               !.pc = IF cluster # "not_provisioned" THEN "clusterCheck" ELSE "remove"])
          /\ UNCHANGED robbed
     ELSE Ends(p)
  /\ UNCHANGED <<row, cluster, stale, world, github, counters>>

(* removeMicroservice: the guards, then an unconditional delete.           *)
ReadForRemove(p) ==
  /\ At(p, "remove")
  /\ IF row.exists /\ row.prov = "not_provisioned" /\ cluster = "not_provisioned"
     THEN Goto(p, "removeRows") /\ UNCHANGED robbed
     ELSE Ends(p)
  /\ UNCHANGED <<row, cluster, stale, world, github, counters>>

RemoveRows(p) ==
  /\ At(p, "removeRows")
  /\ row' = NoRow /\ cluster' = "not_provisioned" /\ stale' = FALSE
  /\ robbed' = (robbed \cup Holders(p)) \ {p} /\ Overtakes(p)
  /\ Becomes(p, Idle)
  /\ UNCHANGED <<world, github, ops, errors, deaths>>

-----------------------------------------------------------------------------
LaunchStep(p) ==
  \/ ClaimLaunch(p) \/ ReadForScaffold(p) \/ EnsureCluster(p) \/ RecordCluster(p)
  \/ EnsureScaffold(p) \/ RecordScaffold(p) \/ LaunchBuildOrJoin(p)
  \/ ReadForBuild(p) \/ CheckSource(p) \/ StartImageBuild(p) \/ RecordBuild(p)
  \/ RecordBuilding(p) \/ RecordFailed(p) \/ RecordRunning(p) \/ ClearLaunch(p)

AdvanceStep(p) ==
  \/ RefreshBuild(p) \/ BuildStatus(p) \/ RecordStatus(p) \/ Reread(p)
  \/ ClaimDeploy(p) \/ ReadForDeploy(p) \/ ReadForRollback(p)
  \/ DeployService(p) \/ RecordDeploy(p)
  \/ ReadForStop(p) \/ StopBuild(p) \/ RecordStop(p)

TeardownStep(p) ==
  \/ DeleteService(p) \/ DeleteProject(p) \/ DeleteRepository(p)
  \/ RecordDeprovision(p) \/ ClusterIfUp(p) \/ CheckClusterFree(p)
  \/ DeleteCapacity(p) \/ DeleteCluster(p) \/ RecordClusterGone(p)
  \/ Teardown(p) \/ TeardownCluster(p) \/ ReadForRemove(p) \/ RemoveRows(p)

BuildStep(b) == CloneSource(b) \/ BuildSucceeds(b) \/ BuildPushesNothing(b) \/ BuildFails(b)

Proceed(p) == LaunchStep(p) \/ AdvanceStep(p) \/ TeardownStep(p)

Next ==
  \/ CreateMicroservice \/ GithubPush \/ ClaimGoesStale
  \/ \E p \in Requests :
       \/ \E op \in Ops, wipe \in BOOLEAN : StartRequest(p, op, wipe)
       \/ HandlePushEvent(p)
  \/ \E p \in Reconcilers : ReconcileLaunches(p)
  \/ \E p \in Procs : Proceed(p) \/ Die(p)
  \/ \E b \in BuildIds : BuildStep(b)

Spec == Init /\ [][Next]_vars

(* A request runs on to its answer unless it dies, the schedule runs, time *)
(* passes, a build ends (CodeBuild stops one at its timeout), and a        *)
(* forwarded push is handled.  Nothing is assumed of operators.            *)
Fairness ==
  /\ WF_vars(ClaimGoesStale)
  /\ \A p \in Procs : WF_vars(Proceed(p))
  /\ \A p \in Reconcilers : WF_vars(ReconcileLaunches(p))
  /\ \A b \in BuildIds : WF_vars(BuildStep(b))
  /\ WF_vars(\E p \in Requests : HandlePushEvent(p))

FairSpec == Spec /\ Fairness
-----------------------------------------------------------------------------
(* PROPERTIES                                                              *)

(* A claim is never taken from a live request that has one: "granted once   *)
(* that hold is older than any live request could possibly be"             *)
(* (claimLaunch).  Two holds are not protected, and are excluded: one that  *)
(* recordLaunch has overwritten, and a deploy from a new launch.            *)
ClaimRespected ==
  [][\A p, q \in Procs :
       (/\ req[p].owns = "none" /\ req'[p].owns # "none"
        /\ q # p /\ q \notin robbed)
         => \/ req[q].owns = "none"
            \/ req'[p].owns = "provisioning" /\ req[q].owns = "deploying"]_vars

(* A launch that was asked for comes to an end, whichever request dies on  *)
(* the way and whether or not anybody polls (reconcileLaunches: "this is   *)
(* the one that has to be true").                                          *)
LaunchSettles ==
  (row.launch \in LaunchInFlight) ~> (row.launch \notin LaunchInFlight)

AtRest == \A p \in Procs : At(p, "idle")

(* "The opposite order is how a cluster ends up running with nothing in    *)
(* the console pointing at it" (teardownMicroservice): when the rows are   *)
(* gone, nothing that bills is left but a repository that was to be kept.  *)
NothingStranded ==
  ~row.exists => /\ ~aws.cluster /\ ~aws.capacity /\ ~aws.project
                 /\ aws.service = 0

(* Between requests, the registry does not deny what AWS has: calls that   *)
(* failed half way leave the row in a state teardown will act on.          *)
RegistryTruthful ==
  AtRest /\ row.exists =>
    /\ row.prov = "not_provisioned" => aws.service = 0 /\ ~aws.project
    /\ cluster = "not_provisioned" => ~aws.cluster /\ ~aws.capacity
    /\ row.launch = "running" => aws.service # 0

(* "A service deployed without [an image] starts tasks that fail to pull   *)
(* and retry forever" (deployMicroservice): a service is only ever pointed *)
(* at an image that is in the repository.  Excepted is the tag of a build  *)
(* that succeeded having pushed nothing: refreshBuild looks for the digest *)
(* and finds none, but the guards of the deploy read build_state alone, so *)
(* the code does deploy it.                                                *)
DeployedImageExists ==
  [][aws'.service \notin {0, aws.service}
       => aws'.service \in Pushed \cup NeverPushed]_vars

(* One build at a time: a build in flight is "the build this launch is     *)
(* waiting for rather than a reason to start a second" (launchMicroservice).*)
(* What reads the row cannot know better than the row: excepted are a      *)
(* launch whose claim was overwritten while it lived, a row that was given *)
(* the state of another build than it names, and a request that died       *)
(* between CodeBuild's answer and the UPDATE that names the build.         *)
OneBuild ==
  misled \/ Cardinality({b \in BuildIds : builds[b].state = "running"}) <= 1

=============================================================================
