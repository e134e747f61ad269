---------------------- MODULE MicroserviceLaunchProofs ----------------------
(***************************************************************************)
(* What the launch lifecycle guarantees for any bounds.                    *)
(*                                                                         *)
(* That a launch claim is a lock, for any number of requests.  The         *)
(* invariant says of every request that holds a claim nobody has           *)
(* overwritten that the row still shows it and is not stale.  A claim is   *)
(* granted only on a row that shows another state or is stale, so it       *)
(* cannot be granted over such a hold.                                     *)
(*                                                                         *)
(* That the registry is true to AWS while one request is served at a time  *)
(* (SerialInv): each step of the request bounds what the rows may deny.    *)
(*                                                                         *)
(* That builds are joined, for any number of requests (JoinInv): one       *)
(* request holds a launch, only it starts a build, and the row shows       *)
(* whatever is running, or the request is about to write it there.         *)
(***************************************************************************)
EXTENDS MicroserviceLaunch, FiniteSetTheorems, TLAPS

(* Steps of a request that cannot be holding a claim.                      *)
Unclaimed == {"idle", "teardown", "deleteService", "deleteProject",
              "deleteRepository", "deprovisionRow"}

Session(r) ==
  /\ r.pc \in Unclaimed => r.owns = "none"
  /\ r.pc = "claimDeploy" => r.launch \in {"building", "deploying"}
  /\ r.pc = "status" => r.bid # 0

SessionsOK == \A p \in Procs : Session(req[p])

HoldersOK ==
  \A q \in Procs \ robbed :
    req[q].owns # "none" => row.exists /\ row.launch = req[q].owns /\ ~stale

ClaimInv == SessionsOK /\ HoldersOK
IInv == TypeOK /\ ClaimInv

(* A request that goes on without taking a claim.                          *)
Quiet(p) ==
  \E r \in Request :
    /\ Becomes(p, r) /\ Session(r)
    /\ r.owns \in {req[p].owns, "none"}
    /\ robbed' = robbed \/ (robbed' = robbed \ {p} /\ r.owns = "none")

(* A row whose launch is left alone, and which does not go stale.          *)
RowKept == row'.exists = row.exists /\ row'.launch = row.launch /\ (stale' => stale)

-----------------------------------------------------------------------------
(* What the helpers do                                                     *)

(* The steps are names of Steps.                                           *)
LEMMA StepNames ==
  /\ Unclaimed \subseteq Steps
  /\ {"claim", "scaffoldRead", "ensureCluster", "clusterRow", "scaffold",
      "scaffoldRow", "launchBuild", "buildRead", "check", "startBuild", "buildRow",
      "recordBuilding", "recordFailed", "recordRunning", "refresh", "status",
      "statusRow", "reread", "claimDeploy", "deployRead", "rollbackRead", "deploy",
      "deployRow", "stopRead", "stop", "stopRow", "dismiss", "clusterIfUp",
      "clusterCheck", "deleteCapacity", "deleteCluster", "clusterGoneRow",
      "teardownCluster", "remove", "removeRows"} \subseteq Steps
BY DEF Steps, Unclaimed

(* A free slot is a request that holds nothing.                            *)
LEMMA IdleRequest ==
  /\ Idle \in Request /\ Session(Idle) /\ Idle.owns = "none"
  /\ Idle.pc = "idle" /\ Idle.bid = 0 /\ Idle.launch = "none"
BY LaunchAssumption, StepNames
DEF Idle, Request, Session, Unclaimed, LaunchState, BuildState

(* A quiet request on a kept row keeps the claims.                         *)
LEMMA QuietKeeps ==
  ASSUME RequestsOK, ClaimInv, NEW p \in Procs, Quiet(p), RowKept
  PROVE  RequestsOK' /\ ClaimInv'
<1>1. PICK r \in Request :
        /\ Becomes(p, r) /\ Session(r)
        /\ r.owns \in {req[p].owns, "none"}
        /\ robbed' = robbed \/ (robbed' = robbed \ {p} /\ r.owns = "none")
  BY DEF Quiet
<1>2. req' = [req EXCEPT ![p] = r]
  BY <1>1 DEF Becomes
<1>3. req \in [Procs -> Request]
  BY DEF RequestsOK
<1>4. req'[p] = r /\ \A q \in Procs : q # p => req'[q] = req[q]
  BY <1>2, <1>3
<1>5. RequestsOK'
  BY <1>2, <1>3, <1>1 DEF RequestsOK
<1>6. SessionsOK'
  <2>1. \A q \in Procs : Session(req[q])
    BY DEF ClaimInv, SessionsOK
  <2>2. \A q \in Procs : Session(req'[q])
    BY <2>1, <1>4, <1>1
  <2> QED
    BY <2>2 DEF SessionsOK, Session
<1>7. HoldersOK'
  <2> SUFFICES ASSUME NEW q \in Procs, q \notin robbed', req'[q].owns # "none"
               PROVE  row'.exists /\ row'.launch = req'[q].owns /\ ~stale'
    BY DEF HoldersOK
  <2>1. q \notin robbed /\ req'[q].owns = req[q].owns
    BY <1>1, <1>4
  <2>2. row.exists /\ row.launch = req[q].owns /\ ~stale
    BY <2>1 DEF ClaimInv, HoldersOK
  <2> QED
    BY <2>1, <2>2 DEF RowKept
<1> QED
  BY <1>5, <1>6, <1>7 DEF ClaimInv

(* What a request may go on with: a good record that takes no claim.       *)
LEMMA QuietBy ==
  ASSUME NEW p \in Procs, NEW r \in Request, Becomes(p, r), Session(r),
         r.owns \in {req[p].owns, "none"}, robbed' = robbed
  PROVE  Quiet(p)
BY DEF Quiet

LEMMA EndsQuiet == ASSUME NEW p \in Procs, Ends(p) PROVE Quiet(p)
BY IdleRequest DEF Ends, Quiet

LEMMA GotoQuiet ==
  ASSUME RequestsOK, ClaimInv, NEW p \in Procs, NEW step \in Steps, Goto(p, step),
         step \in Unclaimed => req[p].owns = "none",
         step \notin {"claimDeploy", "status"}, robbed' = robbed
  PROVE  Quiet(p)
<1> DEFINE r == [req[p] EXCEPT !.pc = step]
<1>1. req[p] \in Request
  BY DEF RequestsOK
<1>2. r \in Request /\ r.pc = step /\ r.owns = req[p].owns
  BY <1>1 DEF Request
<1>3. Session(r)
  BY <1>2 DEF Session
<1>4. Becomes(p, r)
  BY DEF Goto
<1> HIDE DEF r
<1> QED
  BY <1>2, <1>3, <1>4, QuietBy

LEMMA ForgetsQuiet ==
  ASSUME RequestsOK, NEW p \in Procs, NEW step \in Steps, Forgets(p, step),
         step \notin Unclaimed, step \notin {"claimDeploy", "status"}, robbed' = robbed
  PROVE  Quiet(p)
<1> DEFINE r == [Idle EXCEPT !.pc = step, !.op = req[p].op, !.owns = req[p].owns]
<1>1. req[p] \in Request
  BY DEF RequestsOK
<1>2. r \in Request /\ r.pc = step /\ r.owns = req[p].owns
  BY <1>1, IdleRequest DEF Request
<1>3. Session(r)
  BY <1>2 DEF Session
<1>4. Becomes(p, r)
  BY DEF Forgets
<1> HIDE DEF r
<1> QED
  BY <1>2, <1>3, <1>4, QuietBy

LEMMA ThrowsQuiet ==
  ASSUME RequestsOK, NEW p \in Procs, Throws(p) PROVE Quiet(p)
<1>1. CASE req[p].owns = "none"
  BY <1>1, EndsQuiet DEF Throws
<1>2. CASE req[p].owns # "none"
  <2>1. Forgets(p, "recordFailed") /\ robbed' = robbed
    BY <1>2 DEF Throws
  <2>2. "recordFailed" \in Steps /\ "recordFailed" \notin Unclaimed
    BY StepNames DEF Unclaimed
  <2> QED
    BY <2>1, <2>2, ForgetsQuiet
<1> QED
  BY <1>1, <1>2

(* A call goes on with the record of the request, marked if it failed.     *)
LEMMA CallQuiet ==
  ASSUME RequestsOK, ClaimInv, NEW p \in Procs, NEW step \in Steps,
         NEW new, NEW partial, Call(p, new, partial, step), CountersOK,
         step \in Unclaimed => req[p].owns = "none",
         step \notin {"claimDeploy", "status"}, robbed' = robbed
  PROVE  /\ Quiet(p) /\ aws' \in {aws, new} \cup partial
         /\ errors' \in 0..MaxErrors
<1>1. CASE aws' = new /\ UNCHANGED errors /\ Goto(p, step)
  BY <1>1, GotoQuiet DEF CountersOK
<1>2. CASE /\ Fault /\ aws' \in {aws, new} \cup partial
           /\ Becomes(p, [req[p] EXCEPT !.pc = step, !.err = TRUE])
  <2> DEFINE r == [req[p] EXCEPT !.pc = step, !.err = TRUE]
  <2>1. req[p] \in Request
    BY DEF RequestsOK
  <2>2. r \in Request /\ r.pc = step /\ r.owns = req[p].owns
    BY <2>1 DEF Request
  <2>3. Session(r)
    BY <2>2 DEF Session
  <2>4. Becomes(p, r)
    BY <1>2
  <2>5. errors' \in 0..MaxErrors
    BY <1>2, LaunchAssumption DEF Fault, CountersOK
  <2> HIDE DEF r
  <2> QED
    BY <2>2, <2>3, <2>4, <2>5, <1>2, QuietBy
<1> QED
  BY <1>1, <1>2 DEF Call

(* An UPDATE that does not name the launch.                                *)
LEMMA UpdateKeeps ==
  ASSUME RowOK, NEW new, Update(new), new.exists = row.exists, new.launch = row.launch
  PROVE  RowKept
BY DEF Update, RowKept

LEMMA KeptUnchanged == UNCHANGED <<row, stale>> => RowKept
BY DEF RowKept

Row == [exists : BOOLEAN, launch : LaunchState, prov : ProvisionState,
        arn : BOOLEAN, project : BOOLEAN, repo : BOOLEAN,
        build : BuildState, bid : 0..MaxBuilds, tag : 0..MaxHead]

LEMMA UpdateRow ==
  ASSUME RowOK, NEW new \in Row, Update(new) PROVE row' \in Row /\ stale' \in BOOLEAN
BY DEF RowOK, Row, Update

(* A step that leaves the variables of a conjunct alone keeps it.          *)
LEMMA LaunchStutters ==
  /\ RowOK /\ UNCHANGED registry => RowOK'
  /\ WorldOK /\ UNCHANGED world => WorldOK'
  /\ GithubOK /\ UNCHANGED github => GithubOK'
  /\ CountersOK /\ UNCHANGED counters => CountersOK'
  /\ RequestsOK /\ UNCHANGED req => RequestsOK'
BY DEF RowOK, WorldOK, GithubOK, CountersOK, RequestsOK, registry, world,
       github, counters

ClusterState == {"not_provisioned", "provisioned", "failed"}

(* A quiet request keeps the invariant if the rest is well typed.          *)
LEMMA QuietStep ==
  ASSUME IInv, NEW p \in Procs, Quiet(p), RowKept,
         row' \in Row, stale' \in BOOLEAN, cluster' \in ClusterState,
         WorldOK', GithubOK', CountersOK'
  PROVE  IInv'
<1>1. RequestsOK' /\ ClaimInv'
  BY QuietKeeps DEF IInv, TypeOK
<1>2. RowOK'
  <2>1. robbed \subseteq Procs
    BY DEF IInv, TypeOK, RowOK
  <2>2. robbed' \subseteq Procs
    BY <2>1 DEF Quiet
  <2> QED
    BY <2>2 DEF RowOK, Row, ClusterState
<1> QED
  BY <1>1, <1>2 DEF IInv, TypeOK

LEMMA QuietRead ==
  ASSUME IInv, NEW p \in Procs, Quiet(p), UNCHANGED <<row, cluster, stale>>,
         WorldOK', GithubOK', CountersOK'
  PROVE  IInv'
<1>1. row \in Row /\ stale \in BOOLEAN /\ cluster \in ClusterState
  BY DEF IInv, TypeOK, RowOK, Row, ClusterState
<1> QED
  BY <1>1, QuietStep, KeptUnchanged

(* A quiet UPDATE that does not name the launch.                           *)
LEMMA QuietUpdate ==
  ASSUME IInv, NEW p \in Procs, Quiet(p), NEW new \in Row, Update(new),
         new.exists = row.exists, new.launch = row.launch,
         UNCHANGED <<cluster, world, github>>, UNCHANGED counters \/ CountersOK'
  PROVE  IInv'
<1>1. RowOK /\ cluster \in ClusterState
  BY DEF IInv, TypeOK, RowOK, ClusterState
<1>2. row' \in Row /\ stale' \in BOOLEAN /\ RowKept
  BY <1>1, UpdateRow, UpdateKeeps
<1>3. WorldOK' /\ GithubOK' /\ CountersOK'
  BY LaunchStutters DEF IInv, TypeOK
<1> QED
  BY <1>1, <1>2, <1>3, QuietStep

(* A statement that writes the launch, by a request that then holds what   *)
(* it wrote or nothing; every other hold is overwritten.                   *)
LEMMA LaunchWritten ==
  ASSUME IInv, NEW p \in Procs, NEW r \in Request, Becomes(p, r), Session(r),
         row' \in Row, stale' = FALSE, cluster' \in ClusterState,
         r.owns # "none" => row'.exists /\ row'.launch = r.owns,
         robbed' \in {robbed \cup Holders(p), (robbed \cup Holders(p)) \ {p}},
         UNCHANGED <<world, github>>, UNCHANGED counters \/ CountersOK'
  PROVE  IInv'
<1>1. req \in [Procs -> Request] /\ robbed \subseteq Procs
  BY DEF IInv, TypeOK, RequestsOK, RowOK
<1>2. req' = [req EXCEPT ![p] = r]
  BY DEF Becomes
<1>3. req'[p] = r /\ \A q \in Procs : q # p => req'[q] = req[q]
  BY <1>1, <1>2
<1>4. RequestsOK'
  BY <1>1, <1>2 DEF RequestsOK
<1>5. SessionsOK'
  <2>1. \A q \in Procs : Session(req'[q])
    BY <1>3 DEF IInv, ClaimInv, SessionsOK
  <2> QED
    BY <2>1 DEF SessionsOK, Session
<1>6. HoldersOK'
  <2> SUFFICES ASSUME NEW q \in Procs, q \notin robbed', req'[q].owns # "none"
               PROVE  row'.exists /\ row'.launch = req'[q].owns /\ ~stale'
    BY DEF HoldersOK
  <2>1. CASE q = p
    BY <2>1, <1>3
  <2>2. CASE q # p
    BY <2>2, <1>3 DEF Holders
  <2> QED
    BY <2>1, <2>2
<1>7. RowOK'
  <2>1. robbed' \subseteq Procs
    BY <1>1 DEF Holders
  <2> QED
    BY <2>1 DEF RowOK, Row, ClusterState
<1>8. WorldOK' /\ GithubOK' /\ CountersOK'
  BY LaunchStutters DEF IInv, TypeOK
<1> QED
  BY <1>4, <1>5, <1>6, <1>7, <1>8 DEF IInv, TypeOK, ClaimInv

(* The facts of the invariant the actions use.                             *)
LEMMA Typed ==
  ASSUME IInv
  PROVE  /\ RowOK /\ WorldOK /\ GithubOK /\ RequestsOK /\ CountersOK /\ ClaimInv
         /\ row \in Row /\ cluster \in ClusterState /\ stale \in BOOLEAN
         /\ \A p \in Procs : req[p] \in Request /\ Session(req[p])
BY DEF IInv, TypeOK, RowOK, Row, ClusterState, RequestsOK, ClaimInv, SessionsOK

(* A failed call is counted.                                               *)
LEMMA FaultCounted ==
  ASSUME CountersOK, Fault, UNCHANGED <<ops, deaths, misled>> PROVE CountersOK'
BY LaunchAssumption DEF CountersOK, Fault

LEMMA ErrorsCounted ==
  ASSUME CountersOK, errors' \in 0..MaxErrors, UNCHANGED <<ops, deaths, misled>>
  PROVE  CountersOK'
BY DEF CountersOK

(* The history that a row was misled, in the statements that write it.     *)
LEMMA HistoryKept ==
  ASSUME CountersOK, NEW p \in Procs,
         \/ Overtakes(p)
         \/ misled' = (misled \/ (row.exists /\ row.bid # req[p].bid))
         \/ misled' = (misled \/ At(p, "buildRow")),
         ops' \in 0..MaxOps, errors' \in 0..MaxErrors, deaths' \in 0..MaxDeaths
  PROVE  CountersOK'
<1>1. misled' \in BOOLEAN
  BY DEF Overtakes
<1> QED
  BY <1>1 DEF CountersOK

LEMMA Bounds == 0 \in 0..MaxHead /\ 0 \in 0..MaxBuilds /\ NoImages \in [Commits -> 0..MaxHead]
<1>1. 0 \in 0..MaxHead /\ 0 \in 0..MaxBuilds
  BY LaunchAssumption
<1> QED
  BY <1>1 DEF NoImages

(* The rows of a service that was just created, and of none.               *)
LEMMA EmptyRows ==
  /\ \A l \in LaunchState : NewRow(l) \in Row /\ NewRow(l).exists
  /\ NoRow \in Row
<1>1. \A l \in LaunchState : NewRow(l) \in Row /\ NewRow(l).exists
  BY Bounds DEF NewRow, Row, ProvisionState, BuildState
<1>2. NewRow("none") \in Row
  BY <1>1 DEF LaunchState
<1>3. NoRow \in Row
  <2> HIDE DEF NewRow
  <2> QED
    BY <1>2 DEF NoRow, Row
<1> QED
  BY <1>1, <1>3

-----------------------------------------------------------------------------
(* The actions of launchMicroservice                                       *)

LEMMA LaunchStepInv ==
  ASSUME IInv, NEW p \in Procs, LaunchStep(p) PROVE IInv'
<1> USE Typed
<1>0. req[p] \in Request /\ Session(req[p])
  OBVIOUS
<1>1. CASE ClaimLaunch(p)
  <2>1. CASE row.exists /\ (row.launch # "provisioning" \/ stale)
    <3> DEFINE r == [req[p] EXCEPT !.pc = "scaffoldRead", !.owns = "provisioning"]
               new == [row EXCEPT !.launch = "provisioning"]
    <3>1. Becomes(p, r) /\ row' = new /\ stale' = FALSE /\ robbed' = robbed \cup Holders(p)
      BY <1>1, <2>1 DEF ClaimLaunch, Update
    <3>2. r \in Request /\ r.pc = "scaffoldRead" /\ r.owns = "provisioning"
      BY <1>0, StepNames DEF Request
    <3>3. Session(r)
      BY <3>2 DEF Session, Unclaimed
    <3>4. new \in Row /\ new.exists /\ new.launch = "provisioning"
      BY <2>1 DEF Row, LaunchState
    <3>5. cluster' \in ClusterState /\ UNCHANGED <<world, github, counters>>
      BY <1>1 DEF ClaimLaunch
    <3> HIDE DEF r, new
    <3> QED
      BY <3>1, <3>2, <3>3, <3>4, <3>5, LaunchWritten
  <2>2. CASE ~(row.exists /\ (row.launch # "provisioning" \/ stale))
    <3>1. Quiet(p) /\ UNCHANGED <<row, cluster, stale>>
      BY <1>1, <2>2, EndsQuiet DEF ClaimLaunch
    <3> QED
      BY <1>1, <3>1, QuietRead, LaunchStutters DEF ClaimLaunch
  <2> QED
    BY <2>1, <2>2
<1>2. CASE ReadForScaffold(p)
  <2> DEFINE was  == row.prov = "provisioned"
             step == IF cluster = "provisioned" THEN "scaffold" ELSE "ensureCluster"
             r    == [req[p] EXCEPT !.was = was, !.pc = step]
  <2>1. r \in Request /\ r.pc \in {"scaffold", "ensureCluster"} /\ r.owns = req[p].owns
    <3>1. was \in BOOLEAN /\ step \in Steps /\ step \in {"scaffold", "ensureCluster"}
      BY StepNames
    <3> HIDE DEF was, step
    <3> QED
      BY <1>0, <3>1 DEF Request
  <2>2. Session(r)
    BY <2>1 DEF Session, Unclaimed
  <2>3. CASE row.exists
    <3>1. Becomes(p, r) /\ robbed' = robbed
      BY <1>2, <2>3 DEF ReadForScaffold
    <3> HIDE DEF r
    <3>2. Quiet(p)
      BY <3>1, <2>1, <2>2, QuietBy
    <3> QED
      BY <1>2, <3>2, QuietRead, LaunchStutters DEF ReadForScaffold
  <2>4. CASE ~row.exists
    <3>1. Quiet(p)
      BY <1>2, <2>4, ThrowsQuiet DEF ReadForScaffold
    <3> QED
      BY <1>2, <3>1, QuietRead, LaunchStutters DEF ReadForScaffold
  <2> QED
    BY <2>3, <2>4
<1>3. CASE EnsureCluster(p)
  <2>1. CASE row.exists
    <3> DEFINE new     == [aws EXCEPT !.cluster = TRUE, !.capacity = TRUE]
               partial == {[aws EXCEPT !.cluster = TRUE]}
    <3>1. Call(p, new, partial, "clusterRow") /\ robbed' = robbed
      BY <1>3, <2>1 DEF EnsureCluster
    <3>2. "clusterRow" \in Steps /\ "clusterRow" \notin Unclaimed
      BY StepNames DEF Unclaimed
    <3>3. /\ Quiet(p) /\ aws' \in {aws, new} \cup partial
          /\ errors' \in 0..MaxErrors
      <4> HIDE DEF new, partial
      <4> QED
        BY <3>1, <3>2, CallQuiet
    <3>4. WorldOK'
      BY <1>3, <3>3 DEF EnsureCluster, WorldOK
    <3> QED
      BY <1>3, <3>3, <3>4, QuietRead, ErrorsCounted, LaunchStutters
      DEF EnsureCluster
  <2>2. CASE ~row.exists
    <3>1. Quiet(p)
      BY <1>3, <2>2, ThrowsQuiet DEF EnsureCluster
    <3> QED
      BY <1>3, <2>2, <3>1, QuietRead, LaunchStutters
      DEF EnsureCluster, world, counters
  <2> QED
    BY <2>1, <2>2
<1>4. CASE RecordCluster(p)
  <2>1. Quiet(p)
    <3>1. "scaffold" \in Steps /\ "scaffold" \notin Unclaimed
      BY StepNames DEF Unclaimed
    <3> QED
      BY <1>4, <3>1, EndsQuiet, GotoQuiet DEF RecordCluster
  <2>2. cluster' \in ClusterState
    BY <1>4 DEF RecordCluster, ClusterState
  <2>3. RowKept /\ row' \in Row /\ stale' \in BOOLEAN
    BY <1>4, KeptUnchanged DEF RecordCluster
  <2> QED
    BY <1>4, <2>1, <2>2, <2>3, QuietStep, LaunchStutters DEF RecordCluster
<1>5. CASE EnsureScaffold(p)
  <2> DEFINE new     == [aws EXCEPT !.project = TRUE, !.repo = TRUE]
             partial == {[aws EXCEPT !.project = TRUE], [aws EXCEPT !.repo = TRUE]}
  <2>1. Call(p, new, partial, "scaffoldRow") /\ UNCHANGED registry
    BY <1>5 DEF EnsureScaffold
  <2>2. "scaffoldRow" \in Steps /\ "scaffoldRow" \notin Unclaimed
    BY StepNames DEF Unclaimed
  <2>3. /\ Quiet(p) /\ aws' \in {aws, new} \cup partial
        /\ errors' \in 0..MaxErrors
    <3> HIDE DEF new, partial
    <3> QED
      BY <2>1, <2>2, CallQuiet DEF registry
  <2>4. WorldOK'
    BY <1>5, <2>3 DEF EnsureScaffold, WorldOK
  <2> QED
    BY <1>5, <2>3, <2>4, QuietRead, ErrorsCounted, LaunchStutters
    DEF EnsureScaffold, registry
<1>6. CASE RecordScaffold(p)
  <2> DEFINE new == [row EXCEPT
       !.prov = IF req[p].err THEN "failed"
                ELSE IF req[p].was THEN "provisioned" ELSE "scaffolded",
       !.project = TRUE, !.repo = TRUE]
  <2>1. new \in Row /\ new.exists = row.exists /\ new.launch = row.launch
    BY DEF Row, ProvisionState
  <2>2. Update(new)
    BY <1>6 DEF RecordScaffold
  <2>3. Quiet(p)
    <3>1. {"recordFailed", "launchBuild"} \subseteq Steps \ Unclaimed
      BY StepNames DEF Unclaimed
    <3> QED
      BY <1>6, <3>1, EndsQuiet, ForgetsQuiet DEF RecordScaffold
  <2> HIDE DEF new
  <2> QED
    BY <1>6, <2>1, <2>2, <2>3, QuietUpdate DEF RecordScaffold
<1>7. CASE LaunchBuildOrJoin(p)
  <2>1. {"recordBuilding", "buildRead"} \subseteq Steps \ Unclaimed
    BY StepNames DEF Unclaimed
  <2>2. Quiet(p)
    BY <1>7, <2>1, GotoQuiet, ThrowsQuiet DEF LaunchBuildOrJoin
  <2> QED
    BY <1>7, <2>2, QuietRead, LaunchStutters DEF LaunchBuildOrJoin
<1>8. CASE ReadForBuild(p)
  <2>1. "check" \in Steps \ Unclaimed
    BY StepNames DEF Unclaimed
  <2>2. Quiet(p)
    BY <1>8, <2>1, GotoQuiet, ThrowsQuiet DEF ReadForBuild
  <2> QED
    BY <1>8, <2>2, QuietRead, LaunchStutters DEF ReadForBuild
<1>9. CASE CheckSource(p)
  <2> DEFINE r == [req[p] EXCEPT !.pc = "startBuild", !.tag = head]
  <2>1. r \in Request /\ r.pc = "startBuild" /\ r.owns = req[p].owns
    <3>1. head \in 0..MaxHead
      BY LaunchAssumption DEF GithubOK, Commits
    <3> QED
      BY <1>0, <3>1, StepNames DEF Request
  <2>2. Session(r)
    BY <2>1 DEF Session, Unclaimed
  <2>3. (Becomes(p, r) /\ robbed' = robbed) \/ Ends(p) \/ Throws(p)
    BY <1>9 DEF CheckSource
  <2> HIDE DEF r
  <2>4. Quiet(p)
    BY <2>1, <2>2, <2>3, QuietBy, EndsQuiet, ThrowsQuiet
  <2>5. Update(row) \/ UNCHANGED <<row, stale>>
    BY <1>9 DEF CheckSource
  <2>6. row' \in Row /\ stale' \in BOOLEAN /\ RowKept
    BY <2>5, UpdateRow, UpdateKeeps, KeptUnchanged
  <2>7. CountersOK'
    BY <1>9, FaultCounted, LaunchStutters DEF CheckSource, counters
  <2> QED
    BY <1>9, <2>4, <2>6, <2>7, QuietStep, LaunchStutters DEF CheckSource
<1>10. CASE StartImageBuild(p)
  <2>1. CASE \E b \in BuildIds :
               /\ builds' = [builds EXCEPT ![b] =
                     [state |-> "running", tag |-> req[p].tag, commit |-> 0]]
               /\ Becomes(p, [req[p] EXCEPT !.pc = "buildRow", !.bid = b])
               /\ UNCHANGED <<robbed, errors>>
    <3>1. PICK b \in BuildIds :
               /\ builds' = [builds EXCEPT ![b] =
                     [state |-> "running", tag |-> req[p].tag, commit |-> 0]]
               /\ Becomes(p, [req[p] EXCEPT !.pc = "buildRow", !.bid = b])
               /\ UNCHANGED <<robbed, errors>>
      BY <2>1
    <3> DEFINE r == [req[p] EXCEPT !.pc = "buildRow", !.bid = b]
    <3>2. r \in Request /\ r.pc = "buildRow" /\ r.owns = req[p].owns
      <4>1. b \in 0..MaxBuilds
        BY LaunchAssumption DEF BuildIds
      <4> QED
        BY <1>0, <4>1, StepNames DEF Request
    <3>3. Session(r)
      BY <3>2 DEF Session, Unclaimed
    <3>4. [state |-> "running", tag |-> req[p].tag, commit |-> 0]
            \in [state : BuildState, tag : 0..MaxHead, commit : 0..MaxHead]
      BY <1>0, LaunchAssumption DEF Request, BuildState
    <3>5. WorldOK'
      BY <1>10, <3>1, <3>4 DEF StartImageBuild, WorldOK
    <3>6. Becomes(p, r) /\ robbed' = robbed
      BY <3>1
    <3> HIDE DEF r
    <3>7. Quiet(p)
      BY <3>2, <3>3, <3>6, QuietBy
    <3> QED
      BY <1>10, <3>1, <3>5, <3>7, QuietRead, LaunchStutters
      DEF StartImageBuild, counters
  <2>2. CASE Throws(p) /\ UNCHANGED builds /\ (UNCHANGED errors \/ Fault)
    <3>1. Quiet(p)
      BY <2>2, ThrowsQuiet
    <3>2. CountersOK'
      BY <1>10, <2>2, FaultCounted, LaunchStutters DEF StartImageBuild, counters
    <3>3. WorldOK'
      BY <1>10, <2>2, LaunchStutters DEF StartImageBuild, world
    <3> QED
      BY <1>10, <3>1, <3>2, <3>3, QuietRead, LaunchStutters DEF StartImageBuild
  <2> QED
    BY <1>10, <2>1, <2>2 DEF StartImageBuild
<1>11. CASE RecordBuild(p)
  <2> DEFINE new == [row EXCEPT !.bid = req[p].bid, !.build = "running",
                                !.tag = req[p].tag]
  <2>1. new \in Row /\ new.exists = row.exists /\ new.launch = row.launch
    BY <1>0 DEF Row, Request, BuildState
  <2>2. Update(new)
    BY <1>11 DEF RecordBuild
  <2>3. "recordBuilding" \in Steps \ Unclaimed
    BY StepNames DEF Unclaimed
  <2>4. Quiet(p)
    BY <1>11, <2>3, EndsQuiet, ForgetsQuiet DEF RecordBuild
  <2> HIDE DEF new
  <2> QED
    BY <1>11, <2>1, <2>2, <2>4, QuietUpdate DEF RecordBuild
<1>12. ASSUME NEW l \in {"building", "failed", "running", "none"}, RecordLaunch(p, l)
       PROVE  IInv'
  <2>0. CountersOK'
    BY <1>12, HistoryKept DEF RecordLaunch, CountersOK
  <2> DEFINE new == [row EXCEPT !.launch = l]
  <2>1. CASE row.exists
    <3>1. row' = new /\ stale' = FALSE
      BY <1>12, <2>1 DEF RecordLaunch, Update
    <3>2. new \in Row
      BY DEF Row, LaunchState
    <3>3. /\ Becomes(p, Idle) /\ cluster' \in ClusterState
          /\ robbed' = (robbed \cup Holders(p)) \ {p}
          /\ UNCHANGED <<world, github>>
      BY <1>12 DEF RecordLaunch
    <3> HIDE DEF new
    <3> QED
      BY <2>0, <3>1, <3>2, <3>3, IdleRequest, LaunchWritten
  <2>2. CASE ~row.exists
    <3>1. UNCHANGED <<row, stale, cluster>>
      BY <1>12, <2>2 DEF RecordLaunch, Update
    <3>2. \A q \in Procs \ robbed : req[q].owns = "none"
      BY <2>2 DEF ClaimInv, HoldersOK
    <3>3. Becomes(p, Idle) /\ robbed' = (robbed \cup Holders(p)) \ {p}
      BY <1>12 DEF RecordLaunch
    <3>4. robbed' = robbed \ {p} \/ robbed' = robbed
      BY <3>2, <3>3 DEF Holders
    <3>5. Quiet(p)
      BY <3>3, <3>4, IdleRequest DEF Quiet
    <3> QED
      BY <1>12, <2>0, <3>1, <3>5, QuietRead, LaunchStutters DEF RecordLaunch
  <2> QED
    BY <2>1, <2>2
<1>13. CASE RecordBuilding(p) \/ RecordFailed(p) \/ RecordRunning(p) \/ ClearLaunch(p)
  BY <1>12, <1>13 DEF RecordBuilding, RecordFailed, RecordRunning, ClearLaunch
<1> QED
  BY <1>1, <1>2, <1>3, <1>4, <1>5, <1>6, <1>7, <1>8, <1>9, <1>10, <1>11, <1>13
  DEF LaunchStep

-----------------------------------------------------------------------------
(* The actions of the status poll, the reconcile, deploys and stops        *)

(* advanceLaunch on the row as it is read.                                 *)
LEMMA AdvanceQuiet ==
  ASSUME IInv, NEW p \in Procs, AdvanceLaunch(p) PROVE Quiet(p)
<1> USE Typed
<1>1. CASE row.exists /\ NextAdvance(row) # "idle"
  <2> DEFINE r == [req[p] EXCEPT !.pc = NextAdvance(row), !.launch = row.launch,
                                 !.build = "never", !.bid = 0]
  <2>1. /\ NextAdvance(row) \in {"claimDeploy", "recordFailed"}
        /\ row.launch \in {"building", "deploying"}
    BY <1>1 DEF NextAdvance
  <2>2. /\ r \in Request /\ r.pc = NextAdvance(row)
        /\ r.owns = req[p].owns /\ r.launch = row.launch
    <3>1. /\ NextAdvance(row) \in Steps /\ row.launch \in LaunchState
          /\ "never" \in BuildState /\ 0 \in 0..MaxBuilds
      BY <2>1, StepNames, LaunchAssumption DEF LaunchState, BuildState
    <3>2. req[p] \in Request
      OBVIOUS
    <3> QED
      BY <3>1, <3>2 DEF Request
  <2>3. Session(r)
    BY <2>1, <2>2 DEF Session, Unclaimed
  <2>4. Becomes(p, r) /\ robbed' = robbed
    BY <1>1 DEF AdvanceLaunch
  <2> HIDE DEF r
  <2> QED
    BY <2>2, <2>3, <2>4, QuietBy
<1>2. CASE ~(row.exists /\ NextAdvance(row) # "idle")
  BY <1>2, EndsQuiet DEF AdvanceLaunch
<1> QED
  BY <1>1, <1>2

LEMMA AdvanceStepInv ==
  ASSUME IInv, NEW p \in Procs, AdvanceStep(p) PROVE IInv'
<1> USE Typed
<1>0. req[p] \in Request /\ Session(req[p])
  OBVIOUS
<1>1. CASE RefreshBuild(p)
  <2>1. CASE row.exists /\ row.bid # 0 /\ row.build \notin Terminal
    <3> DEFINE r == [req[p] EXCEPT !.pc = "status", !.bid = row.bid]
    <3>1. /\ r \in Request /\ r.pc = "status"
          /\ r.owns = req[p].owns /\ r.bid = row.bid
      BY <1>0, StepNames DEF Request, Row
    <3>2. Session(r)
      BY <2>1, <3>1 DEF Session, Unclaimed
    <3>3. Becomes(p, r) /\ robbed' = robbed
      BY <1>1, <2>1 DEF RefreshBuild
    <3> HIDE DEF r
    <3>4. Quiet(p)
      BY <3>1, <3>2, <3>3, QuietBy
    <3> QED
      BY <1>1, <3>4, QuietRead, LaunchStutters DEF RefreshBuild
  <2>2. CASE ~(row.exists /\ row.bid # 0 /\ row.build \notin Terminal)
    <3>1. Quiet(p)
      BY <1>1, <2>2, AdvanceQuiet DEF RefreshBuild
    <3> QED
      BY <1>1, <3>1, QuietRead, LaunchStutters DEF RefreshBuild
  <2> QED
    BY <2>1, <2>2
<1>2. CASE BuildStatus(p)
  <2> DEFINE r == [req[p] EXCEPT !.pc = "statusRow", !.build = builds[req[p].bid].state]
  <2>1. req[p].bid \in BuildIds
    BY <1>0, <1>2, LaunchAssumption DEF BuildStatus, At, Session, Request, BuildIds
  <2>2. builds[req[p].bid].state \in BuildState
    BY <2>1 DEF WorldOK
  <2>3. r \in Request /\ r.pc = "statusRow" /\ r.owns = req[p].owns
    BY <1>0, <2>2, StepNames DEF Request
  <2>4. Session(r)
    BY <2>3 DEF Session, Unclaimed
  <2>5. \/ Becomes(p, r) /\ robbed' = robbed /\ UNCHANGED errors
        \/ Fault /\ Ends(p)
    BY <1>2 DEF BuildStatus
  <2> HIDE DEF r
  <2>6. Quiet(p)
    BY <2>3, <2>4, <2>5, QuietBy, EndsQuiet
  <2>7. CountersOK'
    BY <1>2, <2>5, FaultCounted, LaunchStutters DEF BuildStatus, counters
  <2> QED
    BY <1>2, <2>6, <2>7, QuietRead, LaunchStutters DEF BuildStatus
<1>3. CASE RecordStatus(p)
  <2> DEFINE new == [row EXCEPT !.build = req[p].build]
  <2>1. new \in Row /\ new.exists = row.exists /\ new.launch = row.launch
    BY <1>0 DEF Row, Request
  <2>2. Update(new)
    BY <1>3 DEF RecordStatus
  <2>3. "reread" \in Steps \ Unclaimed
    BY StepNames DEF Unclaimed
  <2>4. Quiet(p)
    BY <1>3, <2>3, EndsQuiet, GotoQuiet DEF RecordStatus
  <2>5. CountersOK'
    BY <1>3, HistoryKept DEF RecordStatus, CountersOK
  <2> HIDE DEF new
  <2> QED
    BY <1>3, <2>1, <2>2, <2>4, <2>5, QuietUpdate DEF RecordStatus
<1>4. CASE Reread(p)
  BY <1>4, AdvanceQuiet, QuietRead, LaunchStutters DEF Reread
<1>5. CASE ClaimDeploy(p)
  <2>1. CASE row.exists /\ row.launch = req[p].launch
                        /\ (req[p].launch # "deploying" \/ stale)
    <3> DEFINE r == [req[p] EXCEPT !.pc = "deployRead", !.owns = "deploying",
                                   !.launch = "none"]
               new == [row EXCEPT !.launch = "deploying"]
    <3>1. Becomes(p, r) /\ row' = new /\ stale' = FALSE /\ robbed' = robbed \cup Holders(p)
      BY <1>5, <2>1 DEF ClaimDeploy, Update
    <3>2. r \in Request /\ r.pc = "deployRead" /\ r.owns = "deploying"
      BY <1>0, StepNames DEF Request, LaunchState
    <3>3. Session(r)
      BY <3>2 DEF Session, Unclaimed
    <3>4. new \in Row /\ new.exists /\ new.launch = "deploying"
      BY <2>1 DEF Row, LaunchState
    <3>5. cluster' \in ClusterState /\ UNCHANGED <<world, github, counters>>
      BY <1>5 DEF ClaimDeploy
    <3> HIDE DEF r, new
    <3> QED
      BY <3>1, <3>2, <3>3, <3>4, <3>5, LaunchWritten
  <2>2. CASE ~(row.exists /\ row.launch = req[p].launch
                          /\ (req[p].launch # "deploying" \/ stale))
    <3>1. Quiet(p) /\ UNCHANGED <<row, cluster, stale>>
      BY <1>5, <2>2, EndsQuiet DEF ClaimDeploy
    <3> QED
      BY <1>5, <3>1, QuietRead, LaunchStutters DEF ClaimDeploy
  <2> QED
    BY <2>1, <2>2
<1>6. CASE ReadForDeploy(p)
  <2> DEFINE r == [req[p] EXCEPT !.pc = "deploy", !.tag = row.tag, !.was = row.arn]
  <2>1. r \in Request /\ r.pc = "deploy" /\ r.owns = req[p].owns
    BY <1>0, StepNames DEF Request, Row
  <2>2. Session(r)
    BY <2>1 DEF Session, Unclaimed
  <2>3. (Becomes(p, r) /\ robbed' = robbed) \/ Throws(p)
    BY <1>6 DEF ReadForDeploy
  <2> HIDE DEF r
  <2>4. Quiet(p)
    BY <2>1, <2>2, <2>3, QuietBy, ThrowsQuiet
  <2> QED
    BY <1>6, <2>4, QuietRead, LaunchStutters DEF ReadForDeploy
<1>7. CASE ReadForRollback(p)
  <2>1. ASSUME NEW t \in Pushed, robbed' = robbed,
               Becomes(p, [req[p] EXCEPT !.pc = "deploy", !.tag = t, !.was = row.arn])
        PROVE  Quiet(p)
    <3> DEFINE r == [req[p] EXCEPT !.pc = "deploy", !.tag = t, !.was = row.arn]
    <3>1. t \in 0..MaxHead
      BY LaunchAssumption DEF Pushed, Commits
    <3>2. r \in Request /\ r.pc = "deploy" /\ r.owns = req[p].owns
      BY <1>0, <3>1, StepNames DEF Request, Row
    <3>3. Session(r)
      BY <3>2 DEF Session, Unclaimed
    <3>4. Becomes(p, r)
      BY <2>1
    <3> HIDE DEF r
    <3> QED
      BY <2>1, <3>2, <3>3, <3>4, QuietBy
  <2>2. Quiet(p)
    BY <1>7, <2>1, EndsQuiet DEF ReadForRollback
  <2> QED
    BY <1>7, <2>2, QuietRead, LaunchStutters DEF ReadForRollback
<1>8. CASE DeployService(p)
  <2> DEFINE r1 == [req[p] EXCEPT !.pc = "deployRow", !.was = TRUE]
             r2 == [req[p] EXCEPT !.pc = "deployRow", !.was = TRUE, !.err = TRUE]
             r3 == [req[p] EXCEPT !.pc = "deployRow", !.err = TRUE]
  <2>1. \A r \in {r1, r2, r3} :
          r \in Request /\ r.pc = "deployRow" /\ r.owns = req[p].owns
    <3>1. r1 \in Request /\ r1.pc = "deployRow" /\ r1.owns = req[p].owns
      BY <1>0, StepNames DEF Request
    <3>2. r2 \in Request /\ r2.pc = "deployRow" /\ r2.owns = req[p].owns
      BY <1>0, StepNames DEF Request
    <3>3. r3 \in Request /\ r3.pc = "deployRow" /\ r3.owns = req[p].owns
      BY <1>0, StepNames DEF Request
    <3> HIDE DEF r1, r2, r3
    <3> QED
      BY <3>1, <3>2, <3>3
  <2>2. \A r \in {r1, r2, r3} : Session(r)
    BY <2>1 DEF Session, Unclaimed
  <2>3. \E r \in {r1, r2, r3} : Becomes(p, r)
    BY <1>8 DEF DeployService
  <2>4. robbed' = robbed /\ UNCHANGED <<row, cluster, stale>>
    BY <1>8 DEF DeployService, registry
  <2> HIDE DEF r1, r2, r3
  <2>5. Quiet(p)
    BY <2>1, <2>2, <2>3, <2>4, QuietBy
  <2>6. WorldOK'
    <3>1. aws' \in {aws, [aws EXCEPT !.service = req[p].tag]}
      BY <1>8 DEF DeployService
    <3>2. req[p].tag \in 0..MaxHead
      BY <1>0 DEF Request
    <3> QED
      BY <1>8, <3>1, <3>2 DEF DeployService, WorldOK
  <2>7. CountersOK'
    BY <1>8, FaultCounted, LaunchStutters DEF DeployService, counters
  <2> QED
    BY <1>8, <2>4, <2>5, <2>6, <2>7, QuietRead, LaunchStutters DEF DeployService
<1>9. CASE RecordDeploy(p)
  <2> DEFINE prov == IF req[p].err THEN "failed" ELSE "provisioned"
             arn  == row.arn \/ req[p].was
             tag  == IF req[p].op = "rollback" THEN req[p].tag ELSE row.tag
             new  == [row EXCEPT !.prov = prov, !.arn = arn, !.tag = tag]
  <2>1. new \in Row /\ new.exists = row.exists /\ new.launch = row.launch
    <3>1. prov \in ProvisionState /\ arn \in BOOLEAN /\ tag \in 0..MaxHead
      BY <1>0 DEF Row, Request, ProvisionState
    <3> HIDE DEF prov, arn, tag
    <3> QED
      BY <3>1 DEF Row
  <2>2. Update(new)
    BY <1>9 DEF RecordDeploy
  <2>3. {"recordFailed", "recordRunning"} \subseteq Steps \ Unclaimed
    BY StepNames DEF Unclaimed
  <2>4. Quiet(p)
    BY <1>9, <2>3, EndsQuiet, ForgetsQuiet DEF RecordDeploy
  <2> HIDE DEF new
  <2> QED
    BY <1>9, <2>1, <2>2, <2>4, QuietUpdate DEF RecordDeploy
<1>10. CASE ReadForStop(p)
  <2> DEFINE r == [req[p] EXCEPT !.pc = "stop", !.bid = row.bid]
  <2>1. r \in Request /\ r.pc = "stop" /\ r.owns = req[p].owns
    BY <1>0, StepNames DEF Request, Row
  <2>2. Session(r)
    BY <2>1 DEF Session, Unclaimed
  <2>3. (Becomes(p, r) /\ robbed' = robbed) \/ Ends(p)
    BY <1>10 DEF ReadForStop
  <2> HIDE DEF r
  <2>4. Quiet(p)
    BY <2>1, <2>2, <2>3, QuietBy, EndsQuiet
  <2> QED
    BY <1>10, <2>4, QuietRead, LaunchStutters DEF ReadForStop
<1>11. CASE StopBuild(p)
  <2>1. "stopRow" \in Steps \ Unclaimed
    BY StepNames DEF Unclaimed
  <2>2. Quiet(p) /\ UNCHANGED <<row, cluster, stale>>
    BY <1>11, <2>1, GotoQuiet DEF StopBuild, registry
  <2>3. WorldOK'
    BY <1>11 DEF StopBuild, WorldOK, BuildState
  <2>4. CountersOK'
    BY <1>11, FaultCounted, LaunchStutters DEF StopBuild, counters
  <2> QED
    BY <1>11, <2>2, <2>3, <2>4, QuietRead, LaunchStutters DEF StopBuild
<1>12. CASE RecordStop(p)
  <2> DEFINE new == [row EXCEPT !.build = "stopped"]
  <2>1. new \in Row /\ new.exists = row.exists /\ new.launch = row.launch
    BY DEF Row, BuildState
  <2>2. Update(new) \/ UNCHANGED <<row, stale>>
    BY <1>12 DEF RecordStop
  <2>3. Quiet(p)
    BY <1>12, EndsQuiet DEF RecordStop
  <2> HIDE DEF new
  <2>4. row' \in Row /\ stale' \in BOOLEAN /\ RowKept
    BY <2>1, <2>2, UpdateRow, UpdateKeeps, KeptUnchanged
  <2> QED
    BY <1>12, <2>3, <2>4, QuietStep, LaunchStutters DEF RecordStop
<1> QED
  BY <1>1, <1>2, <1>3, <1>4, <1>5, <1>6, <1>7, <1>8, <1>9, <1>10, <1>11, <1>12
  DEF AdvanceStep

-----------------------------------------------------------------------------
(* The actions of deprovisioning and teardown                              *)

(* A call that changes aws only, by a request that holds no claim.         *)
LEMMA CallKeeps ==
  ASSUME IInv, NEW p \in Procs, NEW step \in Steps, NEW new,
         Call(p, new, {}, step), step \in Unclaimed => req[p].owns = "none",
         step \notin {"claimDeploy", "status"},
         UNCHANGED <<row, cluster, stale, robbed, github, ops, deaths, misled>>,
         aws' \in {aws, new} => WorldOK'
  PROVE  IInv'
<1> USE Typed
<1>1. Quiet(p) /\ aws' \in {aws, new} /\ errors' \in 0..MaxErrors
  BY CallQuiet
<1>2. CountersOK' /\ GithubOK'
  BY <1>1, ErrorsCounted, LaunchStutters
<1> QED
  BY <1>1, <1>2, QuietRead

LEMMA TeardownStepInv ==
  ASSUME IInv, NEW p \in Procs, TeardownStep(p) PROVE IInv'
<1> USE Typed
<1>0. req[p] \in Request /\ Session(req[p])
  OBVIOUS
<1>a. Unclaimed \subseteq Steps /\ req[p].pc \in Unclaimed => req[p].owns = "none"
  BY <1>0, StepNames DEF Session
<1>1. CASE DeleteService(p)
  <2> DEFINE new == [aws EXCEPT !.service = 0]
  <2>1. "deleteProject" \in Steps /\ req[p].owns = "none"
    BY <1>1, <1>0, StepNames DEF DeleteService, At, Session, Unclaimed
  <2>2. aws' \in {aws, new} => WorldOK'
    BY <1>1, LaunchAssumption DEF DeleteService, WorldOK
  <2>3. /\ Call(p, new, {}, "deleteProject")
        /\ UNCHANGED <<row, cluster, stale, robbed, github, ops, deaths, misled>>
    BY <1>1 DEF DeleteService, registry
  <2> HIDE DEF new
  <2> QED
    BY <2>1, <2>2, <2>3, CallKeeps
<1>2. CASE DeleteProject(p)
  <2> DEFINE new  == [aws EXCEPT !.project = FALSE]
             step == IF req[p].wipe THEN "deleteRepository" ELSE "deprovisionRow"
  <2>1. /\ step \in {"deleteRepository", "deprovisionRow"} /\ step \in Steps
        /\ req[p].owns = "none"
    BY <1>2, <1>0, StepNames DEF DeleteProject, At, Session, Unclaimed
  <2>2. aws' \in {aws, new} => WorldOK'
    BY <1>2 DEF DeleteProject, WorldOK
  <2>3. /\ Call(p, new, {}, step)
        /\ UNCHANGED <<row, cluster, stale, robbed, github, ops, deaths, misled>>
    BY <1>2 DEF DeleteProject, registry
  <2> HIDE DEF new, step
  <2> QED
    BY <2>1, <2>2, <2>3, CallKeeps
<1>3. CASE DeleteRepository(p)
  <2> DEFINE new == [aws EXCEPT !.repo = FALSE]
  <2>1. "deprovisionRow" \in Steps /\ req[p].owns = "none"
    BY <1>3, <1>0, StepNames DEF DeleteRepository, At, Session, Unclaimed
  <2>2. aws' \in {aws, new} => WorldOK'
    <3>1. images' \in [Commits -> 0..MaxHead] /\ UNCHANGED builds
      BY <1>3, Bounds DEF DeleteRepository, WorldOK
    <3> QED
      BY <3>1 DEF WorldOK
  <2>3. /\ Call(p, new, {}, "deprovisionRow")
        /\ UNCHANGED <<row, cluster, stale, robbed, github, ops, deaths, misled>>
    BY <1>3 DEF DeleteRepository, registry
  <2> HIDE DEF new
  <2> QED
    BY <2>1, <2>2, <2>3, CallKeeps
<1>4. CASE RecordDeprovision(p)
  <2> DEFINE wiped == IF req[p].wipe
                      THEN [row EXCEPT !.repo = FALSE, !.tag = 0, !.build = "never",
                                       !.bid = 0]
                      ELSE row
             new == [wiped EXCEPT
                       !.prov = IF req[p].err THEN "failed" ELSE "not_provisioned",
                       !.launch = "none", !.arn = FALSE, !.project = FALSE]
             r == IF req[p].err THEN Idle
                  ELSE [Idle EXCEPT !.pc = "clusterIfUp", !.op = req[p].op,
                                    !.owns = req[p].owns]
  <2>1. Update(new)
    BY <1>4 DEF RecordDeprovision
  <2>2. wiped \in Row
    BY Bounds DEF Row, BuildState
  <2>3. new \in Row
    <3> HIDE DEF wiped
    <3> QED
      BY <2>2 DEF Row, LaunchState, ProvisionState
  <2>4. req[p].owns = "none"
    BY <1>4, <1>0 DEF RecordDeprovision, At, Session, Unclaimed
  <2>5. r \in Request /\ Session(r) /\ r.owns = "none"
    <3>1. CASE req[p].err
      BY <3>1, IdleRequest
    <3>2. CASE ~req[p].err
      <4>1. r \in Request /\ r.pc = "clusterIfUp" /\ r.owns = "none"
        BY <3>2, <1>0, <2>4, IdleRequest, StepNames DEF Request
      <4> QED
        BY <4>1 DEF Session
    <3> QED
      BY <3>1, <3>2
  <2>6. /\ Becomes(p, r)
        /\ robbed' \in {robbed \cup Holders(p), (robbed \cup Holders(p)) \ {p}}
    BY <1>4 DEF RecordDeprovision, Forgets
  <2>7. UNCHANGED <<cluster, world, github>> /\ CountersOK'
    BY <1>4, HistoryKept DEF RecordDeprovision, CountersOK
  <2> HIDE DEF wiped, new, r
  <2>8. CASE row.exists
    <3>1. row' = new /\ stale' = FALSE
      BY <2>1, <2>8 DEF Update
    <3> QED
      BY <2>3, <2>5, <2>6, <2>7, <3>1, LaunchWritten
  <2>9. CASE ~row.exists
    <3>1. UNCHANGED <<row, stale>>
      BY <2>1, <2>9 DEF Update
    <3>2. \A q \in Procs \ robbed : req[q].owns = "none"
      BY <2>9 DEF ClaimInv, HoldersOK
    <3>3. robbed' = robbed \ {p} \/ robbed' = robbed
      BY <3>2, <2>6 DEF Holders
    <3>4. Quiet(p)
      BY <2>5, <2>6, <3>3 DEF Quiet
    <3> QED
      BY <2>7, <3>1, <3>4, QuietRead, LaunchStutters
  <2> QED
    BY <2>8, <2>9
<1>5. CASE ClusterIfUp(p)
  <2>1. {"clusterCheck", "teardownCluster"} \subseteq Steps \ Unclaimed
    BY StepNames DEF Unclaimed
  <2>2. Quiet(p)
    BY <1>5, <2>1, GotoQuiet, EndsQuiet DEF ClusterIfUp
  <2> QED
    BY <1>5, <2>2, QuietRead, LaunchStutters DEF ClusterIfUp
<1>6. CASE CheckClusterFree(p)
  <2>1. "deleteCapacity" \in Steps \ Unclaimed
    BY StepNames DEF Unclaimed
  <2>2. Quiet(p)
    BY <1>6, <2>1, GotoQuiet, EndsQuiet DEF CheckClusterFree
  <2> QED
    BY <1>6, <2>2, QuietRead, LaunchStutters DEF CheckClusterFree
<1>7. CASE DeleteCapacity(p)
  <2> DEFINE new == [aws EXCEPT !.capacity = FALSE]
  <2>1. "deleteCluster" \in Steps \ Unclaimed
    BY StepNames DEF Unclaimed
  <2>2. aws' \in {aws, new} => WorldOK'
    BY <1>7 DEF DeleteCapacity, WorldOK
  <2>3. /\ Call(p, new, {}, "deleteCluster")
        /\ UNCHANGED <<row, cluster, stale, robbed, github, ops, deaths, misled>>
    BY <1>7 DEF DeleteCapacity, registry
  <2> HIDE DEF new
  <2> QED
    BY <2>1, <2>2, <2>3, CallKeeps
<1>8. CASE DeleteCluster(p)
  <2>0. "clusterGoneRow" \in Steps \ Unclaimed
    BY StepNames DEF Unclaimed
  <2>1. CASE aws.service = 0
    <3> DEFINE new == [aws EXCEPT !.cluster = FALSE]
    <3>1. aws' \in {aws, new} => WorldOK'
      BY <1>8 DEF DeleteCluster, WorldOK
    <3>2. /\ Call(p, new, {}, "clusterGoneRow")
          /\ UNCHANGED <<row, cluster, stale, robbed, github, ops, deaths, misled>>
      BY <1>8, <2>1 DEF DeleteCluster, registry
    <3> HIDE DEF new
    <3> QED
      BY <2>0, <3>1, <3>2, CallKeeps
  <2>2. CASE aws.service # 0
    <3> DEFINE r == [req[p] EXCEPT !.pc = "clusterGoneRow", !.err = TRUE]
    <3>1. r \in Request /\ r.pc = "clusterGoneRow" /\ r.owns = req[p].owns
      BY <1>0, <2>0 DEF Request
    <3>2. Session(r)
      BY <3>1 DEF Session, Unclaimed
    <3>3. Becomes(p, r) /\ robbed' = robbed
      BY <1>8, <2>2 DEF DeleteCluster, registry
    <3> HIDE DEF r
    <3>4. Quiet(p)
      BY <3>1, <3>2, <3>3, QuietBy
    <3> QED
      BY <1>8, <2>2, <3>4, QuietRead, LaunchStutters
      DEF DeleteCluster, registry, world, counters
  <2> QED
    BY <2>1, <2>2
<1>9. CASE RecordClusterGone(p)
  <2>1. {"remove", "teardownCluster"} \subseteq Steps \ Unclaimed
    BY StepNames DEF Unclaimed
  <2>2. Quiet(p)
    BY <1>9, <2>1, GotoQuiet, EndsQuiet DEF RecordClusterGone
  <2>3. cluster' \in ClusterState
    BY <1>9 DEF RecordClusterGone, ClusterState
  <2>4. RowKept /\ row' \in Row /\ stale' \in BOOLEAN
    BY <1>9, KeptUnchanged DEF RecordClusterGone
  <2> QED
    BY <1>9, <2>2, <2>3, <2>4, QuietStep, LaunchStutters DEF RecordClusterGone
<1>10. CASE Teardown(p)
  <2>1. req[p].owns = "none"
    BY <1>10, <1>0 DEF Teardown, At, Session, Unclaimed
  <2>2. {"deleteService", "teardownCluster"} \subseteq Steps
    BY StepNames DEF Unclaimed
  <2>3. Quiet(p)
    BY <1>10, <2>1, <2>2, GotoQuiet, EndsQuiet DEF Teardown
  <2> QED
    BY <1>10, <2>3, QuietRead, LaunchStutters DEF Teardown
<1>11. CASE TeardownCluster(p)
  <2> DEFINE r == [req[p] EXCEPT !.was = TRUE,
               !.pc = IF cluster # "not_provisioned" THEN "clusterCheck" ELSE "remove"]
  <2>1. r \in Request /\ r.pc \in {"clusterCheck", "remove"} /\ r.owns = req[p].owns
    BY <1>0, StepNames DEF Request
  <2>2. Session(r)
    BY <2>1 DEF Session, Unclaimed
  <2>3. (Becomes(p, r) /\ robbed' = robbed) \/ Ends(p)
    BY <1>11 DEF TeardownCluster
  <2> HIDE DEF r
  <2>4. Quiet(p)
    BY <2>1, <2>2, <2>3, QuietBy, EndsQuiet
  <2> QED
    BY <1>11, <2>4, QuietRead, LaunchStutters DEF TeardownCluster
<1>12. CASE ReadForRemove(p)
  <2>1. "removeRows" \in Steps \ Unclaimed
    BY StepNames DEF Unclaimed
  <2>2. Quiet(p)
    BY <1>12, <2>1, GotoQuiet, EndsQuiet DEF ReadForRemove
  <2> QED
    BY <1>12, <2>2, QuietRead, LaunchStutters DEF ReadForRemove
<1>13. CASE RemoveRows(p)
  <2>1. NoRow \in Row
    BY EmptyRows
  <2>2. /\ row' = NoRow /\ cluster' \in ClusterState /\ stale' = FALSE
        /\ robbed' = (robbed \cup Holders(p)) \ {p} /\ Becomes(p, Idle)
        /\ UNCHANGED <<world, github>> /\ CountersOK'
    BY <1>13, HistoryKept DEF RemoveRows, ClusterState, CountersOK
  <2> QED
    BY <2>1, <2>2, IdleRequest, LaunchWritten
<1> QED
  BY <1>1, <1>2, <1>3, <1>4, <1>5, <1>6, <1>7, <1>8, <1>9, <1>10, <1>11, <1>12,
     <1>13
  DEF TeardownStep

-----------------------------------------------------------------------------
(* Requests arriving, time, GitHub and CodeBuild                           *)

LEMMA FirstStepOK ==
  \A op \in AllOps :
    /\ FirstStep[op] \in Steps
    /\ FirstStep[op] \notin {"claimDeploy", "status"}
BY DEF FirstStep, AllOps, Steps

(* A free slot takes a request, which holds no claim.                      *)
LEMMA Arrives ==
  ASSUME IInv, NEW p \in Procs, NEW r \in Request, Becomes(p, r),
         r.owns = "none", r.pc \notin {"claimDeploy", "status"},
         UNCHANGED registry, WorldOK', GithubOK', CountersOK'
  PROVE  IInv'
<1>1. Session(r)
  BY DEF Session
<1>2. Quiet(p)
  BY <1>1, QuietBy DEF registry
<1> QED
  BY <1>2, QuietRead DEF registry

(* What no request does keeps the requests and their claims: the row may   *)
(* be created when there was none, and goes stale when nobody is served.   *)
LEMMA WorldStep ==
  ASSUME IInv, UNCHANGED <<req, robbed>>,
         row' \in Row, stale' \in BOOLEAN, cluster' \in ClusterState,
         WorldOK', GithubOK', CountersOK',
         \/ UNCHANGED <<row, stale>>
         \/ ~row.exists
         \/ \A p \in Procs : At(p, "idle")
  PROVE  IInv'
<1> USE Typed
<1>1. RowOK' /\ RequestsOK' /\ SessionsOK'
  BY DEF RowOK, Row, ClusterState, RequestsOK, ClaimInv, SessionsOK, Session
<1>2. HoldersOK'
  <2>1. CASE UNCHANGED <<row, stale>>
    BY <2>1 DEF ClaimInv, HoldersOK
  <2>2. CASE ~row.exists
    BY <2>2 DEF ClaimInv, HoldersOK
  <2>3. CASE \A p \in Procs : At(p, "idle")
    BY <2>3 DEF At, Session, Unclaimed, HoldersOK
  <2> QED
    BY <2>1, <2>2, <2>3
<1> QED
  BY <1>1, <1>2 DEF IInv, TypeOK, ClaimInv

LEMMA DieInv ==
  ASSUME IInv, NEW p \in Procs, Die(p) PROVE IInv'
<1> USE Typed
<1>1. Quiet(p)
  BY EndsQuiet DEF Die
<1>2. GithubOK'
  BY DEF Die, GithubOK
<1>3. CountersOK'
  BY LaunchAssumption DEF Die, CountersOK
<1> QED
  BY <1>1, <1>2, <1>3, QuietRead, LaunchStutters DEF Die

LEMMA BuildStepInv ==
  ASSUME IInv, NEW b \in BuildIds, BuildStep(b) PROVE IInv'
<1> USE Typed
<1>1. WorldOK'
  <2>1. CASE CloneSource(b)
    <3>1. head \in 0..MaxHead
      BY DEF GithubOK, Commits
    <3> QED
      BY <2>1, <3>1 DEF CloneSource, WorldOK
  <2>2. CASE BuildSucceeds(b)
    BY <2>2 DEF BuildSucceeds, WorldOK, BuildState, Commits
  <2>3. CASE BuildPushesNothing(b)
    <3>1. 0 \in 0..MaxHead
      BY LaunchAssumption
    <3> QED
      BY <2>3, <3>1 DEF BuildPushesNothing, WorldOK, BuildState
  <2>4. CASE BuildFails(b)
    BY <2>4 DEF BuildFails, WorldOK, BuildState
  <2> QED
    BY <2>1, <2>2, <2>3, <2>4 DEF BuildStep
<1>2. UNCHANGED <<registry, github, req, counters>>
  BY DEF BuildStep, CloneSource, BuildSucceeds, BuildPushesNothing, BuildFails, github
<1> QED
  BY <1>1, <1>2, WorldStep, LaunchStutters DEF registry

LEMMA ArrivalInv ==
  ASSUME IInv, NEW p \in Procs,
         \/ \E op \in Ops, wipe \in BOOLEAN : StartRequest(p, op, wipe)
         \/ HandlePushEvent(p) \/ ReconcileLaunches(p)
  PROVE  IInv'
<1> USE Typed
<1>0. {"claim", "refresh"} \subseteq Steps
  BY StepNames
<1>1. CASE \E op \in Ops, wipe \in BOOLEAN : StartRequest(p, op, wipe)
  <2>1. PICK op \in Ops, wipe \in BOOLEAN : StartRequest(p, op, wipe)
    BY <1>1
  <2> DEFINE step == FirstStep[op]
             r    == [Idle EXCEPT !.pc = step, !.op = op, !.wipe = wipe]
  <2>2. op \in AllOps /\ step \in Steps /\ step \notin {"claimDeploy", "status"}
    BY LaunchAssumption, FirstStepOK
  <2>3. Becomes(p, r) /\ UNCHANGED registry
    BY <2>1 DEF StartRequest
  <2>4. /\ ops < MaxOps /\ ops' = ops + 1
        /\ UNCHANGED <<world, github, errors, deaths, misled>>
    BY <2>1 DEF StartRequest
  <2> HIDE DEF step
  <2>5. r \in Request /\ r.owns = "none" /\ r.pc = step
    BY <2>2, IdleRequest DEF Request
  <2> HIDE DEF r
  <2>6. CountersOK'
    BY <2>4, LaunchAssumption DEF CountersOK
  <2> QED
    BY <2>2, <2>3, <2>4, <2>5, <2>6, Arrives, LaunchStutters
<1>2. CASE HandlePushEvent(p)
  <2> DEFINE r == [Idle EXCEPT !.pc = "claim", !.op = "push"]
  <2>1. UNCHANGED registry /\ WorldOK' /\ CountersOK'
    BY <1>2, LaunchStutters DEF HandlePushEvent
  <2>2. GithubOK'
    BY <1>2 DEF HandlePushEvent, GithubOK
  <2>3. r \in Request /\ r.owns = "none" /\ r.pc = "claim"
    BY <1>0, IdleRequest DEF Request
  <2>4. Becomes(p, r) \/ UNCHANGED req
    BY <1>2 DEF HandlePushEvent
  <2> HIDE DEF r
  <2>5. CASE Becomes(p, r)
    BY <2>1, <2>2, <2>3, <2>5, Arrives
  <2>6. CASE UNCHANGED req
    BY <2>1, <2>2, <2>6, WorldStep DEF registry
  <2> QED
    BY <2>4, <2>5, <2>6
<1>3. CASE ReconcileLaunches(p)
  <2>1. UNCHANGED registry /\ WorldOK' /\ GithubOK' /\ CountersOK'
    BY <1>3, LaunchStutters DEF ReconcileLaunches
  <2>2. PICK step \in {"claim", "refresh"} :
          Becomes(p, [Idle EXCEPT !.pc = step, !.op = "reconcile"])
    BY <1>3 DEF ReconcileLaunches
  <2> DEFINE r == [Idle EXCEPT !.pc = step, !.op = "reconcile"]
  <2>3. r \in Request /\ r.owns = "none" /\ r.pc \in {"claim", "refresh"}
    BY <1>0, IdleRequest DEF Request
  <2>4. Becomes(p, r)
    BY <2>2
  <2> HIDE DEF r
  <2> QED
    BY <2>1, <2>3, <2>4, Arrives
<1> QED
  BY <1>1, <1>2, <1>3

-----------------------------------------------------------------------------
(* The theorems                                                            *)

LEMMA InitInv == Init => IInv
<1> SUFFICES ASSUME Init PROVE IInv
  OBVIOUS
<1>1. row \in Row
  BY EmptyRows DEF Init
<1>2. RowOK
  BY <1>1 DEF Init, RowOK, Row
<1>3. WorldOK
  BY Bounds DEF Init, WorldOK, BuildState
<1>4. GithubOK /\ CountersOK
  <2>1. misled \in BOOLEAN
    BY DEF Init
  <2> QED
    BY <2>1, LaunchAssumption DEF Init, GithubOK, CountersOK, Commits
<1>5. RequestsOK /\ SessionsOK /\ HoldersOK
  BY IdleRequest DEF Init, RequestsOK, SessionsOK, HoldersOK
<1> QED
  BY <1>2, <1>3, <1>4, <1>5 DEF IInv, TypeOK, ClaimInv

LEMMA NextInv == IInv /\ [Next]_vars => IInv'
<1> SUFFICES ASSUME IInv, [Next]_vars PROVE IInv'
  OBVIOUS
<1> USE Typed
<1>1. CASE CreateMicroservice
  <2>1. row' \in Row
    BY <1>1, EmptyRows DEF CreateMicroservice, LaunchState
  <2>2. CountersOK'
    BY <1>1, LaunchAssumption DEF CreateMicroservice, CountersOK
  <2> QED
    BY <1>1, <2>1, <2>2, WorldStep, LaunchStutters
    DEF CreateMicroservice, ClusterState
<1>2. CASE GithubPush
  <2>1. GithubOK'
    BY <1>2, LaunchAssumption DEF GithubPush, GithubOK, Commits
  <2> QED
    BY <1>2, <2>1, WorldStep, LaunchStutters DEF GithubPush, registry
<1>3. CASE ClaimGoesStale
  BY <1>3, WorldStep, LaunchStutters DEF ClaimGoesStale
<1>4. CASE \E p \in Requests :
             \/ \E op \in Ops, wipe \in BOOLEAN : StartRequest(p, op, wipe)
             \/ HandlePushEvent(p)
  BY <1>4, ArrivalInv DEF Procs
<1>5. CASE \E p \in Reconcilers : ReconcileLaunches(p)
  BY <1>5, ArrivalInv DEF Procs
<1>6. CASE \E p \in Procs : Proceed(p) \/ Die(p)
  BY <1>6, LaunchStepInv, AdvanceStepInv, TeardownStepInv, DieInv DEF Proceed
<1>7. CASE \E b \in BuildIds : BuildStep(b)
  BY <1>7, BuildStepInv
<1>8. CASE UNCHANGED vars
  BY <1>8, WorldStep, LaunchStutters DEF vars, registry, world, github, counters
<1> QED
  BY <1>1, <1>2, <1>3, <1>4, <1>5, <1>6, <1>7, <1>8 DEF Next

(* Type correctness: every record of the registry, of AWS and of a request *)
(* stays well formed, whatever interleaves, fails or dies.                 *)
THEOREM LaunchTypeCorrect == Spec => []TypeOK
<1>1. IInv => TypeOK
  BY DEF IInv
<1> QED
  BY InitInv, NextInv, <1>1, PTL DEF Spec

-----------------------------------------------------------------------------
(* A step of one request that gives no request a claim.                    *)
NoClaim == \A p \in Procs : req[p].owns = "none" => req'[p].owns = "none"

LEMMA KeepsNoClaim ==
  ASSUME RequestsOK, NEW p \in Procs, NEW r, Becomes(p, r),
         r.owns \in {req[p].owns, "none"}
  PROVE  NoClaim
BY DEF RequestsOK, Becomes, NoClaim

LEMMA IdleNoClaim ==
  ASSUME RequestsOK, NEW p \in Procs, Becomes(p, Idle) PROVE NoClaim
BY KeepsNoClaim, IdleRequest

LEMMA EndsNoClaim == ASSUME RequestsOK, NEW p \in Procs, Ends(p) PROVE NoClaim
BY IdleNoClaim DEF Ends

LEMMA GotoNoClaim ==
  ASSUME RequestsOK, NEW p \in Procs, NEW step, Goto(p, step) PROVE NoClaim
<1>1. [req[p] EXCEPT !.pc = step].owns = req[p].owns
  BY DEF RequestsOK, Request
<1> QED
  BY <1>1, KeepsNoClaim DEF Goto

LEMMA ForgetsNoClaim ==
  ASSUME RequestsOK, NEW p \in Procs, NEW step, Forgets(p, step) PROVE NoClaim
<1> DEFINE r == [Idle EXCEPT !.pc = step, !.op = req[p].op, !.owns = req[p].owns]
<1>1. r.owns = req[p].owns
  BY DEF Idle
<1>2. Becomes(p, r)
  BY DEF Forgets
<1> HIDE DEF r
<1> QED
  BY <1>1, <1>2, KeepsNoClaim

LEMMA ThrowsNoClaim ==
  ASSUME RequestsOK, NEW p \in Procs, Throws(p) PROVE NoClaim
BY EndsNoClaim, ForgetsNoClaim DEF Throws

LEMMA CallNoClaim ==
  ASSUME RequestsOK, NEW p \in Procs, NEW new, NEW partial, NEW step,
         Call(p, new, partial, step)
  PROVE  NoClaim
<1>1. [req[p] EXCEPT !.pc = step, !.err = TRUE].owns = req[p].owns
  BY DEF RequestsOK, Request
<1> QED
  BY <1>1, GotoNoClaim, KeepsNoClaim DEF Call

LEMMA RecordNoClaim ==
  ASSUME RequestsOK, NEW p \in Procs, NEW l, RecordLaunch(p, l) PROVE NoClaim
BY IdleNoClaim DEF RecordLaunch

(* Only the two claims give a claim.                                       *)
LEMMA LaunchNoClaim ==
  ASSUME RequestsOK, NEW p \in Procs, LaunchStep(p)
  PROVE  NoClaim \/ ClaimLaunch(p)
<1> USE KeepsNoClaim, EndsNoClaim, GotoNoClaim, ForgetsNoClaim, ThrowsNoClaim
<1>0. req[p] \in Request
  BY DEF RequestsOK
<1>1. CASE ReadForScaffold(p)
  BY <1>0, <1>1 DEF ReadForScaffold, Request
<1>2. CASE EnsureCluster(p)
  BY <1>2, CallNoClaim DEF EnsureCluster
<1>3. CASE RecordCluster(p)
  BY <1>3 DEF RecordCluster
<1>4. CASE EnsureScaffold(p)
  BY <1>4, CallNoClaim DEF EnsureScaffold
<1>5. CASE RecordScaffold(p)
  BY <1>5 DEF RecordScaffold
<1>6. CASE LaunchBuildOrJoin(p) \/ ReadForBuild(p)
  BY <1>6 DEF LaunchBuildOrJoin, ReadForBuild
<1>7. CASE CheckSource(p)
  BY <1>0, <1>7 DEF CheckSource, Request
<1>8. CASE StartImageBuild(p)
  BY <1>0, <1>8 DEF StartImageBuild, Request
<1>9. CASE RecordBuild(p)
  BY <1>9 DEF RecordBuild
<1>10. CASE RecordBuilding(p) \/ RecordFailed(p) \/ RecordRunning(p) \/ ClearLaunch(p)
  BY <1>10, RecordNoClaim
  DEF RecordBuilding, RecordFailed, RecordRunning, ClearLaunch
<1> QED
  BY <1>1, <1>2, <1>3, <1>4, <1>5, <1>6, <1>7, <1>8, <1>9, <1>10 DEF LaunchStep

LEMMA AdvanceNoClaim ==
  ASSUME RequestsOK, NEW p \in Procs, AdvanceStep(p)
  PROVE  NoClaim \/ ClaimDeploy(p)
<1> USE KeepsNoClaim, EndsNoClaim, GotoNoClaim, ForgetsNoClaim, ThrowsNoClaim
<1>0. req[p] \in Request
  BY DEF RequestsOK
<1>1. AdvanceLaunch(p) => NoClaim
  BY <1>0 DEF AdvanceLaunch, Request
<1>2. CASE RefreshBuild(p) \/ Reread(p)
  BY <1>0, <1>1, <1>2 DEF RefreshBuild, Reread, Request
<1>3. CASE BuildStatus(p)
  BY <1>0, <1>3 DEF BuildStatus, Request
<1>4. CASE RecordStatus(p)
  BY <1>4 DEF RecordStatus
<1>5. CASE ReadForDeploy(p)
  BY <1>0, <1>5 DEF ReadForDeploy, Request
<1>6. CASE ReadForRollback(p)
  BY <1>0, <1>6 DEF ReadForRollback, Request
<1>7. CASE DeployService(p)
  BY <1>0, <1>7 DEF DeployService, Request
<1>8. CASE RecordDeploy(p)
  BY <1>8 DEF RecordDeploy
<1>9. CASE ReadForStop(p) \/ StopBuild(p) \/ RecordStop(p)
  BY <1>0, <1>9 DEF ReadForStop, StopBuild, RecordStop, Request
<1> QED
  BY <1>2, <1>3, <1>4, <1>5, <1>6, <1>7, <1>8, <1>9 DEF AdvanceStep

LEMMA TeardownNoClaim ==
  ASSUME RequestsOK, NEW p \in Procs, TeardownStep(p) PROVE NoClaim
<1> USE EndsNoClaim, GotoNoClaim, CallNoClaim
<1>0. req[p] \in Request
  BY DEF RequestsOK
<1>1. CASE DeleteService(p) \/ DeleteProject(p) \/ DeleteRepository(p) \/ DeleteCapacity(p)
  BY <1>1 DEF DeleteService, DeleteProject, DeleteRepository, DeleteCapacity
<1>2. CASE RecordDeprovision(p)
  BY <1>2, IdleNoClaim, ForgetsNoClaim DEF RecordDeprovision
<1>3. CASE ClusterIfUp(p) \/ CheckClusterFree(p) \/ RecordClusterGone(p)
  BY <1>3 DEF ClusterIfUp, CheckClusterFree, RecordClusterGone
<1>4. CASE DeleteCluster(p)
  BY <1>0, <1>4, KeepsNoClaim DEF DeleteCluster, Request
<1>5. CASE Teardown(p) \/ ReadForRemove(p)
  BY <1>5 DEF Teardown, ReadForRemove
<1>6. CASE TeardownCluster(p)
  BY <1>0, <1>6, KeepsNoClaim DEF TeardownCluster, Request
<1>7. CASE RemoveRows(p)
  BY <1>7, IdleNoClaim DEF RemoveRows
<1> QED
  BY <1>1, <1>2, <1>3, <1>4, <1>5, <1>6, <1>7 DEF TeardownStep

LEMMA OnlyClaimsClaim ==
  ASSUME RequestsOK, [Next]_vars
  PROVE  NoClaim \/ \E p \in Procs : ClaimLaunch(p) \/ ClaimDeploy(p)
<1>1. UNCHANGED req => NoClaim
  BY DEF NoClaim
<1>2. CASE CreateMicroservice \/ GithubPush \/ ClaimGoesStale \/ UNCHANGED vars
  BY <1>1, <1>2 DEF CreateMicroservice, GithubPush, ClaimGoesStale, vars
<1>3. ASSUME NEW p \in Requests, NEW op \in Ops, NEW wipe \in BOOLEAN,
             StartRequest(p, op, wipe)
      PROVE  NoClaim
  <2>1. [Idle EXCEPT !.pc = FirstStep[op], !.op = op, !.wipe = wipe].owns = "none"
    BY DEF Idle
  <2> QED
    BY <1>3, <2>1, KeepsNoClaim DEF StartRequest, Procs
<1>4. ASSUME NEW p \in Requests, HandlePushEvent(p) PROVE NoClaim
  <2>1. [Idle EXCEPT !.pc = "claim", !.op = "push"].owns = "none"
    BY DEF Idle
  <2> QED
    BY <1>1, <1>4, <2>1, KeepsNoClaim DEF HandlePushEvent, Procs
<1>5. ASSUME NEW p \in Reconcilers, ReconcileLaunches(p) PROVE NoClaim
  BY <1>5, KeepsNoClaim DEF ReconcileLaunches, Procs, Idle
<1>6. ASSUME NEW p \in Procs, Proceed(p) \/ Die(p)
      PROVE  NoClaim \/ ClaimLaunch(p) \/ ClaimDeploy(p)
  BY <1>6, LaunchNoClaim, AdvanceNoClaim, TeardownNoClaim, EndsNoClaim
  DEF Proceed, Die
<1>7. ASSUME NEW b \in BuildIds, BuildStep(b) PROVE NoClaim
  <2>1. UNCHANGED req
    BY <1>7 DEF BuildStep, CloneSource, BuildSucceeds, BuildPushesNothing, BuildFails
  <2> QED
    BY <1>1, <2>1
<1> QED
  BY <1>2, <1>3, <1>4, <1>5, <1>6, <1>7 DEF Next

(* A claim is a lock: it is never granted over a claim that a live request *)
(* holds, but that of a deploy by a new launch, and one that recordLaunch  *)
(* has overwritten (claimLaunch, claimDeploy).                             *)
THEOREM ClaimIsRespected == Spec => ClaimRespected
<1> DEFINE Respects ==
      \A p, q \in Procs :
        (/\ req[p].owns = "none" /\ req'[p].owns # "none"
         /\ q # p /\ q \notin robbed)
          => \/ req[q].owns = "none"
             \/ req'[p].owns = "provisioning" /\ req[q].owns = "deploying"
<1>1. IInv /\ [Next]_vars => Respects
  <2> SUFFICES ASSUME IInv, [Next]_vars, NEW p \in Procs, NEW q \in Procs,
                      req[p].owns = "none", req'[p].owns # "none",
                      q # p, q \notin robbed, req[q].owns # "none"
               PROVE  req'[p].owns = "provisioning" /\ req[q].owns = "deploying"
    OBVIOUS
  <2> USE Typed
  <2>1. /\ req \in [Procs -> Request]
        /\ row.exists /\ row.launch = req[q].owns /\ ~stale
        /\ req[q].owns \in {"provisioning", "deploying"}
    BY DEF RequestsOK, Request, ClaimInv, HoldersOK
  <2>2. PICK c \in Procs : ClaimLaunch(c) \/ ClaimDeploy(c)
    BY OnlyClaimsClaim DEF NoClaim
  <2>3. c = p
    <3>1. \E r : Becomes(c, r)
      BY <2>2 DEF ClaimLaunch, ClaimDeploy, Ends
    <3> QED
      BY <2>1, <3>1 DEF Becomes
  <2>4. ~Ends(p)
    BY EndsNoClaim DEF NoClaim
  <2>5. CASE ClaimLaunch(p)
    <3>1. row.launch # "provisioning"
      BY <2>1, <2>4, <2>5 DEF ClaimLaunch
    <3>2. req'[p] = [req[p] EXCEPT !.pc = "scaffoldRead", !.owns = "provisioning"]
      BY <2>1, <2>4, <2>5 DEF ClaimLaunch, Becomes
    <3> QED
      BY <2>1, <3>1, <3>2 DEF Request
  <2>6. CASE ClaimDeploy(p)
    <3>1. row.launch = req[p].launch /\ req[p].launch # "deploying"
      BY <2>1, <2>4, <2>6 DEF ClaimDeploy
    <3>2. req[p].launch \in {"building", "deploying"}
      BY <2>6 DEF ClaimDeploy, At, Session
    <3> QED
      BY <2>1, <3>1, <3>2
  <2> QED
    BY <2>2, <2>3, <2>5, <2>6
<1> QED
  BY InitInv, NextInv, <1>1, PTL DEF Spec, ClaimRespected

-----------------------------------------------------------------------------
(* ONE REQUEST AT A TIME.  With one slot and no deaths, what the registry  *)
(* may deny is bounded by the step of the request under way.  The parts of *)
(* the invariant speak of values - the request's record q, the row w, the  *)
(* cluster's state c, what AWS has a - so that they can be used of a state *)
(* and of the next one.                                                    *)

Bare(a) == ~a.cluster /\ ~a.capacity /\ ~a.project /\ a.service = 0

Deleting == {"deleteProject", "deleteRepository", "deprovisionRow"}

RowTells(q, w, c, a) ==
  /\ q.pc # "idle" => w.exists
  /\ ~w.exists => Bare(a)
  /\ w.prov = "not_provisioned" /\ q.pc \notin {"scaffoldRow", "deployRow"} =>
       a.service = 0 /\ ~a.project
  /\ c = "not_provisioned" /\ q.pc # "clusterRow" => ~a.cluster /\ ~a.capacity
  /\ w.launch = "running" /\ q.pc \notin Deleting => a.service # 0

CallsTell(q, w, c, a) ==
  /\ q.pc \in Deleting /\ ~q.err => a.service = 0
  /\ q.pc \in Deleting \ {"deleteProject"} /\ ~q.err => ~a.project
  /\ q.pc \in {"deleteCluster", "clusterGoneRow"} /\ ~q.err => ~a.capacity
  /\ q.pc = "clusterGoneRow" /\ ~q.err => ~a.cluster
  /\ q.pc \in {"deploy", "deployRow"} => q.tag # 0
  /\ q.pc = "deployRow" /\ ~q.err => a.service # 0
  /\ q.pc = "recordRunning" => a.service # 0
  /\ q.pc = "removeRows" => w.prov = "not_provisioned" /\ c = "not_provisioned"

(* A build of the tag succeeded and pushed nothing; of builds b.           *)
Unpushed(t, b) ==
  \E id \in BuildIds : b[id].state = "succeeded" /\ b[id].commit = 0 /\ b[id].tag = t

(* A tag that is in the repository, or that a build only claims to have    *)
(* pushed, unless it is none; of images i and builds b.                    *)
Imaged(t, i, b) == t # 0 => i[t] # 0 \/ Unpushed(t, b)

BuiltAs(id, t, i, b) ==
  /\ b[id].state # "never"
  /\ b[id].state = "succeeded" => Imaged(t, i, b)
  /\ b[id].state = "running" => b[id].tag = t \/ Imaged(t, i, b)

Wiping(q) == q.pc = "deprovisionRow" /\ q.wipe

TagsTell(q, w, i, b) ==
  /\ ~Wiping(q) => /\ w.build = "succeeded" => Imaged(w.tag, i, b)
                   /\ w.bid # 0 => BuiltAs(w.bid, w.tag, i, b)
  /\ w.bid # 0 => b[w.bid].state # "never"
  /\ q.pc = "deleteRepository" => q.wipe
  /\ q.pc = "buildRow" => q.bid # 0 /\ BuiltAs(q.bid, q.tag, i, b)
  /\ q.pc = "status" => q.bid = w.bid /\ w.bid # 0
  /\ q.pc = "statusRow" /\ q.build = "succeeded" => Imaged(w.tag, i, b)
  /\ q.pc \in {"deploy", "deployRow"} => Imaged(q.tag, i, b)

SerialInv(p) ==
  /\ RowTells(req[p], row, cluster, aws) /\ CallsTell(req[p], row, cluster, aws)
  /\ TagsTell(req[p], row, images, builds)

(* Steps at which nothing is excused and nothing remembered.               *)
Plain == Steps \ {"scaffoldRow", "deployRow", "clusterRow", "deleteProject",
                  "deleteRepository", "deprovisionRow", "deleteCluster",
                  "clusterGoneRow", "deploy", "recordRunning", "removeRows",
                  "buildRow", "status", "statusRow"}

Truth(w, c, a) ==
  /\ ~w.exists => Bare(a)
  /\ w.prov = "not_provisioned" => a.service = 0 /\ ~a.project
  /\ c = "not_provisioned" => ~a.cluster /\ ~a.capacity
  /\ w.launch = "running" => a.service # 0

TagsTrue(w, i, b) ==
  /\ w.build = "succeeded" => Imaged(w.tag, i, b)
  /\ w.bid # 0 => BuiltAs(w.bid, w.tag, i, b)

Excused == {"scaffoldRow", "deployRow", "clusterRow"} \cup Deleting

(* A finished build stays what it is, so what it says of a tag does too.   *)
LEMMA ImagedStays ==
  ASSUME NEW t, NEW i, NEW b, NEW c, Imaged(t, i, b),
         \A id \in BuildIds : b[id].state = "succeeded" => c[id] = b[id]
  PROVE  Imaged(t, i, c)
BY DEF Imaged, Unpushed

LEMMA PlainTells ==
  ASSUME NEW q, q.pc \in Plain, NEW w, NEW c, NEW a, NEW i, NEW b,
         q.pc # "idle" => w.exists, Truth(w, c, a), TagsTrue(w, i, b)
  PROVE  RowTells(q, w, c, a) /\ CallsTell(q, w, c, a) /\ TagsTell(q, w, i, b)
BY DEF Plain, Truth, TagsTrue, RowTells, CallsTell, TagsTell, Deleting, BuiltAs, Wiping

(* A request under way has a row; between excused steps its row is true.   *)
LEMMA SerialSays ==
  ASSUME NEW p \in Procs, SerialInv(p)
  PROVE  /\ req[p].pc # "idle" => row.exists
         /\ req[p].pc \notin Excused => Truth(row, cluster, aws)
         /\ req[p].pc # "deprovisionRow" => TagsTrue(row, images, builds)
BY DEF SerialInv, RowTells, Truth, Excused, TagsTell, TagsTrue, Wiping

LEMMA ToPlain ==
  ASSUME NEW p \in Procs, req'[p].pc \in Plain, req'[p].pc # "idle" => row'.exists,
         Truth(row', cluster', aws'), TagsTrue(row', images', builds')
  PROVE  SerialInv(p)'
<1>1. /\ RowTells(req'[p], row', cluster', aws') /\ CallsTell(req'[p], row', cluster', aws')
      /\ TagsTell(req'[p], row', images', builds')
  BY PlainTells
<1> QED
  BY <1>1 DEF SerialInv

(* What becomes of the request's record.                                   *)
LEMMA GotoRecord ==
  ASSUME RequestsOK, NEW p \in Procs, NEW step \in Steps, Goto(p, step)
  PROVE  /\ req'[p].pc = step /\ req'[p].err = req[p].err /\ req'[p].tag = req[p].tag
         /\ req'[p].bid = req[p].bid /\ req'[p].build = req[p].build
         /\ req'[p].wipe = req[p].wipe /\ req'[p].op = req[p].op
BY DEF RequestsOK, Goto, Becomes, Request

LEMMA BecomesRecord ==
  ASSUME RequestsOK, NEW p \in Procs, NEW r, Becomes(p, r)
  PROVE  req'[p] = r
BY DEF RequestsOK, Becomes

LEMMA EndsRecord ==
  ASSUME RequestsOK, NEW p \in Procs, Ends(p) \/ Becomes(p, Idle)
  PROVE  req'[p].pc = "idle"
BY BecomesRecord, IdleRequest DEF Ends

LEMMA ForgetsRecord ==
  ASSUME RequestsOK, NEW p \in Procs, NEW step \in Steps, Forgets(p, step)
  PROVE  req'[p].pc = step /\ ~req'[p].err
<1>1. req'[p] = [Idle EXCEPT !.pc = step, !.op = req[p].op, !.owns = req[p].owns]
  BY BecomesRecord DEF Forgets
<1> QED
  BY <1>1 DEF Idle

LEMMA ThrowsRecord ==
  ASSUME RequestsOK, NEW p \in Procs, Throws(p)
  PROVE  req'[p].pc \in {"idle", "recordFailed"}
BY EndsRecord, ForgetsRecord, StepNames DEF Throws

LEMMA CallRecord ==
  ASSUME RequestsOK, NEW p \in Procs, NEW step \in Steps, NEW new, NEW partial,
         Call(p, new, partial, step)
  PROVE  /\ req'[p].pc = step /\ req'[p].wipe = req[p].wipe
         /\ aws' \in {aws, new} \cup partial
         /\ ~req'[p].err => aws' = new /\ ~req[p].err
<1>1. req[p] \in Request
  BY DEF RequestsOK
<1>2. CASE aws' = new /\ Goto(p, step)
  BY <1>2, GotoRecord
<1>3. CASE /\ aws' \in {aws, new} \cup partial
           /\ Becomes(p, [req[p] EXCEPT !.pc = step, !.err = TRUE])
  <2>1. req'[p] = [req[p] EXCEPT !.pc = step, !.err = TRUE]
    BY <1>3, BecomesRecord
  <2> QED
    BY <1>1, <1>3, <2>1 DEF Request
<1> QED
  BY <1>2, <1>3 DEF Call

(* What becomes of the row: fields a request does not name stay.           *)
LEMMA PlainNames ==
  {"idle", "claim", "scaffoldRead", "ensureCluster", "scaffold", "launchBuild", "buildRead",
   "check", "startBuild", "recordBuilding", "recordFailed", "refresh", "reread",
   "claimDeploy", "deployRead", "rollbackRead", "stopRead", "stop", "stopRow", "dismiss",
   "deleteService", "clusterIfUp", "clusterCheck", "deleteCapacity", "teardown",
   "teardownCluster", "remove"} \subseteq Plain
BY StepNames DEF Plain, Steps

(* What the proofs of the steps start from.                                *)
World == [cluster : BOOLEAN, capacity : BOOLEAN, project : BOOLEAN, repo : BOOLEAN,
          service : 0..MaxHead]

LEMMA Shapes ==
  ASSUME TypeOK
  PROVE  /\ RequestsOK /\ req \in [Procs -> Request] /\ row \in Row /\ aws \in World
         /\ images \in [Commits -> 0..MaxHead]
         /\ builds \in [BuildIds -> [state : BuildState, tag : 0..MaxHead, commit : 0..MaxHead]]
BY DEF TypeOK, RequestsOK, RowOK, WorldOK, Row, World

(* A row of which the request writes nothing that is told of, but that the *)
(* launch is over or the build stopped.                                    *)
RowStays ==
  /\ row'.exists = row.exists /\ row'.prov = row.prov /\ row'.bid = row.bid
  /\ row'.tag = row.tag /\ row'.build \in {row.build, "stopped"}
  /\ row'.launch = "running" => row.launch = "running"

LEMMA StillTrue ==
  ASSUME NEW p \in Procs, SerialInv(p), req[p].pc \notin Excused \cup {"idle"},
         req'[p].pc \in Plain, RowStays, UNCHANGED <<cluster, aws, images, builds>>
  PROVE  SerialInv(p)'
<1>1. row.exists /\ Truth(row, cluster, aws) /\ TagsTrue(row, images, builds)
  BY SerialSays DEF Excused, Deleting
<1>2. Truth(row', cluster', aws')
  BY <1>1 DEF Truth, RowStays
<1>3. TagsTrue(row', images', builds')
  BY <1>1 DEF TagsTrue, RowStays, BuiltAs, Imaged
<1> QED
  BY <1>1, <1>2, <1>3, ToPlain DEF RowStays

LEMMA RowLeft == UNCHANGED row => RowStays
BY DEF RowStays

LEMMA RowTouched == Update(row) => RowStays
BY DEF Update, RowStays

LEMMA LaunchRecorded ==
  ASSUME row \in Row, NEW l \in LaunchState \ {"running"}, Update([row EXCEPT !.launch = l])
  PROVE  RowStays
BY DEF Row, Update, RowStays

LEMMA EndsPlain ==
  ASSUME RequestsOK, NEW p \in Procs, Ends(p) \/ Becomes(p, Idle)
  PROVE  req'[p].pc \in Plain
BY EndsRecord, PlainNames

LEMMA ThrowsPlain ==
  ASSUME RequestsOK, NEW p \in Procs, Throws(p)
  PROVE  req'[p].pc \in Plain
BY ThrowsRecord, PlainNames

LEMMA GotoPlain ==
  ASSUME RequestsOK, NEW p \in Procs, NEW step \in Plain, Goto(p, step)
  PROVE  req'[p].pc \in Plain
BY GotoRecord DEF Plain

(* The steps of a launch, one request at a time.                           *)
LEMMA LaunchTells ==
  ASSUME TypeOK, NEW p \in Procs, SerialInv(p), LaunchStep(p)
  PROVE  SerialInv(p)'
<1>0. /\ RequestsOK /\ req \in [Procs -> Request] /\ req[p] \in Request
      /\ row \in Row /\ aws \in World
  BY Shapes
<1>1. CASE ClaimLaunch(p)
  <2>1. req[p].pc \notin Excused \cup {"idle"}
    BY <1>1 DEF ClaimLaunch, At, Excused, Deleting
  <2>2. RowStays
    BY <1>0, <1>1, LaunchRecorded, RowLeft DEF ClaimLaunch, LaunchState
  <2>3. req'[p].pc \in Plain
    <3>1. CASE Becomes(p, [req[p] EXCEPT !.pc = "scaffoldRead", !.owns = "provisioning"])
      BY <1>0, <3>1, BecomesRecord, PlainNames DEF Request
    <3> QED
      BY <1>0, <1>1, <3>1, EndsPlain DEF ClaimLaunch
  <2> QED
    BY <1>1, <2>1, <2>2, <2>3, StillTrue DEF ClaimLaunch, world
<1>2. CASE ReadForScaffold(p)
  <2>1. req[p].pc \notin Excused \cup {"idle"}
    BY <1>2 DEF ReadForScaffold, At, Excused, Deleting
  <2>2. req'[p].pc \in Plain
    <3>1. ASSUME Becomes(p, [req[p] EXCEPT
                   !.was = (row.prov = "provisioned"),
                   !.pc = IF cluster = "provisioned" THEN "scaffold" ELSE "ensureCluster"])
          PROVE  req'[p].pc \in {"scaffold", "ensureCluster"}
      <4>1. req'[p] = [req[p] EXCEPT
              !.was = (row.prov = "provisioned"),
              !.pc = IF cluster = "provisioned" THEN "scaffold" ELSE "ensureCluster"]
        BY <1>0, <3>1, BecomesRecord
      <4> QED
        BY <1>0, <4>1 DEF Request
    <3> QED
      BY <1>0, <1>2, <3>1, ThrowsPlain, PlainNames DEF ReadForScaffold
  <2> QED
    BY <1>2, <2>1, <2>2, RowLeft, StillTrue DEF ReadForScaffold, world
<1>3. CASE EnsureCluster(p)
  <2>1. req[p].pc = "ensureCluster" /\ UNCHANGED <<row, cluster, images, builds>>
    BY <1>3 DEF EnsureCluster, At
  <2>2. row.exists /\ Truth(row, cluster, aws) /\ TagsTrue(row, images, builds)
    BY <2>1, SerialSays DEF Excused, Deleting
  <2>3. CASE row.exists
    <3>1. /\ req'[p].pc = "clusterRow" /\ req'[p].wipe = req[p].wipe
          /\ aws' \in {aws, [aws EXCEPT !.cluster = TRUE, !.capacity = TRUE]}
                      \cup {[aws EXCEPT !.cluster = TRUE]}
      BY <1>0, <1>3, <2>3, CallRecord, StepNames DEF EnsureCluster
    <3>2. aws'.service = aws.service /\ aws'.project = aws.project
      BY <1>0, <3>1 DEF World
    <3>3. RowTells(req'[p], row', cluster', aws')
      BY <2>1, <2>2, <3>1, <3>2 DEF RowTells, Truth, Deleting
    <3>4. CallsTell(req'[p], row', cluster', aws')
      BY <3>1 DEF CallsTell, Deleting
    <3>5. TagsTell(req'[p], row', images', builds')
      BY <2>1, <2>2, <3>1 DEF TagsTell, TagsTrue, BuiltAs, Wiping
    <3> QED
      BY <3>3, <3>4, <3>5 DEF SerialInv
  <2> QED
    BY <2>2, <2>3
<1>4. CASE RecordCluster(p)
  <2>1. /\ req[p].pc = "clusterRow" /\ UNCHANGED <<row, aws, images, builds>>
        /\ row.exists => cluster' # "not_provisioned"
    BY <1>4 DEF RecordCluster, At, world
  <2>2. req'[p].pc \in Plain
    BY <1>0, <1>4, EndsPlain, GotoPlain, PlainNames DEF RecordCluster
  <2>3. row'.exists /\ Truth(row', cluster', aws') /\ TagsTrue(row', images', builds')
    BY <2>1 DEF SerialInv, RowTells, TagsTell, Truth, TagsTrue, Wiping, Deleting
  <2> QED
    BY <2>2, <2>3, ToPlain
<1>5. CASE EnsureScaffold(p)
  <2>1. req[p].pc = "scaffold" /\ UNCHANGED <<row, cluster, images, builds>>
    BY <1>5 DEF EnsureScaffold, At, registry
  <2>2. row.exists /\ Truth(row, cluster, aws) /\ TagsTrue(row, images, builds)
    BY <2>1, SerialSays DEF Excused, Deleting
  <2>3. /\ req'[p].pc = "scaffoldRow" /\ req'[p].wipe = req[p].wipe
        /\ aws' \in {aws, [aws EXCEPT !.project = TRUE, !.repo = TRUE]}
                    \cup {[aws EXCEPT !.project = TRUE], [aws EXCEPT !.repo = TRUE]}
    BY <1>0, <1>5, CallRecord, StepNames DEF EnsureScaffold
  <2>4. /\ aws'.service = aws.service /\ aws'.cluster = aws.cluster
        /\ aws'.capacity = aws.capacity
    BY <1>0, <2>3 DEF World
  <2>5. RowTells(req'[p], row', cluster', aws')
    BY <2>1, <2>2, <2>3, <2>4 DEF RowTells, Truth, Deleting
  <2>6. CallsTell(req'[p], row', cluster', aws')
    BY <2>3 DEF CallsTell, Deleting
  <2>7. TagsTell(req'[p], row', images', builds')
    BY <2>1, <2>2, <2>3 DEF TagsTell, TagsTrue, BuiltAs, Wiping
  <2> QED
    BY <2>5, <2>6, <2>7 DEF SerialInv
<1>6. CASE RecordScaffold(p)
  <2>1. req[p].pc = "scaffoldRow" /\ UNCHANGED <<cluster, aws, images, builds>>
    BY <1>6 DEF RecordScaffold, At, world
  <2>2. row.exists
    BY <2>1, SerialSays
  <2>3. /\ row'.exists = row.exists /\ row'.prov # "not_provisioned"
        /\ row'.launch = row.launch /\ row'.build = row.build
        /\ row'.bid = row.bid /\ row'.tag = row.tag
    <3>1. row' = [row EXCEPT
            !.prov = IF req[p].err THEN "failed"
                     ELSE IF req[p].was THEN "provisioned" ELSE "scaffolded",
            !.project = TRUE, !.repo = TRUE]
      BY <1>6, <2>2 DEF RecordScaffold, Update
    <3> QED
      BY <1>0, <3>1 DEF Row
  <2>4. req'[p].pc \in Plain
    BY <1>0, <1>6, EndsPlain, ForgetsRecord, PlainNames, StepNames DEF RecordScaffold
  <2>5. Truth(row', cluster', aws')
    BY <2>1, <2>2, <2>3 DEF SerialInv, RowTells, Truth, Deleting
  <2>6. TagsTrue(row', images', builds')
    BY <2>1, <2>3 DEF SerialInv, TagsTell, TagsTrue, BuiltAs, Wiping
  <2> QED
    BY <2>2, <2>3, <2>4, <2>5, <2>6, ToPlain
<1>7. CASE LaunchBuildOrJoin(p)
  <2>1. req[p].pc \notin Excused \cup {"idle"}
    BY <1>7 DEF LaunchBuildOrJoin, At, Excused, Deleting
  <2>2. req'[p].pc \in Plain
    BY <1>0, <1>7, GotoPlain, ThrowsPlain, PlainNames DEF LaunchBuildOrJoin
  <2> QED
    BY <1>7, <2>1, <2>2, RowLeft, StillTrue DEF LaunchBuildOrJoin, world
<1>8. CASE ReadForBuild(p)
  <2>1. req[p].pc \notin Excused \cup {"idle"}
    BY <1>8 DEF ReadForBuild, At, Excused, Deleting
  <2>2. req'[p].pc \in Plain
    BY <1>0, <1>8, GotoPlain, ThrowsPlain, PlainNames DEF ReadForBuild
  <2> QED
    BY <1>8, <2>1, <2>2, RowLeft, StillTrue DEF ReadForBuild, world
<1>9. CASE CheckSource(p)
  <2>1. req[p].pc \notin Excused \cup {"idle"}
    BY <1>9 DEF CheckSource, At, Excused, Deleting
  <2>2. req'[p].pc \in Plain
    <3>1. ASSUME Becomes(p, [req[p] EXCEPT !.pc = "startBuild", !.tag = head])
          PROVE  req'[p].pc = "startBuild"
      BY <1>0, <3>1, BecomesRecord DEF Request
    <3> QED
      BY <1>0, <1>9, <3>1, EndsPlain, ThrowsPlain, PlainNames DEF CheckSource
  <2>3. RowStays
    BY <1>9, RowTouched, RowLeft DEF CheckSource
  <2> QED
    BY <1>9, <2>1, <2>2, <2>3, StillTrue DEF CheckSource, world
<1>10. CASE StartImageBuild(p)
  <2>1. req[p].pc = "startBuild" /\ UNCHANGED <<row, cluster, aws, images>>
    BY <1>10 DEF StartImageBuild, At
  <2>2. row.exists /\ Truth(row, cluster, aws) /\ TagsTrue(row, images, builds)
    BY <2>1, SerialSays DEF Excused, Deleting
  <2>3. CASE Throws(p) /\ UNCHANGED builds
    BY <1>0, <2>1, <2>2, <2>3, ThrowsPlain, ToPlain
  <2>4. CASE \E b \in BuildIds :
               /\ builds[b].state = "never"
               /\ builds' = [builds EXCEPT ![b] =
                     [state |-> "running", tag |-> req[p].tag, commit |-> 0]]
               /\ Becomes(p, [req[p] EXCEPT !.pc = "buildRow", !.bid = b])
    <3>1. PICK b \in BuildIds :
            /\ builds[b].state = "never"
            /\ builds' = [builds EXCEPT ![b] =
                  [state |-> "running", tag |-> req[p].tag, commit |-> 0]]
            /\ Becomes(p, [req[p] EXCEPT !.pc = "buildRow", !.bid = b])
      BY <2>4
    <3>2. req'[p] = [req[p] EXCEPT !.pc = "buildRow", !.bid = b]
      BY <1>0, <3>1, BecomesRecord
    <3>3. /\ req'[p].pc = "buildRow" /\ req'[p].bid = b /\ req'[p].tag = req[p].tag
          /\ req'[p].wipe = req[p].wipe
      BY <1>0, <3>2 DEF Request
    <3>4. /\ builds'[b].state = "running" /\ builds'[b].tag = req[p].tag
          /\ \A c \in BuildIds \ {b} : builds'[c] = builds[c]
      BY <1>0, <3>1, Shapes
    <3>5. row.bid # 0 => row.bid \in BuildIds \ {b}
      BY <1>0, <2>2, <3>1 DEF TagsTrue, BuiltAs, Row, BuildIds
    <3>6. RowTells(req'[p], row', cluster', aws')
      BY <2>1, <2>2, <3>3 DEF RowTells, Truth, Deleting
    <3>7. CallsTell(req'[p], row', cluster', aws')
      BY <3>3 DEF CallsTell, Deleting
    <3>8. b # 0
      BY LaunchAssumption DEF BuildIds
    <3>9. \A t : Imaged(t, images, builds) => Imaged(t, images, builds')
      BY <3>1, <3>4, ImagedStays
    <3>10. TagsTell(req'[p], row', images', builds')
      BY <2>1, <2>2, <3>3, <3>4, <3>5, <3>8, <3>9 DEF TagsTell, TagsTrue, BuiltAs, Wiping
    <3> QED
      BY <3>6, <3>7, <3>10 DEF SerialInv
  <2> QED
    BY <1>10, <2>3, <2>4 DEF StartImageBuild
<1>11. CASE RecordBuild(p)
  <2>1. req[p].pc = "buildRow" /\ UNCHANGED <<cluster, aws, images, builds>>
    BY <1>11 DEF RecordBuild, At, world
  <2>2. row.exists /\ Truth(row, cluster, aws)
    BY <2>1, SerialSays DEF Excused, Deleting
  <2>3. row' = [row EXCEPT !.bid = req[p].bid, !.build = "running", !.tag = req[p].tag]
    BY <1>11, <2>2 DEF RecordBuild, Update
  <2>4. /\ row'.exists = row.exists /\ row'.prov = row.prov /\ row'.launch = row.launch
        /\ row'.bid = req[p].bid /\ row'.build = "running" /\ row'.tag = req[p].tag
    BY <1>0, <2>3 DEF Row
  <2>5. req'[p].pc \in Plain
    BY <1>0, <1>11, EndsPlain, ForgetsRecord, PlainNames, StepNames DEF RecordBuild
  <2>6. Truth(row', cluster', aws')
    BY <2>1, <2>2, <2>4 DEF Truth
  <2>7. TagsTrue(row', images', builds')
    BY <2>1, <2>4 DEF SerialInv, TagsTell, TagsTrue
  <2> QED
    BY <2>2, <2>4, <2>5, <2>6, <2>7, ToPlain
<1>12. CASE RecordRunning(p)
  <2>1. req[p].pc = "recordRunning" /\ UNCHANGED <<cluster, aws, images, builds>>
    BY <1>12 DEF RecordRunning, RecordLaunch, At, world
  <2>2. row.exists /\ Truth(row, cluster, aws) /\ TagsTrue(row, images, builds)
    BY <2>1, SerialSays DEF Excused, Deleting
  <2>3. row' = [row EXCEPT !.launch = "running"]
    BY <1>12, <2>2 DEF RecordRunning, RecordLaunch, Update
  <2>4. /\ row'.exists = row.exists /\ row'.prov = row.prov /\ row'.launch = "running"
        /\ row'.bid = row.bid /\ row'.build = row.build /\ row'.tag = row.tag
    BY <1>0, <2>3 DEF Row
  <2>5. req'[p].pc \in Plain
    BY <1>0, <1>12, EndsPlain DEF RecordRunning, RecordLaunch
  <2>6. Truth(row', cluster', aws')
    BY <2>1, <2>2, <2>4 DEF SerialInv, CallsTell, Truth
  <2>7. TagsTrue(row', images', builds')
    BY <2>1, <2>2, <2>4 DEF TagsTrue
  <2> QED
    BY <2>2, <2>4, <2>5, <2>6, <2>7, ToPlain
<1>13. CASE RecordBuilding(p) \/ RecordFailed(p) \/ ClearLaunch(p)
  <2>1. /\ req[p].pc \notin Excused \cup {"idle"}
        /\ \E l \in LaunchState \ {"running"} : RecordLaunch(p, l)
    BY <1>13 DEF RecordBuilding, RecordFailed, ClearLaunch, At, Excused, Deleting, LaunchState
  <2>2. PICK l \in LaunchState \ {"running"} : RecordLaunch(p, l)
    BY <2>1
  <2>3. RowStays
    BY <1>0, <2>2, LaunchRecorded DEF RecordLaunch
  <2>4. req'[p].pc \in Plain
    BY <1>0, <2>2, EndsPlain DEF RecordLaunch
  <2> QED
    BY <2>1, <2>2, <2>3, <2>4, StillTrue DEF RecordLaunch, world
<1> QED
  BY <1>1, <1>2, <1>3, <1>4, <1>5, <1>6, <1>7, <1>8, <1>9, <1>10, <1>11, <1>12, <1>13
  DEF LaunchStep

LEMMA AdvancePlain ==
  ASSUME RequestsOK, NEW p \in Procs, AdvanceLaunch(p)
  PROVE  req'[p].pc \in Plain
<1>1. CASE Ends(p)
  BY <1>1, EndsPlain
<1>2. CASE /\ NextAdvance(row) # "idle"
           /\ Becomes(p, [req[p] EXCEPT !.pc = NextAdvance(row), !.launch = row.launch,
                                        !.build = "never", !.bid = 0])
  <2>1. req'[p] = [req[p] EXCEPT !.pc = NextAdvance(row), !.launch = row.launch,
                                 !.build = "never", !.bid = 0]
    BY <1>2, BecomesRecord
  <2>2. req'[p].pc = NextAdvance(row)
    BY <2>1 DEF RequestsOK, Request
  <2> QED
    BY <1>2, <2>2, PlainNames DEF NextAdvance
<1> QED
  BY <1>1, <1>2 DEF AdvanceLaunch

(* The steps of a deploy and of the status, one request at a time.         *)
LEMMA AdvanceTells ==
  ASSUME TypeOK, NEW p \in Procs, SerialInv(p), AdvanceStep(p)
  PROVE  SerialInv(p)'
<1>0. /\ RequestsOK /\ req \in [Procs -> Request] /\ req[p] \in Request
      /\ row \in Row /\ aws \in World
  BY Shapes
<1>1. CASE RefreshBuild(p)
  <2>1. req[p].pc = "refresh" /\ UNCHANGED <<row, cluster, aws, images, builds>>
    BY <1>1 DEF RefreshBuild, At, world
  <2>2. row.exists /\ Truth(row, cluster, aws) /\ TagsTrue(row, images, builds)
    BY <2>1, SerialSays DEF Excused, Deleting
  <2>3. CASE AdvanceLaunch(p)
    BY <1>0, <2>1, <2>2, <2>3, AdvancePlain, ToPlain
  <2>4. CASE row.bid # 0 /\ Becomes(p, [req[p] EXCEPT !.pc = "status", !.bid = row.bid])
    <3>1. req'[p] = [req[p] EXCEPT !.pc = "status", !.bid = row.bid]
      BY <1>0, <2>4, BecomesRecord
    <3>2. req'[p].pc = "status" /\ req'[p].bid = row.bid
      BY <1>0, <3>1 DEF Request
    <3>3. RowTells(req'[p], row', cluster', aws') /\ CallsTell(req'[p], row', cluster', aws')
      BY <2>1, <2>2, <3>2 DEF RowTells, CallsTell, Truth, Deleting
    <3>4. TagsTell(req'[p], row', images', builds')
      BY <2>1, <2>2, <2>4, <3>2 DEF TagsTell, TagsTrue, BuiltAs, Wiping
    <3> QED
      BY <3>3, <3>4 DEF SerialInv
  <2> QED
    BY <1>1, <2>3, <2>4 DEF RefreshBuild
<1>2. CASE BuildStatus(p)
  <2>1. req[p].pc = "status" /\ UNCHANGED <<row, cluster, aws, images, builds>>
    BY <1>2 DEF BuildStatus, At, world
  <2>2. row.exists /\ Truth(row, cluster, aws) /\ TagsTrue(row, images, builds)
    BY <2>1, SerialSays DEF Excused, Deleting
  <2>3. CASE Ends(p)
    BY <1>0, <2>1, <2>2, <2>3, EndsPlain, ToPlain
  <2>4. CASE Becomes(p, [req[p] EXCEPT !.pc = "statusRow", !.build = builds[req[p].bid].state])
    <3>1. req'[p] = [req[p] EXCEPT !.pc = "statusRow", !.build = builds[req[p].bid].state]
      BY <1>0, <2>4, BecomesRecord
    <3>2. req'[p].pc = "statusRow" /\ req'[p].build = builds[req[p].bid].state
      BY <1>0, <3>1 DEF Request
    <3>3. req[p].bid = row.bid /\ row.bid # 0
      BY <2>1 DEF SerialInv, TagsTell
    <3>4. RowTells(req'[p], row', cluster', aws') /\ CallsTell(req'[p], row', cluster', aws')
      BY <2>1, <2>2, <3>2 DEF RowTells, CallsTell, Truth, Deleting
    <3>5. TagsTell(req'[p], row', images', builds')
      BY <2>1, <2>2, <3>2, <3>3 DEF TagsTell, TagsTrue, BuiltAs, Wiping
    <3> QED
      BY <3>4, <3>5 DEF SerialInv
  <2> QED
    BY <1>2, <2>3, <2>4 DEF BuildStatus
<1>3. CASE RecordStatus(p)
  <2>1. req[p].pc = "statusRow" /\ UNCHANGED <<cluster, aws, images, builds>>
    BY <1>3 DEF RecordStatus, At, world
  <2>2. row.exists /\ Truth(row, cluster, aws) /\ TagsTrue(row, images, builds)
    BY <2>1, SerialSays DEF Excused, Deleting
  <2>3. row' = [row EXCEPT !.build = req[p].build]
    BY <1>3, <2>2 DEF RecordStatus, Update
  <2>4. /\ row'.exists = row.exists /\ row'.prov = row.prov /\ row'.launch = row.launch
        /\ row'.bid = row.bid /\ row'.build = req[p].build /\ row'.tag = row.tag
    BY <1>0, <2>3 DEF Row
  <2>5. req'[p].pc \in Plain
    BY <1>0, <1>3, EndsPlain, GotoPlain, PlainNames DEF RecordStatus
  <2>6. Truth(row', cluster', aws')
    BY <2>1, <2>2, <2>4 DEF Truth
  <2>7. TagsTrue(row', images', builds')
    BY <2>1, <2>2, <2>4 DEF SerialInv, TagsTell, TagsTrue
  <2> QED
    BY <2>2, <2>4, <2>5, <2>6, <2>7, ToPlain
<1>4. CASE Reread(p)
  <2>1. req[p].pc \notin Excused \cup {"idle"}
    BY <1>4 DEF Reread, At, Excused, Deleting
  <2>2. req'[p].pc \in Plain
    BY <1>0, <1>4, AdvancePlain DEF Reread
  <2> QED
    BY <1>4, <2>1, <2>2, RowLeft, StillTrue DEF Reread, world
<1>5. CASE ClaimDeploy(p)
  <2>1. req[p].pc \notin Excused \cup {"idle"}
    BY <1>5 DEF ClaimDeploy, At, Excused, Deleting
  <2>2. RowStays
    BY <1>0, <1>5, LaunchRecorded, RowLeft DEF ClaimDeploy, LaunchState
  <2>3. req'[p].pc \in Plain
    <3>1. CASE Becomes(p, [req[p] EXCEPT !.pc = "deployRead", !.owns = "deploying",
                                         !.launch = "none"])
      BY <1>0, <3>1, BecomesRecord, PlainNames DEF Request
    <3> QED
      BY <1>0, <1>5, <3>1, EndsPlain DEF ClaimDeploy
  <2> QED
    BY <1>5, <2>1, <2>2, <2>3, StillTrue DEF ClaimDeploy, world
<1>6. CASE ReadForDeploy(p) \/ ReadForRollback(p)
  <2>1. /\ req[p].pc \in {"deployRead", "rollbackRead"}
        /\ UNCHANGED <<row, cluster, aws, images, builds>>
    BY <1>6 DEF ReadForDeploy, ReadForRollback, At, world
  <2>2. row.exists /\ Truth(row, cluster, aws) /\ TagsTrue(row, images, builds)
    BY <2>1, SerialSays DEF Excused, Deleting
  <2>3. CASE Throws(p) \/ Ends(p)
    BY <1>0, <2>1, <2>2, <2>3, ThrowsPlain, EndsPlain, ToPlain
  <2>4. ASSUME NEW t, t # 0, Imaged(t, images, builds),
               Becomes(p, [req[p] EXCEPT !.pc = "deploy", !.tag = t, !.was = row.arn])
        PROVE  SerialInv(p)'
    <3>1. req'[p] = [req[p] EXCEPT !.pc = "deploy", !.tag = t, !.was = row.arn]
      BY <1>0, <2>4, BecomesRecord
    <3>2. req'[p].pc = "deploy" /\ req'[p].tag = t
      BY <1>0, <3>1 DEF Request
    <3>3. RowTells(req'[p], row', cluster', aws') /\ CallsTell(req'[p], row', cluster', aws')
      BY <2>1, <2>2, <2>4, <3>2 DEF RowTells, CallsTell, Truth, Deleting
    <3>4. TagsTell(req'[p], row', images', builds')
      BY <2>1, <2>2, <2>4, <3>2 DEF TagsTell, TagsTrue, BuiltAs, Wiping
    <3> QED
      BY <3>3, <3>4 DEF SerialInv
  <2>5. CASE /\ Deployable
             /\ Becomes(p, [req[p] EXCEPT !.pc = "deploy", !.tag = row.tag, !.was = row.arn])
    BY <2>2, <2>4, <2>5 DEF Deployable, TagsTrue
  <2>6. CASE \E t \in Pushed :
               Becomes(p, [req[p] EXCEPT !.pc = "deploy", !.tag = t, !.was = row.arn])
    <3>1. PICK t \in Pushed :
            Becomes(p, [req[p] EXCEPT !.pc = "deploy", !.tag = t, !.was = row.arn])
      BY <2>6
    <3>2. t # 0 /\ Imaged(t, images, builds)
      BY LaunchAssumption DEF Pushed, Imaged, Commits
    <3> QED
      BY <2>4, <3>1, <3>2
  <2> QED
    BY <1>6, <2>3, <2>5, <2>6 DEF ReadForDeploy, ReadForRollback
<1>7. CASE DeployService(p)
  <2>1. req[p].pc = "deploy" /\ UNCHANGED <<row, cluster, images, builds>>
    BY <1>7 DEF DeployService, At, registry
  <2>2. row.exists /\ Truth(row, cluster, aws) /\ TagsTrue(row, images, builds)
    BY <2>1, SerialSays DEF Excused, Deleting
  <2>3. req[p].tag # 0 /\ Imaged(req[p].tag, images, builds)
    BY <2>1 DEF SerialInv, CallsTell, TagsTell
  <2>4. \/ /\ aws' = [aws EXCEPT !.service = req[p].tag]
           /\ \E e \in {req[p].err, TRUE} :
                req'[p] = [req[p] EXCEPT !.pc = "deployRow", !.was = TRUE, !.err = e]
        \/ aws' = aws /\ req'[p] = [req[p] EXCEPT !.pc = "deployRow", !.err = TRUE]
    <3>1. CASE /\ aws' = [aws EXCEPT !.service = req[p].tag]
               /\ Becomes(p, [req[p] EXCEPT !.pc = "deployRow", !.was = TRUE])
      <4>1. req'[p] = [req[p] EXCEPT !.pc = "deployRow", !.was = TRUE]
        BY <1>0, <3>1, BecomesRecord
      <4>2. req'[p] = [req[p] EXCEPT !.pc = "deployRow", !.was = TRUE, !.err = req[p].err]
        BY <1>0, <4>1 DEF Request
      <4> QED
        BY <3>1, <4>2
    <3>2. CASE /\ aws' = [aws EXCEPT !.service = req[p].tag]
               /\ Becomes(p, [req[p] EXCEPT !.pc = "deployRow", !.was = TRUE, !.err = TRUE])
      <4>1. req'[p] = [req[p] EXCEPT !.pc = "deployRow", !.was = TRUE, !.err = TRUE]
        BY <1>0, <3>2, BecomesRecord
      <4> QED
        BY <3>2, <4>1
    <3>3. CASE aws' = aws /\ Becomes(p, [req[p] EXCEPT !.pc = "deployRow", !.err = TRUE])
      <4>1. req'[p] = [req[p] EXCEPT !.pc = "deployRow", !.err = TRUE]
        BY <1>0, <3>3, BecomesRecord
      <4> QED
        BY <3>3, <4>1
    <3> QED
      BY <1>7, <3>1, <3>2, <3>3 DEF DeployService
  <2>5. req'[p].pc = "deployRow" /\ req'[p].tag = req[p].tag
    BY <1>0, <2>4 DEF Request
  <2>6. /\ aws'.service \in {aws.service, req[p].tag} /\ aws'.project = aws.project
        /\ aws'.cluster = aws.cluster /\ aws'.capacity = aws.capacity
        /\ ~req'[p].err => aws'.service = req[p].tag
    BY <1>0, <2>4 DEF Request, World
  <2>7. RowTells(req'[p], row', cluster', aws')
    BY <2>1, <2>2, <2>3, <2>5, <2>6 DEF RowTells, Truth, Deleting
  <2>8. CallsTell(req'[p], row', cluster', aws')
    BY <2>3, <2>5, <2>6 DEF CallsTell, Deleting
  <2>9. TagsTell(req'[p], row', images', builds')
    BY <2>1, <2>2, <2>3, <2>5 DEF TagsTell, TagsTrue, BuiltAs, Wiping
  <2> QED
    BY <2>7, <2>8, <2>9 DEF SerialInv
<1>8. CASE RecordDeploy(p)
  <2>1. req[p].pc = "deployRow" /\ UNCHANGED <<cluster, aws, images, builds>>
    BY <1>8 DEF RecordDeploy, At, world
  <2>2. row.exists /\ TagsTrue(row, images, builds) /\ Imaged(req[p].tag, images, builds)
    BY <2>1, SerialSays DEF SerialInv, TagsTell
  <2>3. row' = [row EXCEPT
          !.prov = IF req[p].err THEN "failed" ELSE "provisioned",
          !.arn  = @ \/ req[p].was,
          !.tag  = IF req[p].op = "rollback" THEN req[p].tag ELSE @]
    BY <1>8, <2>2 DEF RecordDeploy, Update
  <2>4. /\ row'.exists = row.exists /\ row'.prov # "not_provisioned"
        /\ row'.launch = row.launch /\ row'.bid = row.bid /\ row'.build = row.build
        /\ row'.tag \in {row.tag, req[p].tag}
    BY <1>0, <2>3 DEF Row
  <2>5. Truth(row', cluster', aws')
    BY <2>1, <2>2, <2>4 DEF SerialInv, RowTells, Truth, Deleting
  <2>6. TagsTrue(row', images', builds')
    BY <2>1, <2>2, <2>4 DEF TagsTrue, BuiltAs
  <2>7. \/ req'[p].pc \in Plain
        \/ req'[p].pc = "recordRunning" /\ ~req[p].err
    BY <1>0, <1>8, EndsPlain, ForgetsRecord, PlainNames, StepNames DEF RecordDeploy
  <2>8. CASE req'[p].pc = "recordRunning" /\ ~req[p].err
    <3>1. aws'.service # 0
      BY <2>1, <2>8 DEF SerialInv, CallsTell
    <3>2. RowTells(req'[p], row', cluster', aws') /\ CallsTell(req'[p], row', cluster', aws')
      BY <2>2, <2>4, <2>5, <2>8, <3>1 DEF RowTells, CallsTell, Truth, Deleting
    <3>3. TagsTell(req'[p], row', images', builds')
      BY <2>6, <2>8 DEF TagsTell, TagsTrue, BuiltAs, Wiping
    <3> QED
      BY <3>2, <3>3 DEF SerialInv
  <2> QED
    BY <2>2, <2>4, <2>5, <2>6, <2>7, <2>8, ToPlain
<1>9. CASE ReadForStop(p)
  <2>1. req[p].pc \notin Excused \cup {"idle"}
    BY <1>9 DEF ReadForStop, At, Excused, Deleting
  <2>2. req'[p].pc \in Plain
    <3>1. CASE Becomes(p, [req[p] EXCEPT !.pc = "stop", !.bid = row.bid])
      BY <1>0, <3>1, BecomesRecord, PlainNames DEF Request
    <3> QED
      BY <1>0, <1>9, <3>1, EndsPlain DEF ReadForStop
  <2> QED
    BY <1>9, <2>1, <2>2, RowLeft, StillTrue DEF ReadForStop, world
<1>10. CASE StopBuild(p)
  <2>1. req[p].pc = "stop" /\ UNCHANGED <<row, cluster, aws, images>>
    BY <1>10 DEF StopBuild, At, registry
  <2>2. row.exists /\ Truth(row, cluster, aws) /\ TagsTrue(row, images, builds)
    BY <2>1, SerialSays DEF Excused, Deleting
  <2>3. req'[p].pc \in Plain
    BY <1>0, <1>10, GotoPlain, PlainNames DEF StopBuild
  <2>4. \/ builds' = builds
        \/ /\ builds[req[p].bid].state = "running"
           /\ builds' = [builds EXCEPT ![req[p].bid].state = "stopped"]
    BY <1>10 DEF StopBuild
  <2>5. \A b \in BuildIds : builds'[b] \in {builds[b], [builds[b] EXCEPT !.state = "stopped"]}
    BY <2>4, Shapes
  <2>6. row.bid \in BuildIds \cup {0}
    BY <1>0 DEF Row, BuildIds
  <2>7. Imaged(row.tag, images, builds) => Imaged(row.tag, images, builds')
    <3>1. \A b \in BuildIds : builds[b].state = "succeeded" => builds'[b] = builds[b]
      BY <2>4, Shapes
    <3> QED
      BY <3>1, ImagedStays
  <2>8. row.bid # 0 => BuiltAs(row.bid, row.tag, images, builds')
    BY <2>2, <2>5, <2>6, <2>7, Shapes DEF TagsTrue, BuiltAs
  <2>9. TagsTrue(row', images', builds')
    BY <2>1, <2>2, <2>7, <2>8 DEF TagsTrue
  <2> QED
    BY <2>1, <2>2, <2>3, <2>9, ToPlain
<1>11. CASE RecordStop(p)
  <2>1. req[p].pc \notin Excused \cup {"idle"}
    BY <1>11 DEF RecordStop, At, Excused, Deleting
  <2>2. RowStays
    <3>1. CASE Update([row EXCEPT !.build = "stopped"])
      BY <1>0, <3>1 DEF Update, Row, RowStays
    <3> QED
      BY <1>11, <3>1, RowLeft DEF RecordStop
  <2>3. req'[p].pc \in Plain
    BY <1>0, <1>11, EndsPlain DEF RecordStop
  <2> QED
    BY <1>11, <2>1, <2>2, <2>3, StillTrue DEF RecordStop, world
<1> QED
  BY <1>1, <1>2, <1>3, <1>4, <1>5, <1>6, <1>7, <1>8, <1>9, <1>10, <1>11 DEF AdvanceStep

(* The steps of a teardown, one request at a time.                         *)
LEMMA TeardownTells ==
  ASSUME TypeOK, NEW p \in Procs, SerialInv(p), TeardownStep(p)
  PROVE  SerialInv(p)'
<1>0. /\ RequestsOK /\ req \in [Procs -> Request] /\ req[p] \in Request
      /\ row \in Row /\ aws \in World
  BY Shapes
<1>1. CASE DeleteService(p)
  <2>1. req[p].pc = "deleteService" /\ UNCHANGED <<row, cluster, images, builds>>
    BY <1>1 DEF DeleteService, At, registry
  <2>2. row.exists /\ Truth(row, cluster, aws) /\ TagsTrue(row, images, builds)
    BY <2>1, SerialSays DEF Excused, Deleting
  <2>3. /\ req'[p].pc = "deleteProject" /\ aws' \in {aws, [aws EXCEPT !.service = 0]}
        /\ ~req'[p].err => aws' = [aws EXCEPT !.service = 0]
    BY <1>0, <1>1, CallRecord, StepNames DEF DeleteService, Unclaimed
  <2>4. /\ aws'.service \in {aws.service, 0} /\ (~req'[p].err => aws'.service = 0)
        /\ aws'.project = aws.project /\ aws'.cluster = aws.cluster
        /\ aws'.capacity = aws.capacity
    BY <1>0, <2>3 DEF World
  <2>5. RowTells(req'[p], row', cluster', aws') /\ CallsTell(req'[p], row', cluster', aws')
    BY <2>1, <2>2, <2>3, <2>4 DEF RowTells, CallsTell, Truth, Deleting
  <2>6. TagsTell(req'[p], row', images', builds')
    BY <2>1, <2>2, <2>3 DEF TagsTell, TagsTrue, BuiltAs, Wiping
  <2> QED
    BY <2>5, <2>6 DEF SerialInv
<1>2. CASE DeleteProject(p)
  <2>1. req[p].pc = "deleteProject" /\ UNCHANGED <<row, cluster, images, builds>>
    BY <1>2 DEF DeleteProject, At, registry
  <2>2. row.exists /\ TagsTrue(row, images, builds)
    BY <2>1, SerialSays
  <2>3. /\ req'[p].pc = IF req[p].wipe THEN "deleteRepository" ELSE "deprovisionRow"
        /\ req'[p].wipe = req[p].wipe
        /\ aws' \in {aws, [aws EXCEPT !.project = FALSE]}
        /\ ~req'[p].err => aws' = [aws EXCEPT !.project = FALSE] /\ ~req[p].err
    BY <1>0, <1>2, CallRecord, StepNames DEF DeleteProject, Unclaimed
  <2>4. /\ aws'.service = aws.service /\ aws'.cluster = aws.cluster
        /\ aws'.capacity = aws.capacity /\ (~aws.project => ~aws'.project)
        /\ ~req'[p].err => ~aws'.project
    BY <1>0, <2>3 DEF World
  <2>5. RowTells(req'[p], row', cluster', aws')
    BY <2>1, <2>2, <2>3, <2>4 DEF SerialInv, RowTells, Deleting
  <2>6. CallsTell(req'[p], row', cluster', aws')
    BY <2>1, <2>2, <2>3, <2>4 DEF SerialInv, CallsTell, Deleting
  <2>7. TagsTell(req'[p], row', images', builds')
    BY <2>1, <2>2, <2>3 DEF TagsTell, TagsTrue, BuiltAs, Wiping
  <2> QED
    BY <2>5, <2>6, <2>7 DEF SerialInv
<1>3. CASE DeleteRepository(p)
  <2>1. /\ req[p].pc = "deleteRepository" /\ req[p].wipe
        /\ UNCHANGED <<row, cluster, builds>>
    BY <1>3 DEF DeleteRepository, At, registry, SerialInv, TagsTell
  <2>2. row.exists /\ TagsTrue(row, images, builds)
    BY <2>1, SerialSays
  <2>3. /\ req'[p].pc = "deprovisionRow" /\ req'[p].wipe = req[p].wipe
        /\ aws' \in {aws, [aws EXCEPT !.repo = FALSE]}
        /\ ~req'[p].err => ~req[p].err
    BY <1>0, <1>3, CallRecord, StepNames DEF DeleteRepository, Unclaimed
  <2>4. /\ aws'.service = aws.service /\ aws'.cluster = aws.cluster
        /\ aws'.capacity = aws.capacity /\ aws'.project = aws.project
    BY <1>0, <2>3 DEF World
  <2>5. RowTells(req'[p], row', cluster', aws')
    BY <2>1, <2>2, <2>3, <2>4 DEF SerialInv, RowTells, Bare, Deleting
  <2>6. CallsTell(req'[p], row', cluster', aws')
    BY <2>1, <2>2, <2>3, <2>4 DEF SerialInv, CallsTell, Deleting
  <2>7. TagsTell(req'[p], row', images', builds')
    BY <2>1, <2>2, <2>3 DEF TagsTell, TagsTrue, BuiltAs, Wiping
  <2> QED
    BY <2>5, <2>6, <2>7 DEF SerialInv
<1>4. CASE RecordDeprovision(p)
  <2>1. req[p].pc = "deprovisionRow" /\ UNCHANGED <<cluster, aws, images, builds>>
    BY <1>4 DEF RecordDeprovision, At, world
  <2>2. row.exists
    BY <2>1, SerialSays
  <2> DEFINE wiped == IF req[p].wipe
                      THEN [row EXCEPT !.repo = FALSE, !.tag = 0, !.build = "never", !.bid = 0]
                      ELSE row
  <2>3. row' = [wiped EXCEPT
          !.prov = IF req[p].err THEN "failed" ELSE "not_provisioned",
          !.launch = "none", !.arn = FALSE, !.project = FALSE]
    BY <1>4, <2>2 DEF RecordDeprovision, Update
  <2>4. /\ wiped \in Row /\ wiped.exists = row.exists
        /\ IF req[p].wipe THEN wiped.bid = 0 /\ wiped.build = "never"
           ELSE wiped.bid = row.bid /\ wiped.build = row.build /\ wiped.tag = row.tag
    BY <1>0, Bounds DEF Row, BuildState
  <2> HIDE DEF wiped
  <2>5. /\ row'.exists = wiped.exists /\ row'.launch = "none"
        /\ row'.prov = IF req[p].err THEN "failed" ELSE "not_provisioned"
        /\ row'.bid = wiped.bid /\ row'.build = wiped.build /\ row'.tag = wiped.tag
    BY <2>3, <2>4 DEF Row
  <2>6. req'[p].pc \in Plain
    BY <1>0, <1>4, EndsPlain, ForgetsRecord, PlainNames, StepNames DEF RecordDeprovision
  <2>7. Truth(row', cluster', aws')
    BY <2>1, <2>2, <2>4, <2>5 DEF SerialInv, RowTells, CallsTell, Truth, Deleting
  <2>8. TagsTrue(row', images', builds')
    BY <2>1, <2>4, <2>5 DEF SerialInv, TagsTell, TagsTrue, Wiping
  <2> QED
    BY <2>2, <2>4, <2>5, <2>6, <2>7, <2>8, ToPlain
<1>5. CASE ClusterIfUp(p)
  <2>1. req[p].pc \notin Excused \cup {"idle"}
    BY <1>5 DEF ClusterIfUp, At, Excused, Deleting
  <2>2. req'[p].pc \in Plain
    BY <1>0, <1>5, EndsPlain, GotoPlain, PlainNames DEF ClusterIfUp
  <2> QED
    BY <1>5, <2>1, <2>2, RowLeft, StillTrue DEF ClusterIfUp, world
<1>6. CASE CheckClusterFree(p)
  <2>1. req[p].pc \notin Excused \cup {"idle"}
    BY <1>6 DEF CheckClusterFree, At, Excused, Deleting
  <2>2. req'[p].pc \in Plain
    BY <1>0, <1>6, EndsPlain, GotoPlain, PlainNames DEF CheckClusterFree
  <2> QED
    BY <1>6, <2>1, <2>2, RowLeft, StillTrue DEF CheckClusterFree, world
<1>7. CASE DeleteCapacity(p)
  <2>1. req[p].pc = "deleteCapacity" /\ UNCHANGED <<row, cluster, images, builds>>
    BY <1>7 DEF DeleteCapacity, At, registry
  <2>2. row.exists /\ Truth(row, cluster, aws) /\ TagsTrue(row, images, builds)
    BY <2>1, SerialSays DEF Excused, Deleting
  <2>3. /\ req'[p].pc = "deleteCluster" /\ aws' \in {aws, [aws EXCEPT !.capacity = FALSE]}
        /\ ~req'[p].err => aws' = [aws EXCEPT !.capacity = FALSE]
    BY <1>0, <1>7, CallRecord, StepNames DEF DeleteCapacity
  <2>4. /\ aws'.service = aws.service /\ aws'.project = aws.project
        /\ aws'.cluster = aws.cluster /\ (~aws.capacity => ~aws'.capacity)
        /\ ~req'[p].err => ~aws'.capacity
    BY <1>0, <2>3 DEF World
  <2>5. RowTells(req'[p], row', cluster', aws') /\ CallsTell(req'[p], row', cluster', aws')
    BY <2>1, <2>2, <2>3, <2>4 DEF RowTells, CallsTell, Truth, Deleting
  <2>6. TagsTell(req'[p], row', images', builds')
    BY <2>1, <2>2, <2>3 DEF TagsTell, TagsTrue, BuiltAs, Wiping
  <2> QED
    BY <2>5, <2>6 DEF SerialInv
<1>8. CASE DeleteCluster(p)
  <2>1. req[p].pc = "deleteCluster" /\ UNCHANGED <<row, cluster, images, builds>>
    BY <1>8 DEF DeleteCluster, At, registry
  <2>2. row.exists /\ Truth(row, cluster, aws) /\ TagsTrue(row, images, builds)
    BY <2>1, SerialSays DEF Excused, Deleting
  <2>3. /\ req'[p].pc = "clusterGoneRow" /\ aws' \in {aws, [aws EXCEPT !.cluster = FALSE]}
        /\ ~req'[p].err => aws' = [aws EXCEPT !.cluster = FALSE] /\ ~req[p].err
    <3>1. CASE Call(p, [aws EXCEPT !.cluster = FALSE], {}, "clusterGoneRow")
      BY <1>0, <3>1, CallRecord, StepNames
    <3>2. CASE aws' = aws /\ Becomes(p, [req[p] EXCEPT !.pc = "clusterGoneRow", !.err = TRUE])
      <4>1. req'[p] = [req[p] EXCEPT !.pc = "clusterGoneRow", !.err = TRUE]
        BY <1>0, <3>2, BecomesRecord
      <4> QED
        BY <1>0, <3>2, <4>1 DEF Request
    <3> QED
      BY <1>8, <3>1, <3>2 DEF DeleteCluster
  <2>4. /\ aws'.service = aws.service /\ aws'.project = aws.project
        /\ aws'.capacity = aws.capacity /\ (~aws.cluster => ~aws'.cluster)
        /\ ~req'[p].err => ~aws'.cluster
    BY <1>0, <2>3 DEF World
  <2>5. RowTells(req'[p], row', cluster', aws')
    BY <2>1, <2>2, <2>3, <2>4 DEF RowTells, Truth, Deleting
  <2>6. CallsTell(req'[p], row', cluster', aws')
    BY <2>1, <2>3, <2>4 DEF SerialInv, CallsTell, Deleting
  <2>7. TagsTell(req'[p], row', images', builds')
    BY <2>1, <2>2, <2>3 DEF TagsTell, TagsTrue, BuiltAs, Wiping
  <2> QED
    BY <2>5, <2>6, <2>7 DEF SerialInv
<1>9. CASE RecordClusterGone(p)
  <2>1. /\ req[p].pc = "clusterGoneRow" /\ UNCHANGED <<row, aws, images, builds>>
        /\ cluster' = "not_provisioned" => ~row.exists \/ ~req[p].err
    BY <1>9 DEF RecordClusterGone, At, world
  <2>2. row.exists /\ Truth(row, cluster, aws) /\ TagsTrue(row, images, builds)
    BY <2>1, SerialSays DEF Excused, Deleting
  <2>3. req'[p].pc \in Plain
    BY <1>0, <1>9, EndsPlain, GotoPlain, PlainNames DEF RecordClusterGone
  <2>4. Truth(row', cluster', aws')
    BY <2>1, <2>2 DEF SerialInv, CallsTell, Truth
  <2> QED
    BY <2>1, <2>2, <2>3, <2>4, ToPlain
<1>10. CASE Teardown(p)
  <2>1. req[p].pc \notin Excused \cup {"idle"}
    BY <1>10 DEF Teardown, At, Excused, Deleting
  <2>2. req'[p].pc \in Plain
    BY <1>0, <1>10, EndsPlain, GotoPlain, PlainNames DEF Teardown
  <2> QED
    BY <1>10, <2>1, <2>2, RowLeft, StillTrue DEF Teardown, world
<1>11. CASE TeardownCluster(p)
  <2>1. req[p].pc \notin Excused \cup {"idle"}
    BY <1>11 DEF TeardownCluster, At, Excused, Deleting
  <2>2. req'[p].pc \in Plain
    <3>1. CASE Becomes(p, [req[p] EXCEPT !.was = TRUE,
                 !.pc = IF cluster # "not_provisioned" THEN "clusterCheck" ELSE "remove"])
      <4>1. req'[p] = [req[p] EXCEPT !.was = TRUE,
              !.pc = IF cluster # "not_provisioned" THEN "clusterCheck" ELSE "remove"]
        BY <1>0, <3>1, BecomesRecord
      <4>2. req'[p].pc \in {"clusterCheck", "remove"}
        BY <1>0, <4>1 DEF Request
      <4> QED
        BY <4>2, PlainNames
    <3> QED
      BY <1>0, <1>11, <3>1, EndsPlain DEF TeardownCluster
  <2> QED
    BY <1>11, <2>1, <2>2, RowLeft, StillTrue DEF TeardownCluster, world
<1>12. CASE ReadForRemove(p)
  <2>1. req[p].pc = "remove" /\ UNCHANGED <<row, cluster, aws, images, builds>>
    BY <1>12 DEF ReadForRemove, At, world
  <2>2. row.exists /\ Truth(row, cluster, aws) /\ TagsTrue(row, images, builds)
    BY <2>1, SerialSays DEF Excused, Deleting
  <2>3. CASE Ends(p)
    BY <1>0, <2>1, <2>2, <2>3, EndsPlain, ToPlain
  <2>4. CASE /\ row.prov = "not_provisioned" /\ cluster = "not_provisioned"
             /\ Goto(p, "removeRows")
    <3>1. req'[p].pc = "removeRows"
      BY <1>0, <2>4, GotoRecord, StepNames
    <3>2. RowTells(req'[p], row', cluster', aws') /\ CallsTell(req'[p], row', cluster', aws')
      BY <2>1, <2>2, <2>4, <3>1 DEF RowTells, CallsTell, Truth, Deleting
    <3>3. TagsTell(req'[p], row', images', builds')
      BY <2>1, <2>2, <3>1 DEF TagsTell, TagsTrue, BuiltAs, Wiping
    <3> QED
      BY <3>2, <3>3 DEF SerialInv
  <2> QED
    BY <1>12, <2>3, <2>4 DEF ReadForRemove
<1>13. CASE RemoveRows(p)
  <2>1. /\ req[p].pc = "removeRows" /\ UNCHANGED <<aws, images, builds>>
        /\ row' = NoRow
    BY <1>13 DEF RemoveRows, At, world
  <2>2. Truth(row, cluster, aws)
    BY <2>1, SerialSays DEF Excused, Deleting
  <2>3. /\ ~row'.exists /\ row'.launch = "none" /\ row'.build = "never"
        /\ row'.bid = 0 /\ row'.prov = "not_provisioned"
    BY <2>1 DEF NoRow, NewRow
  <2>4. req'[p].pc = "idle" /\ req'[p].pc \in Plain
    BY <1>0, <1>13, EndsRecord, EndsPlain DEF RemoveRows
  <2>5. Bare(aws)
    BY <2>1, <2>2 DEF SerialInv, CallsTell, Truth, Bare
  <2>6. Truth(row', cluster', aws')
    BY <2>1, <2>3, <2>5 DEF Truth, Bare
  <2>7. TagsTrue(row', images', builds')
    BY <2>3 DEF TagsTrue
  <2> QED
    BY <2>4, <2>6, <2>7, ToPlain
<1> QED
  BY <1>1, <1>2, <1>3, <1>4, <1>5, <1>6, <1>7, <1>8, <1>9, <1>10, <1>11, <1>12, <1>13
  DEF TeardownStep

(* CodeBuild, whatever the request under way.                              *)
LEMMA ImagesStay ==
  ASSUME TypeOK, NEW b \in BuildIds, BuildStep(b), NEW t \in 0..MaxHead,
         Imaged(t, images, builds)
  PROVE  Imaged(t, images', builds')
<1>0. images \in [Commits -> 0..MaxHead] /\ (t # 0 => t \in Commits)
  BY LaunchAssumption, Shapes DEF Commits
<1>1. \A id \in BuildIds : builds[id].state = "succeeded" => builds'[id] = builds[id]
  BY Shapes DEF BuildStep, CloneSource, BuildSucceeds, BuildPushesNothing, BuildFails
<1>2. Imaged(t, images, builds')
  BY <1>1, ImagedStays
<1>3. CASE images' = images
  BY <1>2, <1>3
<1>4. CASE builds[b].commit # 0 /\ images' = [images EXCEPT ![builds[b].tag] = builds[b].commit]
  BY <1>0, <1>2, <1>4 DEF Imaged
<1> QED
  BY <1>3, <1>4 DEF BuildStep, CloneSource, BuildSucceeds, BuildPushesNothing, BuildFails

LEMMA BuildsStay ==
  ASSUME TypeOK, NEW b \in BuildIds, BuildStep(b), NEW id \in BuildIds, builds[id].state # "never"
  PROVE  builds'[id].state # "never"
BY Shapes DEF BuildStep, CloneSource, BuildSucceeds, BuildPushesNothing, BuildFails

LEMMA BuiltStays ==
  ASSUME TypeOK, NEW b \in BuildIds, BuildStep(b), NEW id \in BuildIds, NEW t \in 0..MaxHead,
         BuiltAs(id, t, images, builds)
  PROVE  BuiltAs(id, t, images', builds')
<1>0. /\ builds \in [BuildIds -> [state : BuildState, tag : 0..MaxHead, commit : 0..MaxHead]]
      /\ images \in [Commits -> 0..MaxHead] /\ (t # 0 => t \in Commits)
  BY LaunchAssumption, Shapes DEF Commits
<1>1. Imaged(t, images, builds) => Imaged(t, images', builds')
  BY ImagesStay
<1>2. CASE /\ builds[b].state = "running"
           /\ \E c \in {[builds EXCEPT ![b].commit = head], [builds EXCEPT ![b].state = "failed"]} :
                builds' = c
  <2>1. /\ builds'[id].tag = builds[id].tag
        /\ builds'[id].state \in {builds[id].state, "failed"}
    BY <1>0, <1>2
  <2> QED
    BY <1>1, <2>1 DEF BuiltAs
<1>3. CASE id = b /\ builds[b].state = "running" /\ builds'[b].state = "succeeded"
           /\ (builds[b].tag = t => Imaged(t, images', builds'))
  BY <1>1, <1>3 DEF BuiltAs
<1>4. CASE id # b /\ builds'[id] = builds[id]
  BY <1>1, <1>4 DEF BuiltAs
<1>5. CASE BuildSucceeds(b)
  <2>1. /\ builds[b].state = "running" /\ builds[b].commit # 0
        /\ builds' = [builds EXCEPT ![b].state = "succeeded"]
        /\ images' = [images EXCEPT ![builds[b].tag] = builds[b].commit]
    BY <1>5 DEF BuildSucceeds
  <2>2. builds'[b].state = "succeeded" /\ (id # b => builds'[id] = builds[id])
    BY <1>0, <2>1
  <2>3. builds[b].tag = t => Imaged(t, images', builds')
    BY <1>0, <2>1 DEF Imaged
  <2> QED
    BY <1>3, <1>4, <2>1, <2>2, <2>3
<1>6. CASE BuildPushesNothing(b)
  <2>1. /\ builds[b].state = "running"
        /\ builds' = [builds EXCEPT ![b].state = "succeeded", ![b].commit = 0]
    BY <1>6 DEF BuildPushesNothing
  <2>2. /\ builds'[b].state = "succeeded" /\ builds'[b].commit = 0
        /\ builds'[b].tag = builds[b].tag /\ (id # b => builds'[id] = builds[id])
    BY <1>0, <2>1
  <2>3. builds[b].tag = t => Imaged(t, images', builds')
    BY <2>2 DEF Imaged, Unpushed
  <2> QED
    BY <1>3, <1>4, <2>1, <2>2, <2>3
<1> QED
  BY <1>2, <1>5, <1>6 DEF BuildStep, CloneSource, BuildFails

LEMMA BuildTells ==
  ASSUME TypeOK, NEW p \in Procs, SerialInv(p), NEW b \in BuildIds, BuildStep(b)
  PROVE  SerialInv(p)'
<1>0. /\ row \in Row /\ req[p] \in Request /\ UNCHANGED <<row, cluster, aws, req>>
  BY Shapes DEF BuildStep, CloneSource, BuildSucceeds, BuildPushesNothing, BuildFails, registry
<1>1. /\ row.tag \in 0..MaxHead /\ req[p].tag \in 0..MaxHead
      /\ row.bid # 0 => row.bid \in BuildIds
      /\ req[p].bid # 0 => req[p].bid \in BuildIds
  BY <1>0 DEF Row, Request, BuildIds
<1>2. RowTells(req'[p], row', cluster', aws') /\ CallsTell(req'[p], row', cluster', aws')
  BY <1>0 DEF SerialInv
<1>3. TagsTell(req[p], row, images, builds)
  BY DEF SerialInv
<1>4. TagsTell(req[p], row, images', builds')
  <2>1. ~Wiping(req[p]) /\ row.build = "succeeded" => Imaged(row.tag, images', builds')
    BY <1>1, <1>3, ImagesStay DEF TagsTell
  <2>2. ~Wiping(req[p]) /\ row.bid # 0 => BuiltAs(row.bid, row.tag, images', builds')
    BY <1>1, <1>3, BuiltStays DEF TagsTell
  <2>3. row.bid # 0 => builds'[row.bid].state # "never"
    BY <1>1, <1>3, BuildsStay DEF TagsTell
  <2>4. req[p].pc = "buildRow" =>
          req[p].bid # 0 /\ BuiltAs(req[p].bid, req[p].tag, images', builds')
    BY <1>1, <1>3, BuiltStays DEF TagsTell
  <2>5. req[p].pc = "statusRow" /\ req[p].build = "succeeded" => Imaged(row.tag, images', builds')
    BY <1>1, <1>3, ImagesStay DEF TagsTell
  <2>6. req[p].pc \in {"deploy", "deployRow"} => Imaged(req[p].tag, images', builds')
    BY <1>1, <1>3, ImagesStay DEF TagsTell
  <2> QED
    BY <1>3, <2>1, <2>2, <2>3, <2>4, <2>5, <2>6 DEF TagsTell
<1> QED
  BY <1>0, <1>2, <1>4 DEF SerialInv

(* A request arrives: nothing of the registry changes.                     *)
LEMMA ArrivalTells ==
  ASSUME TypeOK, NEW p \in Procs, SerialInv(p),
         \/ \E op \in Ops, wipe \in BOOLEAN : StartRequest(p, op, wipe)
         \/ HandlePushEvent(p) \/ ReconcileLaunches(p)
  PROVE  SerialInv(p)'
<1>0. RequestsOK
  BY Shapes
<1>1. req[p].pc = "idle" /\ UNCHANGED <<row, cluster, aws, images, builds>>
  BY DEF StartRequest, HandlePushEvent, ReconcileLaunches, At, registry, world
<1>2. Truth(row, cluster, aws) /\ TagsTrue(row, images, builds)
  BY <1>1, SerialSays DEF Excused, Deleting
<1>3. CASE UNCHANGED req
  BY <1>1, <1>3 DEF SerialInv
<1>4. CASE row.exists /\ \E r : Becomes(p, r) /\ r.pc \in Plain
  <2>1. req'[p].pc \in Plain
    BY <1>0, <1>4, BecomesRecord
  <2> QED
    BY <1>1, <1>2, <1>4, <2>1, ToPlain
<1>5. ASSUME NEW step \in Plain, NEW op
      PROVE  /\ [Idle EXCEPT !.pc = step, !.op = op].pc \in Plain
             /\ \A wipe : [Idle EXCEPT !.pc = step, !.op = op, !.wipe = wipe].pc \in Plain
  BY DEF Idle
<1>6. CASE \E op \in Ops, wipe \in BOOLEAN : StartRequest(p, op, wipe)
  <2>1. PICK op \in Ops, wipe \in BOOLEAN : StartRequest(p, op, wipe)
    BY <1>6
  <2>2. FirstStep[op] \in
          {"claim", "scaffoldRead", "check", "buildRead", "stopRead", "deployRead",
           "rollbackRead", "refresh", "dismiss", "deleteService", "teardown",
           "ensureCluster", "clusterCheck"}
    BY LaunchAssumption DEF AllOps, FirstStep
  <2>3. FirstStep[op] \in Plain
    BY <2>2, PlainNames
  <2>4. [Idle EXCEPT !.pc = FirstStep[op], !.op = op, !.wipe = wipe].pc \in Plain
    BY <1>5, <2>3
  <2> QED
    BY <1>4, <2>1, <2>4 DEF StartRequest
<1>7. CASE HandlePushEvent(p)
  <2>1. [Idle EXCEPT !.pc = "claim", !.op = "push"].pc \in Plain
    BY <1>5, PlainNames
  <2> QED
    BY <1>3, <1>4, <1>7, <2>1 DEF HandlePushEvent
<1>8. CASE ReconcileLaunches(p)
  <2>1. /\ [Idle EXCEPT !.pc = "claim", !.op = "reconcile"].pc \in Plain
        /\ [Idle EXCEPT !.pc = "refresh", !.op = "reconcile"].pc \in Plain
    BY <1>5, PlainNames
  <2> QED
    BY <1>4, <1>8, <2>1 DEF ReconcileLaunches
<1> QED
  BY <1>6, <1>7, <1>8

LEMMA CreateTells ==
  ASSUME TypeOK, NEW p \in Procs, SerialInv(p), CreateMicroservice
  PROVE  SerialInv(p)'
<1>1. /\ req[p].pc = "idle" /\ Bare(aws) /\ UNCHANGED <<aws, images, builds, req>>
  BY DEF CreateMicroservice, SerialInv, RowTells, world
<1>2. PICK l \in {"none", "requested"} : row' = NewRow(l)
  BY DEF CreateMicroservice
<1>3. row'.exists /\ row'.launch # "running" /\ row'.build = "never" /\ row'.bid = 0
  BY <1>2 DEF NewRow
<1>4. Truth(row', cluster', aws') /\ TagsTrue(row', images', builds')
  BY <1>1, <1>3 DEF Truth, TagsTrue, Bare
<1> QED
  BY <1>1, <1>3, <1>4, PlainNames, ToPlain

LEMMA InitTells == ASSUME Init, NEW p \in Procs PROVE SerialInv(p)
<1>1. req[p].pc = "idle" /\ ~row.exists /\ row.launch = "none" /\ row.build = "never" /\ row.bid = 0
  BY DEF Init, Idle, NoRow, NewRow
<1>2. Bare(aws)
  BY DEF Init, Bare
<1> QED
  BY <1>1, <1>2 DEF SerialInv, RowTells, CallsTell, TagsTell, Bare, Deleting, Wiping

(* One slot for requests, none of which dies.                              *)
OneAtATime(p) == Procs = {p} /\ MaxDeaths = 0

LEMMA SerialStep ==
  ASSUME NEW p, OneAtATime(p), TypeOK, SerialInv(p), [Next]_vars
  PROVE  SerialInv(p)'
<1>0. p \in Procs /\ Requests \subseteq Procs /\ Reconcilers \subseteq Procs
  BY DEF OneAtATime, Procs
<1>1. CASE CreateMicroservice
  BY <1>0, <1>1, CreateTells
<1>2. CASE GithubPush \/ ClaimGoesStale \/ UNCHANGED vars
  BY <1>2 DEF GithubPush, ClaimGoesStale, vars, registry, world, SerialInv
<1>3. CASE \E q \in Requests :
             \/ \E op \in Ops, wipe \in BOOLEAN : StartRequest(q, op, wipe)
             \/ HandlePushEvent(q)
  BY <1>0, <1>3, ArrivalTells DEF OneAtATime
<1>4. CASE \E q \in Reconcilers : ReconcileLaunches(q)
  BY <1>0, <1>4, ArrivalTells DEF OneAtATime
<1>5. CASE \E q \in Procs : Proceed(q)
  BY <1>0, <1>5, LaunchTells, AdvanceTells, TeardownTells DEF OneAtATime, Proceed
<1>6. CASE \E q \in Procs : Die(q)
  BY <1>6 DEF OneAtATime, Die, TypeOK, CountersOK
<1>7. CASE \E b \in BuildIds : BuildStep(b)
  BY <1>0, <1>7, BuildTells
<1> QED
  BY <1>1, <1>2, <1>3, <1>4, <1>5, <1>6, <1>7 DEF Next

(* What AWS runs, one request at a time: a step that changes the image of  *)
(* the service is deployMicroservice's, and the image is in the repository *)
(* or one a build only claimed to have pushed.                             *)
LEMMA OnlyDeploysPoint ==
  ASSUME NEW p, OneAtATime(p), TypeOK, SerialInv(p), [Next]_vars,
         aws'.service \notin {0, aws.service}
  PROVE  aws'.service \in Pushed \cup NeverPushed
<1>0. /\ p \in Procs /\ \A q \in Procs : q = p
      /\ aws \in World /\ req[p] \in Request /\ RequestsOK
  BY Shapes DEF OneAtATime
<1>1. ASSUME NEW new, NEW partial, NEW step \in Steps, Call(p, new, partial, step),
             \A a \in {new} \cup partial : a.service \in {0, aws.service}
      PROVE  FALSE
  BY <1>0, <1>1, CallRecord
<1>2. CASE DeployService(p)
  <2>1. aws' = [aws EXCEPT !.service = req[p].tag]
    BY <1>2 DEF DeployService
  <2>2. aws'.service = req[p].tag /\ req[p].tag \in 0..MaxHead /\ req[p].pc = "deploy"
    BY <1>0, <1>2, <2>1 DEF World, Request, DeployService, At
  <2>3. /\ req[p].tag # 0
        /\ images[req[p].tag] # 0 \/ Unpushed(req[p].tag, builds)
    BY <2>2 DEF SerialInv, TagsTell, CallsTell, Imaged
  <2> QED
    BY <2>2, <2>3, LaunchAssumption DEF Pushed, NeverPushed, Unpushed, Commits
<1>3. CASE EnsureCluster(p)
  <2>1. \A a \in {[aws EXCEPT !.cluster = TRUE, !.capacity = TRUE], [aws EXCEPT !.cluster = TRUE]} :
          a.service = aws.service
    BY <1>0 DEF World
  <2>2. \/ UNCHANGED aws
        \/ aws' \in {aws, [aws EXCEPT !.cluster = TRUE, !.capacity = TRUE]}
                    \cup {[aws EXCEPT !.cluster = TRUE]}
    BY <1>0, <1>3, CallRecord, StepNames DEF EnsureCluster
  <2> QED
    BY <2>1, <2>2
<1>4. CASE EnsureScaffold(p)
  <2>1. \A a \in {[aws EXCEPT !.project = TRUE, !.repo = TRUE], [aws EXCEPT !.project = TRUE],
                   [aws EXCEPT !.repo = TRUE]} : a.service = aws.service
    BY <1>0 DEF World
  <2>2. aws' \in {aws, [aws EXCEPT !.project = TRUE, !.repo = TRUE]}
                 \cup {[aws EXCEPT !.project = TRUE], [aws EXCEPT !.repo = TRUE]}
    BY <1>0, <1>4, CallRecord, StepNames DEF EnsureScaffold
  <2> QED
    BY <2>1, <2>2
<1>5. CASE DeleteService(p) \/ DeleteProject(p) \/ DeleteRepository(p)
           \/ DeleteCapacity(p) \/ DeleteCluster(p)
  <2>1. /\ [aws EXCEPT !.service = 0].service = 0
        /\ \A a \in {[aws EXCEPT !.project = FALSE], [aws EXCEPT !.repo = FALSE],
                      [aws EXCEPT !.capacity = FALSE], [aws EXCEPT !.cluster = FALSE]} :
             a.service = aws.service
    BY <1>0 DEF World
  <2>2. \E a \in {[aws EXCEPT !.service = 0], [aws EXCEPT !.project = FALSE],
                  [aws EXCEPT !.repo = FALSE], [aws EXCEPT !.capacity = FALSE],
                  [aws EXCEPT !.cluster = FALSE]}, step \in Steps : Call(p, a, {}, step)
    BY <1>5, StepNames
    DEF DeleteService, DeleteProject, DeleteRepository, DeleteCapacity, DeleteCluster, Unclaimed
  <2> QED
    BY <1>1, <2>1, <2>2
<1>6. CASE UNCHANGED aws
  BY <1>6
<1>7. \/ UNCHANGED aws \/ EnsureCluster(p) \/ EnsureScaffold(p) \/ DeployService(p)
      \/ DeleteService(p) \/ DeleteProject(p) \/ DeleteRepository(p)
      \/ DeleteCapacity(p) \/ DeleteCluster(p)
  <2>1. ASSUME LaunchStep(p) PROVE EnsureCluster(p) \/ EnsureScaffold(p) \/ UNCHANGED aws
    BY <2>1
    DEF LaunchStep, world, ClaimLaunch, ReadForScaffold, RecordCluster, RecordScaffold,
        LaunchBuildOrJoin, ReadForBuild, CheckSource, StartImageBuild, RecordBuild,
        RecordBuilding, RecordFailed, RecordRunning, ClearLaunch, RecordLaunch
  <2>2. ASSUME AdvanceStep(p) PROVE DeployService(p) \/ UNCHANGED aws
    BY <2>2
    DEF AdvanceStep, world, RefreshBuild, BuildStatus, RecordStatus, Reread, ClaimDeploy,
        ReadForDeploy, ReadForRollback, RecordDeploy, ReadForStop, StopBuild, RecordStop
  <2>3. ASSUME TeardownStep(p)
        PROVE  \/ DeleteService(p) \/ DeleteProject(p) \/ DeleteRepository(p)
               \/ DeleteCapacity(p) \/ DeleteCluster(p) \/ UNCHANGED aws
    BY <2>3
    DEF TeardownStep, world, RecordDeprovision, ClusterIfUp, CheckClusterFree,
        RecordClusterGone, Teardown, TeardownCluster, ReadForRemove, RemoveRows
  <2>4. CASE \E q \in Procs : Proceed(q)
    BY <1>0, <2>1, <2>2, <2>3, <2>4 DEF Proceed
  <2>5. CASE \E q \in Procs : Die(q)
    BY <2>5 DEF Die, world
  <2>6. CASE \E b \in BuildIds : BuildStep(b)
    BY <2>6 DEF BuildStep, CloneSource, BuildSucceeds, BuildPushesNothing, BuildFails
  <2>7. CASE \/ CreateMicroservice \/ GithubPush \/ ClaimGoesStale
             \/ \E q \in Requests :
                  \/ \E op \in Ops, wipe \in BOOLEAN : StartRequest(q, op, wipe)
                  \/ HandlePushEvent(q)
             \/ \E q \in Reconcilers : ReconcileLaunches(q)
             \/ UNCHANGED vars
    BY <2>7 DEF CreateMicroservice, GithubPush, ClaimGoesStale, StartRequest,
                HandlePushEvent, ReconcileLaunches, vars, world
  <2> QED
    BY <2>4, <2>5, <2>6, <2>7 DEF Next
<1> QED
  BY <1>2, <1>3, <1>4, <1>5, <1>6, <1>7

(* One request at a time and none dies: what the registry says stays true, *)
(* with TypeOK, of whatever the calls of every operation do or fail to do. *)
LEMMA SerialAlways ==
  ASSUME NEW p, OneAtATime(p)
  PROVE  Spec => [](TypeOK /\ SerialInv(p))
<1>1. Init => SerialInv(p)
  BY InitTells DEF OneAtATime
<1>2. TypeOK /\ SerialInv(p) /\ [Next]_vars => SerialInv(p)'
  BY SerialStep
<1> QED
  BY <1>1, <1>2, LaunchTypeCorrect, PTL DEF Spec

(* Served one request at a time, with none that dies, a service whose rows *)
(* are gone has nothing left on AWS that bills (teardownMicroservice), for *)
(* any operations in any order and however many calls fail.                *)
THEOREM NothingIsStranded ==
  ASSUME NEW p, OneAtATime(p)
  PROVE  Spec => []NothingStranded
<1>1. TypeOK /\ SerialInv(p) => NothingStranded
  BY DEF SerialInv, RowTells, Bare, NothingStranded
<1> QED
  BY <1>1, SerialAlways, PTL

(* Under the same conditions the registry does not deny, between requests, *)
(* what AWS has: whichever call failed, teardown still finds it.           *)
THEOREM RegistryIsTruthful ==
  ASSUME NEW p, OneAtATime(p)
  PROVE  Spec => []RegistryTruthful
<1>1. TypeOK /\ SerialInv(p) => RegistryTruthful
  BY DEF OneAtATime, SerialInv, RowTells, Deleting, RegistryTruthful, AtRest, At
<1> QED
  BY <1>1, SerialAlways, PTL

(* Under the same conditions a service is only ever pointed at an image    *)
(* that is in the repository (deployMicroservice): the row's tag, which a  *)
(* finished build pushed, or one that rollback found there.  Excepted is   *)
(* the tag of a build that succeeded having pushed nothing.                *)
THEOREM OnlyImagesDeployed ==
  ASSUME NEW p, OneAtATime(p)
  PROVE  Spec => DeployedImageExists
<1>1. TypeOK /\ SerialInv(p) /\ [Next]_vars
        => (aws'.service \notin {0, aws.service}
              => aws'.service \in Pushed \cup NeverPushed)
  BY OnlyDeploysPoint
<1> QED
  BY <1>1, SerialAlways, PTL DEF Spec, DeployedImageExists

-----------------------------------------------------------------------------
(* ONE BUILD.  While nobody overwrites a live launch's claim, writes the   *)
(* state of another build than the row names, or dies before the row names *)
(* its build, the one request that holds a launch is the only one that     *)
(* starts a build, and the row shows whatever is running.                  *)

(* The operations that build or forget a build without a claim.            *)
Claimless == {"build", "stop", "deprovision", "teardown"}

Joining == Ops \cap Claimless = {}

Unjoined == {"stopRead", "stop", "stopRow", "deleteService", "deleteProject",
             "deleteRepository", "deprovisionRow", "clusterIfUp", "teardown",
             "teardownCluster", "remove", "removeRows"}

Launching(r) == r.owns = "provisioning"

(* A request that may start a build, and one that has.                     *)
Starts(r) == r.pc = "startBuild" \/ (r.pc = "check" /\ Launching(r))

(* Builds are started by requests that hold a launch; what a request has   *)
(* read of a build is no longer running if it was not.                     *)
Joined(r, b) ==
  /\ r.pc \notin Unjoined /\ r.op \notin Claimless
  /\ r.pc = "claim" => r.owns = "none"
  /\ r.pc \in {"scaffoldRead", "ensureCluster", "clusterRow", "scaffold", "scaffoldRow"} =>
       r.owns # "deploying"
  /\ r.pc \in {"launchBuild", "buildRead", "startBuild", "buildRow"} => Launching(r)
  /\ r.pc = "check" => r.op = "check" \/ Launching(r)
  /\ r.pc \in {"status", "statusRow", "buildRow"} =>
       r.bid \in BuildIds /\ b[r.bid].state # "never"
  /\ r.pc = "statusRow" /\ r.build # "running" => b[r.bid].state # "running"

NoneRuns(b) == \A i \in BuildIds : b[i].state # "running"

RequestsJoin == \A p \in Procs : Joined(req[p], builds)

RobbedHold == \A q \in robbed : req[q].owns # "none"

RowThere ==
  /\ \A p \in Procs : req[p].pc # "idle" => row.exists
  /\ ~row.exists => \A i \in BuildIds : builds[i].state = "never"
  /\ row.bid # 0 => builds[row.bid].state # "never"

OneLaunch ==
  \A p \in Procs : Launching(req[p]) =>
    p \notin robbed /\ \A q \in Procs : Launching(req[q]) => q = p

BuildShown ==
  \A i \in BuildIds : builds[i].state = "running" =>
    \/ row.bid = i /\ row.build = "running"
    \/ \E p \in Procs : req[p].pc = "buildRow" /\ req[p].bid = i

StartsAlone ==
  \A p \in Procs :
    /\ Starts(req[p]) => NoneRuns(builds)
    /\ req[p].pc = "buildRow" =>
         \A i \in BuildIds : builds[i].state = "running" => i = req[p].bid

Calm == OneLaunch /\ BuildShown /\ StartsAlone

JoinInv == RequestsJoin /\ RobbedHold /\ RowThere /\ (misled \/ Calm)

(* The row names the same build as before.                                 *)
SameBuild == row'.exists = row.exists /\ row'.bid = row.bid /\ row'.build = row.build

LEMMA SameBuildBy ==
  ASSUME row \in Row,
         \/ UNCHANGED row
         \/ Update(row)
         \/ \E l \in LaunchState : Update([row EXCEPT !.launch = l])
  PROVE  SameBuild
BY DEF SameBuild, Update, Row

(* The request p goes on with a record r, and nobody's claim changes.      *)
LEMMA MovesJoin ==
  ASSUME TypeOK, JoinInv, NEW p \in Procs, NEW r, Becomes(p, r), Joined(r, builds),
         r.owns = req[p].owns, r.pc # "buildRow", ~At(p, "idle"), ~At(p, "buildRow"),
         Starts(r) => Starts(req[p]) \/ misled \/ NoneRuns(builds),
         SameBuild, UNCHANGED <<robbed, builds, misled>>
  PROVE  JoinInv'
<1>0. /\ req' = [req EXCEPT ![p] = r] /\ req'[p] = r
      /\ \A q \in Procs \ {p} : req'[q] = req[q]
      /\ \A q \in Procs : req'[q].owns = req[q].owns /\ (Launching(req'[q]) <=> Launching(req[q]))
      /\ \A q \in Procs : req'[q].pc = "buildRow" => q # p
      /\ robbed \subseteq Procs
  BY Shapes DEF Becomes, Launching, TypeOK, RowOK
<1>1. RequestsJoin'
  BY <1>0 DEF JoinInv, RequestsJoin, Joined, Launching
<1>2. RobbedHold'
  BY <1>0 DEF JoinInv, RobbedHold
<1>3. RowThere'
  BY <1>0 DEF JoinInv, RowThere, SameBuild, At
<1>4. ASSUME ~misled PROVE Calm'
  <2>0. Calm
    BY <1>4 DEF JoinInv
  <2>1. OneLaunch'
    BY <1>0, <2>0 DEF Calm, OneLaunch, Launching
  <2>2. BuildShown'
    <3> SUFFICES ASSUME NEW i \in BuildIds, builds[i].state = "running",
                        ~(row.bid = i /\ row.build = "running")
                 PROVE  \E q \in Procs : req'[q].pc = "buildRow" /\ req'[q].bid = i
      BY DEF BuildShown, SameBuild
    <3>1. PICK q \in Procs : req[q].pc = "buildRow" /\ req[q].bid = i
      BY <2>0 DEF Calm, BuildShown
    <3> QED
      BY <1>0, <3>1 DEF At
  <2>3. StartsAlone'
    BY <1>0, <1>4, <2>0 DEF Calm, StartsAlone, Starts, NoneRuns, Launching
  <2> QED
    BY <2>1, <2>2, <2>3 DEF Calm
<1> QED
  BY <1>1, <1>2, <1>3, <1>4 DEF JoinInv

LEMMA IdleJoins == Joined(Idle, builds) /\ ~Starts(Idle) /\ ~Launching(Idle) /\ Idle.pc = "idle"
BY DEF Idle, Joined, Unjoined, Starts, Launching, Claimless

(* It ends; others may lose their claims, and then the row was misled.     *)
LEMMA EndsJoin ==
  ASSUME TypeOK, JoinInv, NEW p \in Procs, Becomes(p, Idle), SameBuild, UNCHANGED builds,
         misled' \/ ~At(p, "buildRow"), misled => misled',
         \/ robbed' = robbed \ {p}
         \/ robbed' = (robbed \cup Holders(p)) \ {p} /\ Overtakes(p)
  PROVE  JoinInv'
<1>0. /\ req' = [req EXCEPT ![p] = Idle] /\ req'[p] = Idle
      /\ \A q \in Procs \ {p} : req'[q] = req[q]
      /\ robbed \subseteq Procs
      /\ \A q \in robbed' : q \in Procs \ {p} /\ (q \in robbed \/ req[q].owns # "none")
  BY Shapes DEF Becomes, TypeOK, RowOK, Holders
<1>1. RequestsJoin'
  BY <1>0, IdleJoins DEF JoinInv, RequestsJoin, Joined, Launching
<1>2. RobbedHold'
  BY <1>0 DEF JoinInv, RobbedHold
<1>3. RowThere'
  BY <1>0, IdleJoins DEF JoinInv, RowThere, SameBuild
<1>4. ASSUME ~misled' PROVE Calm'
  <2>0. Calm /\ ~At(p, "buildRow")
    BY <1>4 DEF JoinInv
  <2>1. \A q \in Procs : Launching(req'[q]) => q # p /\ req'[q] = req[q] /\ q \notin robbed'
    <3>1. \A q \in Procs \ {p} : Launching(req[q]) => q \notin robbed'
      BY <1>0, <1>4, <2>0 DEF Calm, OneLaunch, Overtakes, Holders, Launching
    <3> QED
      BY <1>0, <3>1, IdleJoins
  <2>2. OneLaunch'
    BY <2>0, <2>1 DEF Calm, OneLaunch, Launching
  <2>3. BuildShown'
    <3> SUFFICES ASSUME NEW i \in BuildIds, builds[i].state = "running",
                        ~(row.bid = i /\ row.build = "running")
                 PROVE  \E q \in Procs : req'[q].pc = "buildRow" /\ req'[q].bid = i
      BY DEF BuildShown, SameBuild
    <3>1. PICK q \in Procs : req[q].pc = "buildRow" /\ req[q].bid = i
      BY <2>0 DEF Calm, BuildShown
    <3> QED
      BY <1>0, <2>0, <3>1 DEF At
  <2>4. StartsAlone'
    BY <1>0, <2>0, IdleJoins DEF Calm, StartsAlone, Starts, NoneRuns, Launching
  <2> QED
    BY <2>2, <2>3, <2>4 DEF Calm
<1> QED
  BY <1>1, <1>2, <1>3, <1>4 DEF JoinInv

(* Ends(p), and Throws(p) of a request that is under way.                  *)
LEMMA EndJoins ==
  ASSUME TypeOK, JoinInv, NEW p \in Procs, Ends(p), SameBuild, ~At(p, "buildRow"),
         UNCHANGED <<builds, misled>>
  PROVE  JoinInv'
BY EndsJoin DEF Ends

LEMMA ForgetsJoin ==
  ASSUME TypeOK, JoinInv, NEW p \in Procs, ~At(p, "idle"), ~At(p, "buildRow"),
         NEW step \in {"recordFailed", "recordRunning", "launchBuild"}, Forgets(p, step),
         step = "launchBuild" => Launching(req[p]),
         UNCHANGED <<robbed, builds, misled>>, SameBuild
  PROVE  JoinInv'
<1> DEFINE r == [Idle EXCEPT !.pc = step, !.op = req[p].op, !.owns = req[p].owns]
<1>1. r.pc = step /\ r.op = req[p].op /\ r.owns = req[p].owns /\ Becomes(p, r)
  BY DEF Forgets, Idle
<1> HIDE DEF r
<1>2. req[p].op \notin Claimless
  BY DEF JoinInv, RequestsJoin, Joined
<1>3. Joined(r, builds) /\ ~Starts(r)
  BY <1>1, <1>2 DEF Joined, Unjoined, Launching, Starts
<1> QED
  BY <1>1, <1>3, MovesJoin

LEMMA ThrowsJoin ==
  ASSUME TypeOK, JoinInv, NEW p \in Procs, Throws(p), SameBuild, ~At(p, "idle"),
         ~At(p, "buildRow"), UNCHANGED <<builds, misled>>
  PROVE  JoinInv'
BY EndJoins, ForgetsJoin DEF Throws

(* The request goes on to a step that remembers nothing new.               *)
LEMMA GoesOn ==
  ASSUME TypeOK, JoinInv, NEW p \in Procs, ~At(p, "idle"), ~At(p, "buildRow"), NEW r, Becomes(p, r),
         r.pc \notin Unjoined \cup {"claim", "check", "startBuild", "buildRow", "status", "statusRow"},
         r.op = req[p].op, r.owns = req[p].owns,
         r.pc \in {"scaffoldRead", "ensureCluster", "clusterRow", "scaffold", "scaffoldRow"} =>
           req[p].owns # "deploying",
         r.pc \in {"launchBuild", "buildRead"} => Launching(req[p]),
         SameBuild, UNCHANGED <<robbed, builds, misled>>
  PROVE  JoinInv'
<1>1. req[p].op \notin Claimless
  BY DEF JoinInv, RequestsJoin, Joined
<1>2. Joined(r, builds) /\ ~Starts(r)
  BY <1>1 DEF Joined, Launching, Starts
<1> QED
  BY <1>2, MovesJoin

LEMMA CallJoin ==
  ASSUME TypeOK, JoinInv, NEW p \in Procs, ~At(p, "idle"), ~At(p, "buildRow"),
         NEW step \in {"clusterRow", "scaffoldRow", "deleteCluster", "clusterGoneRow"},
         req[p].owns # "deploying" \/ step \in {"deleteCluster", "clusterGoneRow"},
         NEW new, NEW partial, Call(p, new, partial, step),
         SameBuild, UNCHANGED <<robbed, builds, misled>>
  PROVE  JoinInv'
<1>0. req[p] \in Request
  BY Shapes
<1>1. CASE Becomes(p, [req[p] EXCEPT !.pc = step])
  <2> DEFINE r == [req[p] EXCEPT !.pc = step]
  <2>1. r.pc = step /\ r.op = req[p].op /\ r.owns = req[p].owns
    BY <1>0 DEF Request
  <2> HIDE DEF r
  <2> QED
    BY <1>1, <2>1, GoesOn DEF r, Unjoined
<1>2. CASE Becomes(p, [req[p] EXCEPT !.pc = step, !.err = TRUE])
  <2> DEFINE r == [req[p] EXCEPT !.pc = step, !.err = TRUE]
  <2>1. r.pc = step /\ r.op = req[p].op /\ r.owns = req[p].owns
    BY <1>0 DEF Request
  <2> HIDE DEF r
  <2> QED
    BY <1>2, <2>1, GoesOn DEF r, Unjoined
<1> QED
  BY <1>1, <1>2 DEF Call, Goto

(* The steps of a launch, joined.                                          *)
LEMMA LaunchJoins ==
  ASSUME IInv, JoinInv, NEW p \in Procs, LaunchStep(p)
  PROVE  JoinInv'
<1> USE Typed
<1>0. /\ TypeOK /\ req \in [Procs -> Request] /\ req[p] \in Request /\ row \in Row
      /\ Joined(req[p], builds)
  BY Shapes DEF IInv, JoinInv, RequestsJoin
<1>1. CASE ClaimLaunch(p)
  <2>1. CASE UNCHANGED <<row, stale>> /\ Ends(p)
    BY <1>0, <1>1, <2>1, EndJoins, SameBuildBy DEF ClaimLaunch, At, world, counters
  <2>2. CASE Becomes(p, [req[p] EXCEPT !.pc = "scaffoldRead", !.owns = "provisioning"])
    <3> DEFINE r == [req[p] EXCEPT !.pc = "scaffoldRead", !.owns = "provisioning"]
    <3>1. r.pc = "scaffoldRead" /\ r.owns = "provisioning" /\ r.op = req[p].op
      BY <1>0 DEF Request
    <3>2. ~Ends(p)
      BY <1>0, <2>2, <3>1, BecomesRecord, EndsRecord
    <3>3. /\ row.exists /\ (row.launch # "provisioning" \/ stale)
          /\ Update([row EXCEPT !.launch = "provisioning"])
          /\ robbed' = robbed \cup Holders(p) /\ UNCHANGED <<builds, misled>>
          /\ req[p].pc = "claim"
      BY <1>1, <3>2 DEF ClaimLaunch, At, world, counters
    <3> HIDE DEF r
    <3>4. /\ req'[p] = r /\ \A q \in Procs \ {p} : req'[q] = req[q]
          /\ Joined(r, builds) /\ ~Starts(r) /\ Launching(r)
      BY <1>0, <2>2, <3>1 DEF Becomes, r, Joined, Unjoined, Starts, Launching
    <3>5. SameBuild
      BY <1>0, <3>3, SameBuildBy DEF LaunchState
    <3>6. RequestsJoin'
      BY <3>3, <3>4 DEF JoinInv, RequestsJoin, Joined, Launching
    <3>7. RobbedHold'
      BY <1>0, <3>1, <3>3, <3>4 DEF JoinInv, RobbedHold, Holders, TypeOK, RowOK
    <3>8. RowThere'
      BY <3>3, <3>4, <3>5 DEF JoinInv, RowThere, SameBuild
    <3>9. ASSUME ~misled PROVE Calm'
      <4>0. Calm
        BY <3>9 DEF JoinInv
      <4>1. \A q \in Procs : ~Launching(req[q])
        <5> SUFFICES ASSUME NEW q \in Procs, Launching(req[q]) PROVE FALSE
          OBVIOUS
        <5>1. q \notin robbed
          BY <4>0 DEF Calm, OneLaunch
        <5>2. row.launch = "provisioning" /\ ~stale
          BY <5>1 DEF ClaimInv, HoldersOK, Launching
        <5> QED
          BY <3>3, <5>2
      <4>2. p \notin robbed
        <5>1. req[p].owns = "none"
          BY <1>0, <3>3 DEF Joined
        <5> QED
          BY <5>1 DEF JoinInv, RobbedHold
      <4>3. OneLaunch'
        BY <3>3, <3>4, <4>1, <4>2 DEF OneLaunch, Holders, Launching
      <4>4. BuildShown'
        <5> SUFFICES ASSUME NEW i \in BuildIds, builds[i].state = "running",
                            ~(row.bid = i /\ row.build = "running")
                     PROVE  \E q \in Procs : req'[q].pc = "buildRow" /\ req'[q].bid = i
          BY <3>3, <3>5 DEF BuildShown, SameBuild
        <5>1. PICK q \in Procs : req[q].pc = "buildRow" /\ req[q].bid = i
          BY <4>0 DEF Calm, BuildShown
        <5> QED
          BY <3>3, <3>4, <5>1
      <4>5. StartsAlone'
        BY <3>1, <3>3, <3>4, <4>0 DEF Calm, StartsAlone, Starts, NoneRuns, Launching
      <4> QED
        BY <4>3, <4>4, <4>5 DEF Calm
    <3> QED
      BY <3>3, <3>6, <3>7, <3>8, <3>9 DEF JoinInv
  <2> QED
    BY <1>1, <2>1, <2>2 DEF ClaimLaunch
<1>2. CASE ReadForScaffold(p)
  <2>1. ~At(p, "idle") /\ ~At(p, "buildRow") /\ SameBuild /\ UNCHANGED <<builds, misled>>
    BY <1>0, <1>2, SameBuildBy DEF ReadForScaffold, At, world, counters
  <2>2. CASE Throws(p)
    BY <1>0, <2>1, <2>2, ThrowsJoin
  <2>3. CASE /\ Becomes(p, [req[p] EXCEPT
                  !.was = (row.prov = "provisioned"),
                  !.pc = IF cluster = "provisioned" THEN "scaffold" ELSE "ensureCluster"])
             /\ UNCHANGED robbed
    <3> DEFINE r == [req[p] EXCEPT
                  !.was = (row.prov = "provisioned"),
                  !.pc = IF cluster = "provisioned" THEN "scaffold" ELSE "ensureCluster"]
    <3>1. r.pc \in {"scaffold", "ensureCluster"} /\ r.op = req[p].op /\ r.owns = req[p].owns
      BY <1>0 DEF Request
    <3>2. Becomes(p, r) /\ UNCHANGED robbed
      BY <2>3
    <3>3. req[p].owns # "deploying"
      BY <1>0, <1>2 DEF ReadForScaffold, At, Joined
    <3> HIDE DEF r
    <3> QED
      BY <1>0, <2>1, <3>1, <3>2, <3>3, GoesOn DEF Unjoined
  <2> QED
    BY <1>2, <2>2, <2>3 DEF ReadForScaffold
<1>3. CASE EnsureCluster(p)
  <2>1. /\ ~At(p, "idle") /\ ~At(p, "buildRow") /\ SameBuild /\ UNCHANGED <<builds, misled>>
        /\ req[p].owns # "deploying"
    BY <1>0, <1>3, SameBuildBy DEF EnsureCluster, At, Joined
  <2> QED
    BY <1>0, <1>3, <2>1, ThrowsJoin, CallJoin DEF EnsureCluster
<1>4. CASE RecordCluster(p)
  <2>1. /\ ~At(p, "idle") /\ ~At(p, "buildRow") /\ SameBuild /\ UNCHANGED <<builds, misled>>
        /\ req[p].owns # "deploying"
    BY <1>0, <1>4, SameBuildBy DEF RecordCluster, At, Joined, world, counters
  <2>2. ASSUME Goto(p, "scaffold"), UNCHANGED robbed PROVE JoinInv'
    <3> DEFINE r == [req[p] EXCEPT !.pc = "scaffold"]
    <3>1. Becomes(p, r) /\ r.pc = "scaffold" /\ r.op = req[p].op /\ r.owns = req[p].owns
      BY <1>0, <2>2 DEF Request, Goto
    <3> HIDE DEF r
    <3> QED
      BY <1>0, <2>1, <2>2, <3>1, GoesOn DEF Unjoined
  <2> QED
    BY <1>0, <1>4, <2>1, <2>2, EndJoins DEF RecordCluster
<1>5. CASE EnsureScaffold(p)
  <2>1. /\ ~At(p, "idle") /\ ~At(p, "buildRow") /\ SameBuild
        /\ UNCHANGED <<robbed, builds, misled>> /\ req[p].owns # "deploying"
    BY <1>0, <1>5, SameBuildBy DEF EnsureScaffold, At, Joined, registry
  <2> QED
    BY <1>0, <1>5, <2>1, CallJoin DEF EnsureScaffold
<1>6. CASE RecordScaffold(p)
  <2>1. /\ ~At(p, "idle") /\ ~At(p, "buildRow") /\ UNCHANGED <<builds, misled>>
        /\ req[p].owns # "deploying"
    BY <1>0, <1>6 DEF RecordScaffold, At, Joined, world, counters
  <2>2. SameBuild
    BY <1>0, <1>6 DEF RecordScaffold, SameBuild, Update, Row
  <2>3. req[p].owns = "none" \/ Launching(req[p])
    BY <1>0, <2>1 DEF Launching, Request
  <2> QED
    BY <1>0, <1>6, <2>1, <2>2, <2>3, EndJoins, ForgetsJoin DEF RecordScaffold
<1>7. CASE LaunchBuildOrJoin(p)
  <2>1. /\ ~At(p, "idle") /\ ~At(p, "buildRow") /\ SameBuild /\ UNCHANGED <<builds, misled>>
        /\ Launching(req[p])
    BY <1>0, <1>7, SameBuildBy DEF LaunchBuildOrJoin, At, Joined, world, counters
  <2>2. ASSUME NEW step \in {"recordBuilding", "buildRead"}, Goto(p, step), UNCHANGED robbed
        PROVE  JoinInv'
    <3> DEFINE r == [req[p] EXCEPT !.pc = step]
    <3>1. Becomes(p, r) /\ r.pc = step /\ r.op = req[p].op /\ r.owns = req[p].owns
      BY <1>0, <2>2 DEF Request, Goto
    <3> HIDE DEF r
    <3> QED
      BY <1>0, <2>1, <2>2, <3>1, GoesOn DEF Unjoined
  <2> QED
    BY <1>0, <1>7, <2>1, <2>2, ThrowsJoin DEF LaunchBuildOrJoin
<1>8. CASE ReadForBuild(p)
  <2>1. /\ ~At(p, "idle") /\ ~At(p, "buildRow") /\ SameBuild /\ UNCHANGED <<builds, misled>>
        /\ Launching(req[p]) /\ req[p].pc = "buildRead"
    BY <1>0, <1>8, SameBuildBy DEF ReadForBuild, At, Joined, world, counters
  <2>2. ASSUME row.build # "running", Goto(p, "check"), UNCHANGED robbed
        PROVE  JoinInv'
    <3> DEFINE r == [req[p] EXCEPT !.pc = "check"]
    <3>1. Becomes(p, r) /\ r.pc = "check" /\ r.op = req[p].op /\ r.owns = req[p].owns
      BY <1>0, <2>2 DEF Request, Goto
    <3> HIDE DEF r
    <3>2. Joined(r, builds)
      BY <1>0, <2>1, <3>1 DEF Joined, Unjoined, Launching
    <3>3. misled \/ NoneRuns(builds)
      <4> SUFFICES ASSUME ~misled, NEW i \in BuildIds, builds[i].state = "running" PROVE FALSE
        BY DEF NoneRuns
      <4>0. Calm
        BY DEF JoinInv
      <4>1. PICK q \in Procs : req[q].pc = "buildRow" /\ req[q].bid = i
        BY <2>2, <4>0 DEF Calm, BuildShown
      <4>2. Launching(req[q])
        BY <4>1 DEF JoinInv, RequestsJoin, Joined
      <4>3. q = p
        BY <2>1, <4>0, <4>2 DEF Calm, OneLaunch
      <4> QED
        BY <2>1, <4>1, <4>3
    <3> QED
      BY <1>0, <2>1, <2>2, <3>1, <3>2, <3>3, MovesJoin
  <2> QED
    BY <1>0, <1>8, <2>1, <2>2, ThrowsJoin DEF ReadForBuild

<1>9. CASE CheckSource(p)
  <2>1. ~At(p, "idle") /\ ~At(p, "buildRow") /\ SameBuild /\ UNCHANGED <<builds, misled>>
    BY <1>0, <1>9, SameBuildBy DEF CheckSource, At, world
  <2>2. ASSUME req[p].op # "check", UNCHANGED robbed,
               Becomes(p, [req[p] EXCEPT !.pc = "startBuild", !.tag = head])
        PROVE  JoinInv'
    <3> DEFINE r == [req[p] EXCEPT !.pc = "startBuild", !.tag = head]
    <3>1. Becomes(p, r) /\ r.pc = "startBuild" /\ r.op = req[p].op /\ r.owns = req[p].owns
      BY <1>0, <2>2 DEF Request
    <3> HIDE DEF r
    <3>2. Launching(req[p]) /\ Starts(req[p])
      BY <1>0, <1>9, <2>2 DEF CheckSource, At, Joined, Starts
    <3>3. Joined(r, builds)
      BY <1>0, <3>1, <3>2 DEF Joined, Unjoined, Launching
    <3> QED
      BY <1>0, <2>1, <2>2, <3>1, <3>2, <3>3, MovesJoin
  <2> QED
    BY <1>0, <1>9, <2>1, <2>2, EndJoins, ThrowsJoin DEF CheckSource
<1>10. CASE StartImageBuild(p)
  <2>1. /\ req[p].pc = "startBuild" /\ SameBuild /\ UNCHANGED <<row, misled>>
        /\ Launching(req[p])
    BY <1>0, <1>10, SameBuildBy DEF StartImageBuild, At, Joined
  <2>2. CASE Throws(p) /\ UNCHANGED builds
    BY <1>0, <2>1, <2>2, ThrowsJoin DEF At
  <2>3. ASSUME NEW b \in BuildIds, builds[b].state = "never", UNCHANGED robbed,
               builds' = [builds EXCEPT ![b] =
                 [state |-> "running", tag |-> req[p].tag, commit |-> 0]],
               Becomes(p, [req[p] EXCEPT !.pc = "buildRow", !.bid = b])
        PROVE  JoinInv'
    <3> DEFINE r == [req[p] EXCEPT !.pc = "buildRow", !.bid = b]
    <3>1. /\ Becomes(p, r) /\ r.pc = "buildRow" /\ r.op = req[p].op /\ r.owns = req[p].owns
          /\ r.bid = b
      BY <1>0, <2>3, Shapes DEF Request, BuildIds
    <3> HIDE DEF r
    <3>2. /\ builds'[b].state = "running" /\ \A i \in BuildIds \ {b} : builds'[i] = builds[i]
          /\ req'[p] = r /\ \A q \in Procs \ {p} : req'[q] = req[q]
      BY <1>0, <2>3, <3>1, Shapes DEF Becomes
    <3>3. RequestsJoin'
      <4>1. \A q \in Procs \ {p} : Joined(req'[q], builds')
        BY <2>3, <3>2 DEF JoinInv, RequestsJoin, Joined, Launching
      <4>2. Joined(r, builds')
        BY <1>0, <2>1, <3>1, <3>2 DEF Joined, Unjoined, Launching
      <4> QED
        BY <3>2, <4>1, <4>2 DEF RequestsJoin
    <3>4. RobbedHold'
      BY <2>3, <3>1, <3>2 DEF JoinInv, RobbedHold, TypeOK, RowOK
    <3>5. RowThere'
      <4>1. row.exists /\ (row.bid # 0 => row.bid \in BuildIds)
        BY <1>0, <2>1 DEF JoinInv, RowThere, Row, BuildIds
      <4> QED
        BY <2>1, <3>2, <4>1 DEF JoinInv, RowThere
    <3>6. ASSUME ~misled PROVE Calm'
      <4>0. Calm /\ NoneRuns(builds)
        BY <2>1, <3>6 DEF JoinInv, Calm, StartsAlone, Starts
      <4>1. \A q \in Procs : Launching(req[q]) => q = p
        BY <2>1, <4>0 DEF Calm, OneLaunch
      <4>2. OneLaunch'
        BY <2>3, <3>1, <3>2, <4>0 DEF Calm, OneLaunch, Launching
      <4>3. \A i \in BuildIds : builds'[i].state = "running" => i = b
        BY <3>2, <4>0 DEF NoneRuns
      <4>4. BuildShown'
        BY <3>1, <3>2, <4>3 DEF BuildShown
      <4>5. \A q \in Procs \ {p} : ~Starts(req[q]) /\ req[q].pc # "buildRow"
        BY <4>1 DEF JoinInv, RequestsJoin, Joined, Starts
      <4>6. StartsAlone'
        BY <3>1, <3>2, <4>3, <4>5 DEF StartsAlone, Starts
      <4> QED
        BY <4>2, <4>4, <4>6 DEF Calm
    <3> QED
      BY <2>1, <3>3, <3>4, <3>5, <3>6 DEF JoinInv
  <2> QED
    BY <1>10, <2>2, <2>3 DEF StartImageBuild
<1>11. CASE RecordBuild(p)
  <2>1. /\ req[p].pc = "buildRow" /\ UNCHANGED <<builds, misled>> /\ Launching(req[p])
        /\ row.exists /\ req[p].bid \in BuildIds /\ builds[req[p].bid].state # "never"
    BY <1>0, <1>11 DEF RecordBuild, At, Joined, world, counters, JoinInv, RowThere
  <2>2. row' = [row EXCEPT !.bid = req[p].bid, !.build = "running", !.tag = req[p].tag]
    BY <1>11, <2>1 DEF RecordBuild, Update
  <2>3. row'.exists /\ row'.bid = req[p].bid /\ row'.build = "running"
    BY <1>0, <2>1, <2>2 DEF Row
  <2>4. Forgets(p, "recordBuilding") /\ UNCHANGED robbed
    BY <1>11, <2>1 DEF RecordBuild, Launching
  <2> DEFINE r == [Idle EXCEPT !.pc = "recordBuilding", !.op = req[p].op, !.owns = req[p].owns]
  <2>5. r.pc = "recordBuilding" /\ r.op = req[p].op /\ r.owns = req[p].owns /\ Becomes(p, r)
    BY <2>4 DEF Forgets, Idle
  <2> HIDE DEF r
  <2>6. req'[p] = r /\ \A q \in Procs \ {p} : req'[q] = req[q]
    BY <1>0, <2>5 DEF Becomes
  <2>7. Joined(r, builds) /\ ~Starts(r)
    BY <1>0, <2>5 DEF Joined, Unjoined, Launching, Starts
  <2>8. RequestsJoin'
    BY <2>1, <2>6, <2>7 DEF JoinInv, RequestsJoin, Joined, Launching
  <2>9. RobbedHold'
    BY <2>4, <2>5, <2>6 DEF JoinInv, RobbedHold, TypeOK, RowOK
  <2>10. RowThere'
    BY <2>1, <2>3 DEF RowThere
  <2>11. ASSUME ~misled PROVE Calm'
    <3>0. Calm
      BY <2>11 DEF JoinInv
    <3>1. \A q \in Procs : Launching(req[q]) => q = p
      BY <2>1, <3>0 DEF Calm, OneLaunch
    <3>2. OneLaunch'
      BY <2>4, <2>5, <2>6, <3>0 DEF Calm, OneLaunch, Launching
    <3>3. BuildShown'
      BY <2>1, <2>3, <3>0 DEF Calm, StartsAlone, BuildShown
    <3>4. \A q \in Procs \ {p} : ~Starts(req[q]) /\ req[q].pc # "buildRow"
      BY <3>1 DEF JoinInv, RequestsJoin, Joined, Starts
    <3>5. StartsAlone'
      BY <2>5, <2>6, <2>7, <3>4 DEF StartsAlone
    <3> QED
      BY <3>2, <3>3, <3>5 DEF Calm
  <2> QED
    BY <2>1, <2>8, <2>9, <2>10, <2>11 DEF JoinInv
<1>12. CASE RecordBuilding(p) \/ RecordFailed(p) \/ RecordRunning(p) \/ ClearLaunch(p)
  <2>1. ~At(p, "buildRow") /\ \E l \in LaunchState : RecordLaunch(p, l)
    BY <1>12 DEF RecordBuilding, RecordFailed, RecordRunning, ClearLaunch, At, LaunchState
  <2>2. PICK l \in LaunchState : RecordLaunch(p, l)
    BY <2>1
  <2>3. SameBuild
    BY <1>0, <2>2, SameBuildBy DEF RecordLaunch
  <2> QED
    BY <1>0, <2>1, <2>2, <2>3, EndsJoin DEF RecordLaunch, Overtakes, world
<1> QED
  BY <1>1, <1>2, <1>3, <1>4, <1>5, <1>6, <1>7, <1>8, <1>9, <1>10, <1>11, <1>12
  DEF LaunchStep

LEMMA AdvanceJoin ==
  ASSUME TypeOK, JoinInv, NEW p \in Procs, AdvanceLaunch(p), ~At(p, "idle"), ~At(p, "buildRow"),
         SameBuild, UNCHANGED <<builds, misled>>
  PROVE  JoinInv'
<1>1. CASE Ends(p)
  BY <1>1, EndJoins
<1>2. CASE /\ NextAdvance(row) # "idle" /\ UNCHANGED robbed
           /\ Becomes(p, [req[p] EXCEPT !.pc = NextAdvance(row), !.launch = row.launch,
                                        !.build = "never", !.bid = 0])
  <2> DEFINE r == [req[p] EXCEPT !.pc = NextAdvance(row), !.launch = row.launch,
                                 !.build = "never", !.bid = 0]
  <2>1. req[p] \in Request
    BY Shapes
  <2>2. r.pc = NextAdvance(row) /\ r.op = req[p].op /\ r.owns = req[p].owns /\ Becomes(p, r)
    BY <1>2, <2>1 DEF Request
  <2>3. NextAdvance(row) \in {"claimDeploy", "recordFailed"}
    BY <1>2 DEF NextAdvance
  <2> HIDE DEF r
  <2> QED
    BY <1>2, <2>2, <2>3, GoesOn DEF Unjoined
<1> QED
  BY <1>1, <1>2 DEF AdvanceLaunch

(* The steps of a deploy and of the status, joined.                        *)
LEMMA AdvanceJoins ==
  ASSUME IInv, JoinInv, NEW p \in Procs, AdvanceStep(p)
  PROVE  JoinInv'
<1> USE Typed
<1>0. /\ TypeOK /\ req \in [Procs -> Request] /\ req[p] \in Request /\ row \in Row
      /\ Joined(req[p], builds)
  BY Shapes DEF IInv, JoinInv, RequestsJoin
<1>1. CASE RefreshBuild(p)
  <2>1. ~At(p, "idle") /\ ~At(p, "buildRow") /\ SameBuild /\ UNCHANGED <<builds, misled>>
    BY <1>0, <1>1, SameBuildBy DEF RefreshBuild, At, world, counters
  <2>2. ASSUME row.bid # 0, Becomes(p, [req[p] EXCEPT !.pc = "status", !.bid = row.bid]),
               UNCHANGED robbed
        PROVE  JoinInv'
    <3> DEFINE r == [req[p] EXCEPT !.pc = "status", !.bid = row.bid]
    <3>1. /\ Becomes(p, r) /\ r.pc = "status" /\ r.op = req[p].op /\ r.owns = req[p].owns
          /\ r.bid = row.bid
      BY <1>0, <2>2 DEF Request
    <3> HIDE DEF r
    <3>2. row.bid \in BuildIds /\ builds[row.bid].state # "never"
      BY <1>0, <2>2 DEF JoinInv, RowThere, Row, BuildIds
    <3>3. Joined(r, builds) /\ ~Starts(r)
      BY <1>0, <3>1, <3>2 DEF Joined, Unjoined, Starts
    <3> QED
      BY <1>0, <2>1, <2>2, <3>1, <3>3, MovesJoin
  <2> QED
    BY <1>0, <1>1, <2>1, <2>2, AdvanceJoin DEF RefreshBuild
<1>2. CASE BuildStatus(p)
  <2>1. /\ req[p].pc = "status" /\ ~At(p, "idle") /\ ~At(p, "buildRow") /\ SameBuild
        /\ UNCHANGED <<builds, misled>>
    BY <1>0, <1>2, SameBuildBy DEF BuildStatus, At, world
  <2>2. ASSUME Becomes(p, [req[p] EXCEPT !.pc = "statusRow", !.build = builds[req[p].bid].state]),
               UNCHANGED robbed
        PROVE  JoinInv'
    <3> DEFINE r == [req[p] EXCEPT !.pc = "statusRow", !.build = builds[req[p].bid].state]
    <3>1. /\ Becomes(p, r) /\ r.pc = "statusRow" /\ r.op = req[p].op /\ r.owns = req[p].owns
          /\ r.bid = req[p].bid /\ r.build = builds[req[p].bid].state
      BY <1>0, <2>2 DEF Request
    <3> HIDE DEF r
    <3>2. Joined(r, builds) /\ ~Starts(r)
      BY <1>0, <2>1, <3>1 DEF Joined, Unjoined, Starts
    <3> QED
      BY <1>0, <2>1, <2>2, <3>1, <3>2, MovesJoin
  <2> QED
    BY <1>0, <1>2, <2>1, <2>2, EndJoins DEF BuildStatus
<1>3. CASE RecordStatus(p)
  <2>1. /\ req[p].pc = "statusRow" /\ row.exists /\ UNCHANGED <<builds, robbed>>
        /\ row' = [row EXCEPT !.build = req[p].build]
        /\ misled' = (misled \/ row.bid # req[p].bid)
        /\ Goto(p, "reread")
    <3>1. row.exists
      BY <1>3 DEF RecordStatus, At, JoinInv, RowThere
    <3> QED
      BY <1>3, <3>1 DEF RecordStatus, At, Update, world
  <2>2. row'.exists = row.exists /\ row'.bid = row.bid /\ row'.build = req[p].build
    BY <1>0, <2>1 DEF Row
  <2> DEFINE r == [req[p] EXCEPT !.pc = "reread"]
  <2>3. /\ r.pc = "reread" /\ r.op = req[p].op /\ r.owns = req[p].owns
        /\ req'[p] = r /\ \A q \in Procs \ {p} : req'[q] = req[q]
    BY <1>0, <2>1 DEF Goto, Becomes, Request
  <2> HIDE DEF r
  <2>4. Joined(r, builds) /\ ~Starts(r)
    BY <1>0, <2>3 DEF Joined, Unjoined, Starts
  <2>5. RequestsJoin'
    BY <2>1, <2>3, <2>4 DEF JoinInv, RequestsJoin, Joined, Launching
  <2>6. RobbedHold'
    BY <2>1, <2>3 DEF JoinInv, RobbedHold, TypeOK, RowOK
  <2>7. RowThere'
    BY <2>1, <2>2 DEF JoinInv, RowThere
  <2>8. ASSUME ~misled' PROVE Calm'
    <3>0. Calm /\ row.bid = req[p].bid
      BY <2>1, <2>8 DEF JoinInv
    <3>1. \A q \in Procs : Launching(req'[q]) <=> Launching(req[q])
      BY <2>3 DEF Launching
    <3>2. OneLaunch'
      BY <2>1, <3>0, <3>1 DEF Calm, OneLaunch, Launching
    <3>3. BuildShown'
      <4> SUFFICES ASSUME NEW i \in BuildIds, builds[i].state = "running",
                          ~(row'.bid = i /\ row'.build = "running")
                   PROVE  \E q \in Procs : req'[q].pc = "buildRow" /\ req'[q].bid = i
        BY <2>1 DEF BuildShown
      <4>1. ~(row.bid = i /\ row.build = "running")
        BY <1>0, <2>1, <2>2, <3>0 DEF Joined
      <4>2. PICK q \in Procs : req[q].pc = "buildRow" /\ req[q].bid = i
        BY <3>0, <4>1 DEF Calm, BuildShown
      <4> QED
        BY <2>1, <2>3, <4>2
    <3>4. StartsAlone'
      BY <2>1, <2>3, <2>4, <3>0 DEF Calm, StartsAlone, Starts, NoneRuns, Launching
    <3> QED
      BY <3>2, <3>3, <3>4 DEF Calm
  <2> QED
    BY <2>5, <2>6, <2>7, <2>8 DEF JoinInv
<1>4. CASE Reread(p)
  <2>1. ~At(p, "idle") /\ ~At(p, "buildRow") /\ SameBuild /\ UNCHANGED <<builds, misled>>
    BY <1>0, <1>4, SameBuildBy DEF Reread, At, world, counters
  <2> QED
    BY <1>0, <1>4, <2>1, AdvanceJoin DEF Reread
<1>5. CASE ClaimDeploy(p)
  <2>1. CASE UNCHANGED <<row, stale>> /\ Ends(p)
    BY <1>0, <1>5, <2>1, EndJoins, SameBuildBy DEF ClaimDeploy, At, world, counters
  <2>2. CASE Becomes(p, [req[p] EXCEPT !.pc = "deployRead", !.owns = "deploying",
                                       !.launch = "none"])
    <3> DEFINE r == [req[p] EXCEPT !.pc = "deployRead", !.owns = "deploying", !.launch = "none"]
    <3>1. r.pc = "deployRead" /\ r.owns = "deploying" /\ r.op = req[p].op
      BY <1>0 DEF Request
    <3>2. ~Ends(p)
      BY <1>0, <2>2, <3>1, BecomesRecord, EndsRecord
    <3>3. /\ row.exists /\ row.launch = req[p].launch /\ req[p].pc = "claimDeploy"
          /\ Update([row EXCEPT !.launch = "deploying"])
          /\ robbed' = robbed \cup Holders(p) /\ UNCHANGED <<builds, misled>>
      BY <1>5, <3>2 DEF ClaimDeploy, At, world, counters
    <3> HIDE DEF r
    <3>4. /\ req'[p] = r /\ \A q \in Procs \ {p} : req'[q] = req[q]
          /\ Joined(r, builds) /\ ~Starts(r) /\ ~Launching(r)
      BY <1>0, <2>2, <3>1 DEF Becomes, r, Joined, Unjoined, Starts, Launching
    <3>5. SameBuild
      BY <1>0, <3>3, SameBuildBy DEF LaunchState
    <3>6. RequestsJoin'
      BY <3>3, <3>4 DEF JoinInv, RequestsJoin, Joined, Launching
    <3>7. RobbedHold'
      BY <1>0, <3>1, <3>3, <3>4 DEF JoinInv, RobbedHold, Holders, TypeOK, RowOK
    <3>8. RowThere'
      BY <3>3, <3>4, <3>5 DEF JoinInv, RowThere, SameBuild
    <3>9. ASSUME ~misled PROVE Calm'
      <4>0. Calm
        BY <3>9 DEF JoinInv
      <4>1. \A q \in Procs : ~Launching(req[q])
        <5> SUFFICES ASSUME NEW q \in Procs, Launching(req[q]) PROVE FALSE
          OBVIOUS
        <5>1. q \notin robbed
          BY <4>0 DEF Calm, OneLaunch
        <5>2. row.launch = "provisioning"
          BY <5>1 DEF ClaimInv, HoldersOK, Launching
        <5>3. req[p].launch \in {"building", "deploying"}
          BY <3>3 DEF ClaimInv, SessionsOK, Session
        <5> QED
          BY <3>3, <5>2, <5>3
      <4>2. OneLaunch'
        BY <3>4, <4>1 DEF OneLaunch, Launching
      <4>3. BuildShown'
        <5> SUFFICES ASSUME NEW i \in BuildIds, builds[i].state = "running",
                            ~(row.bid = i /\ row.build = "running")
                     PROVE  \E q \in Procs : req'[q].pc = "buildRow" /\ req'[q].bid = i
          BY <3>3, <3>5 DEF BuildShown, SameBuild
        <5>1. PICK q \in Procs : req[q].pc = "buildRow" /\ req[q].bid = i
          BY <4>0 DEF Calm, BuildShown
        <5> QED
          BY <3>3, <3>4, <5>1
      <4>4. StartsAlone'
        BY <3>1, <3>3, <3>4, <4>0 DEF Calm, StartsAlone, Starts, NoneRuns, Launching
      <4> QED
        BY <4>2, <4>3, <4>4 DEF Calm
    <3> QED
      BY <3>3, <3>6, <3>7, <3>8, <3>9 DEF JoinInv
  <2> QED
    BY <1>5, <2>1, <2>2 DEF ClaimDeploy
<1>6. CASE ReadForDeploy(p) \/ ReadForRollback(p)
  <2>1. ~At(p, "idle") /\ ~At(p, "buildRow") /\ SameBuild /\ UNCHANGED <<builds, misled>>
    BY <1>0, <1>6, SameBuildBy DEF ReadForDeploy, ReadForRollback, At, world, counters
  <2>2. ASSUME NEW t, Becomes(p, [req[p] EXCEPT !.pc = "deploy", !.tag = t, !.was = row.arn]),
               UNCHANGED robbed
        PROVE  JoinInv'
    <3> DEFINE r == [req[p] EXCEPT !.pc = "deploy", !.tag = t, !.was = row.arn]
    <3>1. Becomes(p, r) /\ r.pc = "deploy" /\ r.op = req[p].op /\ r.owns = req[p].owns
      BY <1>0, <2>2 DEF Request
    <3> HIDE DEF r
    <3> QED
      BY <1>0, <2>1, <2>2, <3>1, GoesOn DEF Unjoined
  <2> QED
    BY <1>0, <1>6, <2>1, <2>2, ThrowsJoin, EndJoins DEF ReadForDeploy, ReadForRollback
<1>7. CASE DeployService(p)
  <2>1. /\ ~At(p, "idle") /\ ~At(p, "buildRow") /\ SameBuild
        /\ UNCHANGED <<robbed, builds, misled>>
    BY <1>0, <1>7, SameBuildBy DEF DeployService, At, registry
  <2>2. ASSUME NEW was, NEW err,
               Becomes(p, [req[p] EXCEPT !.pc = "deployRow", !.was = was, !.err = err])
        PROVE  JoinInv'
    <3> DEFINE r == [req[p] EXCEPT !.pc = "deployRow", !.was = was, !.err = err]
    <3>1. Becomes(p, r) /\ r.pc = "deployRow" /\ r.op = req[p].op /\ r.owns = req[p].owns
      BY <1>0, <2>2 DEF Request
    <3> HIDE DEF r
    <3> QED
      BY <1>0, <2>1, <3>1, GoesOn DEF Unjoined
  <2>3. CASE Becomes(p, [req[p] EXCEPT !.pc = "deployRow", !.was = TRUE])
    <3>1. [req[p] EXCEPT !.pc = "deployRow", !.was = TRUE]
            = [req[p] EXCEPT !.pc = "deployRow", !.was = TRUE, !.err = req[p].err]
      BY <1>0 DEF Request
    <3>2. Becomes(p, [req[p] EXCEPT !.pc = "deployRow", !.was = TRUE, !.err = req[p].err])
      BY <2>3, <3>1
    <3> QED
      BY <2>2, <3>2
  <2>4. CASE Becomes(p, [req[p] EXCEPT !.pc = "deployRow", !.err = TRUE])
    <3>1. [req[p] EXCEPT !.pc = "deployRow", !.err = TRUE]
            = [req[p] EXCEPT !.pc = "deployRow", !.was = req[p].was, !.err = TRUE]
      BY <1>0 DEF Request
    <3>2. Becomes(p, [req[p] EXCEPT !.pc = "deployRow", !.was = req[p].was, !.err = TRUE])
      BY <2>4, <3>1
    <3> QED
      BY <2>2, <3>2
  <2> QED
    BY <1>7, <2>2, <2>3, <2>4 DEF DeployService
<1>8. CASE RecordDeploy(p)
  <2>1. ~At(p, "idle") /\ ~At(p, "buildRow") /\ UNCHANGED <<builds, misled>>
    BY <1>8 DEF RecordDeploy, At, world, counters
  <2>2. SameBuild
    BY <1>0, <1>8 DEF RecordDeploy, SameBuild, Update, Row
  <2> QED
    BY <1>0, <1>8, <2>1, <2>2, EndJoins, ForgetsJoin DEF RecordDeploy
<1>9. ~(ReadForStop(p) \/ StopBuild(p) \/ RecordStop(p))
  BY <1>0 DEF ReadForStop, StopBuild, RecordStop, At, Joined, Unjoined
<1> QED
  BY <1>1, <1>2, <1>3, <1>4, <1>5, <1>6, <1>7, <1>8, <1>9 DEF AdvanceStep

(* Of the steps of a teardown, those that take the cluster down.           *)
LEMMA TeardownJoins ==
  ASSUME IInv, JoinInv, NEW p \in Procs, TeardownStep(p)
  PROVE  JoinInv'
<1> USE Typed
<1>0. /\ TypeOK /\ req \in [Procs -> Request] /\ req[p] \in Request /\ row \in Row
      /\ Joined(req[p], builds)
  BY Shapes DEF IInv, JoinInv, RequestsJoin
<1>1. \/ CheckClusterFree(p) \/ DeleteCapacity(p) \/ DeleteCluster(p) \/ RecordClusterGone(p)
  BY <1>0
  DEF TeardownStep, DeleteService, DeleteProject, DeleteRepository, RecordDeprovision,
      ClusterIfUp, Teardown, TeardownCluster, ReadForRemove, RemoveRows, At, Joined, Unjoined
<1>2. /\ ~At(p, "idle") /\ ~At(p, "buildRow") /\ SameBuild /\ UNCHANGED <<builds, misled>>
  BY <1>0, <1>1, SameBuildBy
  DEF CheckClusterFree, DeleteCapacity, DeleteCluster, RecordClusterGone, At, registry, world,
      counters
<1>3. CASE CheckClusterFree(p)
  <2>1. ASSUME Goto(p, "deleteCapacity"), UNCHANGED robbed PROVE JoinInv'
    <3> DEFINE r == [req[p] EXCEPT !.pc = "deleteCapacity"]
    <3>1. Becomes(p, r) /\ r.pc = "deleteCapacity" /\ r.op = req[p].op /\ r.owns = req[p].owns
      BY <1>0, <2>1 DEF Request, Goto
    <3> HIDE DEF r
    <3> QED
      BY <1>0, <1>2, <2>1, <3>1, GoesOn DEF Unjoined
  <2> QED
    BY <1>0, <1>2, <1>3, <2>1, EndJoins DEF CheckClusterFree
<1>4. CASE DeleteCapacity(p)
  BY <1>0, <1>2, <1>4, CallJoin DEF DeleteCapacity, registry
<1>5. CASE DeleteCluster(p)
  <2>1. ASSUME Becomes(p, [req[p] EXCEPT !.pc = "clusterGoneRow", !.err = TRUE]) PROVE JoinInv'
    <3> DEFINE r == [req[p] EXCEPT !.pc = "clusterGoneRow", !.err = TRUE]
    <3>1. /\ Becomes(p, r) /\ r.pc = "clusterGoneRow" /\ r.op = req[p].op
          /\ r.owns = req[p].owns /\ UNCHANGED robbed
      BY <1>0, <1>5, <2>1 DEF Request, DeleteCluster, registry
    <3> HIDE DEF r
    <3> QED
      BY <1>0, <1>2, <3>1, GoesOn DEF Unjoined
  <2> QED
    BY <1>0, <1>2, <1>5, <2>1, CallJoin DEF DeleteCluster, registry
<1>6. CASE RecordClusterGone(p)
  <2>1. req[p].op # "teardown"
    BY <1>0 DEF Joined, Claimless
  <2> QED
    BY <1>0, <1>2, <1>6, <2>1, EndJoins DEF RecordClusterGone
<1> QED
  BY <1>1, <1>3, <1>4, <1>5, <1>6

(* A build moves on: none starts running but the one a request starts.     *)
LEMMA BuildJoins ==
  ASSUME TypeOK, JoinInv, NEW b \in BuildIds, BuildStep(b)
  PROVE  JoinInv'
<1>1. UNCHANGED <<row, robbed, req, misled>>
  BY DEF BuildStep, CloneSource, BuildSucceeds, BuildPushesNothing, BuildFails, registry, counters
<1>2. builds[b].state = "running"
  BY DEF BuildStep, CloneSource, BuildSucceeds, BuildPushesNothing, BuildFails
<1>3. \A i \in BuildIds :
        /\ builds[i].state = "never" <=> builds'[i].state = "never"
        /\ builds'[i].state = "running" => builds[i].state = "running"
  BY <1>2, Shapes DEF BuildStep, CloneSource, BuildSucceeds, BuildPushesNothing, BuildFails
<1>4. row.bid # 0 => row.bid \in BuildIds
  BY Shapes DEF Row, BuildIds
<1>5. RequestsJoin'
  BY <1>1, <1>3 DEF JoinInv, RequestsJoin, Joined, Launching
<1>6. RobbedHold' /\ RowThere'
  BY <1>1, <1>3, <1>4 DEF JoinInv, RobbedHold, RowThere
<1>7. ASSUME ~misled PROVE Calm'
  BY <1>1, <1>3, <1>7
  DEF JoinInv, Calm, OneLaunch, BuildShown, StartsAlone, Starts, NoneRuns, Launching
<1> QED
  BY <1>1, <1>5, <1>6, <1>7 DEF JoinInv

(* A free slot takes a request.                                            *)
LEMMA ArrivesJoin ==
  ASSUME IInv, JoinInv, NEW p \in Procs, At(p, "idle"), row.exists,
         NEW r, Becomes(p, r), r.owns = "none", r.op \notin Claimless,
         r.pc \notin Unjoined \cup {"launchBuild", "buildRead", "startBuild", "buildRow", "status",
                                    "statusRow"},
         r.pc = "check" => r.op = "check",
         UNCHANGED <<row, robbed, builds, misled>>
  PROVE  JoinInv'
<1> USE Typed
<1>1. /\ req'[p] = r /\ \A q \in Procs \ {p} : req'[q] = req[q]
  BY DEF RequestsOK, Becomes
<1>2. Joined(r, builds) /\ ~Starts(r) /\ ~Launching(r) /\ r.pc # "buildRow"
  BY DEF Joined, Unjoined, Starts, Launching, Claimless
<1>3. RequestsJoin'
  BY <1>1, <1>2 DEF JoinInv, RequestsJoin, Joined, Launching
<1>4. RobbedHold'
  <2>1. req[p].owns = "none"
    BY DEF At, ClaimInv, SessionsOK, Session, Unclaimed
  <2>2. p \notin robbed /\ robbed \subseteq Procs
    BY <2>1 DEF JoinInv, RobbedHold, RowOK
  <2> QED
    BY <1>1, <2>2 DEF JoinInv, RobbedHold
<1>5. RowThere'
  BY DEF JoinInv, RowThere
<1>6. ASSUME ~misled PROVE Calm'
  BY <1>1, <1>2, <1>6
  DEF JoinInv, Calm, OneLaunch, BuildShown, StartsAlone, Starts, NoneRuns, Launching, At
<1> QED
  BY <1>3, <1>4, <1>5, <1>6 DEF JoinInv

(* What no request and no build sees changes nothing.                      *)
LEMMA StuttersJoin ==
  ASSUME TypeOK, JoinInv, UNCHANGED <<row, robbed, builds, req, misled>>
  PROVE  JoinInv'
<1>1. RequestsJoin' /\ RobbedHold' /\ RowThere'
  BY DEF JoinInv, RequestsJoin, RobbedHold, RowThere
<1>2. ASSUME ~misled PROVE Calm'
  BY <1>2 DEF JoinInv, Calm, OneLaunch, BuildShown, StartsAlone, NoneRuns
<1> QED
  BY <1>1, <1>2 DEF JoinInv

LEMMA ConsoleJoins ==
  ASSUME Joining, IInv, JoinInv, NEW p \in Procs, NEW op \in Ops, NEW wipe \in BOOLEAN,
         StartRequest(p, op, wipe)
  PROVE  JoinInv'
<1> DEFINE step == FirstStep[op]
           r    == [Idle EXCEPT !.pc = step, !.op = op, !.wipe = wipe]
<1>1. op \in AllOps \ Claimless
  BY LaunchAssumption DEF Joining, Claimless
<1>2. /\ step \notin Unjoined \cup {"launchBuild", "buildRead", "startBuild", "buildRow", "status",
                                    "statusRow"}
      /\ step = "check" => op = "check"
  BY <1>1 DEF AllOps, Claimless, FirstStep, Unjoined
<1> HIDE DEF step
<1>3. r.owns = "none" /\ r.pc = step /\ r.op = op
  BY DEF Idle
<1>4. /\ At(p, "idle") /\ row.exists /\ Becomes(p, r)
      /\ UNCHANGED <<row, robbed, builds, misled>>
  BY DEF StartRequest, registry, world, step
<1> HIDE DEF r
<1> QED
  BY <1>1, <1>2, <1>3, <1>4, ArrivesJoin

LEMMA OthersJoin ==
  ASSUME IInv, JoinInv, NEW p \in Procs, HandlePushEvent(p) \/ ReconcileLaunches(p)
  PROVE  JoinInv'
<1>1. UNCHANGED <<row, robbed, builds, misled>>
  BY DEF HandlePushEvent, ReconcileLaunches, registry, world, counters
<1>2. \/ UNCHANGED req
      \/ /\ row.exists /\ At(p, "idle")
         /\ \E step \in {"claim", "refresh"}, op \in {"push", "reconcile"} :
              Becomes(p, [Idle EXCEPT !.pc = step, !.op = op])
  BY DEF HandlePushEvent, ReconcileLaunches
<1>3. CASE UNCHANGED req
  BY <1>1, <1>3, StuttersJoin DEF IInv
<1>4. ASSUME row.exists, At(p, "idle"),
             NEW step \in {"claim", "refresh"}, NEW op \in {"push", "reconcile"},
             Becomes(p, [Idle EXCEPT !.pc = step, !.op = op])
      PROVE  JoinInv'
  <2> DEFINE r == [Idle EXCEPT !.pc = step, !.op = op]
  <2>1. r.owns = "none" /\ r.pc = step /\ r.op = op /\ Becomes(p, r)
    BY <1>4 DEF Idle
  <2> HIDE DEF r
  <2>2. r.pc \notin Unjoined /\ r.op \notin Claimless
    BY <2>1 DEF Unjoined, Claimless
  <2> QED
    BY <1>1, <1>4, <2>1, <2>2, ArrivesJoin
<1> QED
  BY <1>2, <1>3, <1>4

(* The rows appear: nothing was built, and nobody was at work.             *)
LEMMA CreateJoins ==
  ASSUME IInv, JoinInv, CreateMicroservice
  PROVE  JoinInv'
<1>1. UNCHANGED <<robbed, builds, req, misled>> /\ ~row.exists
  BY DEF CreateMicroservice, world
<1>2. row'.exists /\ row'.bid = 0
  BY DEF CreateMicroservice, NewRow
<1>3. \A i \in BuildIds : builds[i].state = "never"
  BY <1>1 DEF JoinInv, RowThere
<1>4. RequestsJoin' /\ RobbedHold' /\ RowThere'
  BY <1>1, <1>2 DEF JoinInv, RequestsJoin, RobbedHold, RowThere
<1>5. ASSUME ~misled PROVE Calm'
  BY <1>1, <1>3, <1>5 DEF JoinInv, Calm, OneLaunch, BuildShown, StartsAlone, NoneRuns
<1> QED
  BY <1>1, <1>4, <1>5 DEF JoinInv

LEMMA DieJoins ==
  ASSUME IInv, JoinInv, NEW p \in Procs, Die(p)
  PROVE  JoinInv'
<1>1. /\ Becomes(p, Idle) /\ robbed' = robbed \ {p} /\ UNCHANGED builds /\ SameBuild
      /\ misled' \/ ~At(p, "buildRow")
      /\ misled => misled'
  BY DEF Die, Ends, world, SameBuild
<1> QED
  BY <1>1, EndsJoin DEF IInv, Die

LEMMA InitJoins == Init => JoinInv
<1> SUFFICES ASSUME Init PROVE JoinInv
  OBVIOUS
<1>1. /\ \A p \in Procs : req[p] = Idle
      /\ row = NoRow /\ robbed = {} /\ \A i \in BuildIds : builds[i].state = "never"
  BY DEF Init
<1>2. ~row.exists /\ row.bid = 0
  BY <1>1 DEF NoRow, NewRow
<1>3. RequestsJoin /\ RobbedHold /\ RowThere
  BY <1>1, <1>2, IdleJoins DEF RequestsJoin, RobbedHold, RowThere
<1>4. Calm
  BY <1>1, IdleJoins DEF Calm, OneLaunch, BuildShown, StartsAlone
<1> QED
  BY <1>3, <1>4 DEF JoinInv

LEMMA NextJoins == Joining /\ IInv /\ JoinInv /\ [Next]_vars => JoinInv'
<1> SUFFICES ASSUME Joining, IInv, JoinInv, [Next]_vars PROVE JoinInv'
  OBVIOUS
<1>1. CASE GithubPush \/ ClaimGoesStale \/ UNCHANGED vars
  <2>1. UNCHANGED <<row, robbed, builds, req, misled>>
    BY <1>1 DEF GithubPush, ClaimGoesStale, vars, registry, world, counters
  <2> QED
    BY <2>1, StuttersJoin DEF IInv
<1>2. ASSUME NEW p \in Requests, NEW op \in Ops, NEW wipe \in BOOLEAN,
             StartRequest(p, op, wipe)
      PROVE  JoinInv'
  BY <1>2, ConsoleJoins DEF Procs
<1>3. ASSUME NEW p \in Procs, HandlePushEvent(p) \/ ReconcileLaunches(p) PROVE JoinInv'
  BY <1>3, OthersJoin
<1>4. ASSUME NEW p \in Procs, Proceed(p) \/ Die(p) PROVE JoinInv'
  BY <1>4, LaunchJoins, AdvanceJoins, TeardownJoins, DieJoins DEF Proceed
<1>5. ASSUME NEW b \in BuildIds, BuildStep(b) PROVE JoinInv'
  BY <1>5, BuildJoins DEF IInv
<1> QED
  BY <1>1, <1>2, <1>3, <1>4, <1>5, CreateJoins DEF Next, Procs

(* Two builds that run: each is the row's, or that of a request about to   *)
(* name it there, beside which no other runs.                              *)
LEMMA JoinedIsOne ==
  ASSUME JoinInv, ~misled,
         NEW i \in BuildIds, builds[i].state = "running",
         NEW j \in BuildIds, builds[j].state = "running"
  PROVE  i = j
BY DEF JoinInv, Calm, BuildShown, StartsAlone

(* One build at a time, for any number of requests and schedules, builds,  *)
(* failed calls and deaths, where builds are started by launches: whatever *)
(* else wants one joins the build under way (launchBuildOrJoin).           *)
THEOREM BuildsAreJoined ==
  ASSUME Joining PROVE Spec => []OneBuild
<1>1. JoinInv => OneBuild
  <2> DEFINE Running == {b \in BuildIds : builds[b].state = "running"}
  <2> SUFFICES ASSUME JoinInv, ~misled PROVE Cardinality(Running) <= 1
    BY DEF OneBuild
  <2>1. \A i, j \in Running : i = j
    BY JoinedIsOne
  <2>2. Running = {} \/ \E i : Running = {i}
    BY <2>1
  <2> HIDE DEF Running
  <2>3. CASE Running = {}
    BY <2>3, FS_EmptySet
  <2>4. ASSUME NEW i, Running = {i} PROVE Cardinality(Running) = 1
    BY <2>4, FS_Singleton
  <2> QED
    BY <2>2, <2>3, <2>4
<1> QED
  BY InitInv, NextInv, InitJoins, NextJoins, <1>1, PTL DEF Spec

=============================================================================
