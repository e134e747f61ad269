--------------------------- MODULE MCInfrastructure ---------------------------
(***************************************************************************)
(* SensorProvisioning, StorageWiring and DeploymentStack for TLC.  The     *)
(* three share no state here, so a behaviour runs one of them (`part`) and *)
(* leaves the others as they start; every property speaks of its own part. *)
(***************************************************************************)
EXTENDS SensorProvisioning, StorageWiring, DeploymentStack

VARIABLE part

infraVars == <<part, sensorVars, storageVars, stackVars>>

NestedPrefixes  == {"p/", "p/q/"}
NestedPairs     == {<<"p/", "p/q/">>, <<"p/q/", "p/">>}

-----------------------------------------------------------------------------
(* How a part starts, and how it stays when another one runs.              *)

NoSensors == \A s \in Sensors : wanted[s] = "none" /\ queue[s] = "none"

NoStorages == registered = {} /\ \A s \in Archivers : ~ingest[s].present

\* One sensor archives under "p/", the other streams or is yet to be added, and
\* nobody else uses the bucket.
FewStorages ==
  /\ foreignRule = {} /\ registered = Buckets
  /\ \E s \in Archivers :
       /\ ingest[s].archive /\ ingest[s].path.prefix = "p/"
       /\ s = CHOOSE r \in Archivers : TRUE
       /\ \A r \in Archivers \ {s} : ~ingest[r].archive

InfraInit ==
  /\ SensorInit /\ StorageInit /\ StackInit
  /\ \/ part \in {"sensors", "teardown"} /\ NoStorages /\ foreignRule = {}
     \/ part = "storage" /\ NoSensors /\ FewStorages
     \/ part = "stack" /\ NoSensors /\ NoStorages /\ foreignRule = {}

-----------------------------------------------------------------------------
(* Overlapping passes are looked at without the reaper, and the reaper     *)
(* with one pass beside it.                                                *)
SecondPass == CHOOSE k \in Passes : \E j \in Passes : j # k

SensorPart ==
  /\ SensorNext
  /\ IF part = "sensors" THEN reaper' = "none" ELSE pass'[SecondPass].pc = "idle"

(* The second request only changes sensors, and its archiving.             *)
LateRequest == CHOOSE r \in IngestRequests : \E q \in IngestRequests : q # r

StoragePart == StorageNext /\ request'[LateRequest].op \in {"", "set"}

InfraNext ==
  \/ part \in {"sensors", "teardown"} /\ SensorPart /\ UNCHANGED <<part, storageVars, stackVars>>
  \/ part = "storage" /\ StoragePart /\ UNCHANGED <<part, sensorVars, stackVars>>
  \/ part = "stack" /\ StackNext /\ UNCHANGED <<part, sensorVars, storageVars>>


\* The fairness of the three modules, each for its part.
InfraSpec ==
  /\ InfraInit /\ [][InfraNext]_infraVars
  /\ \A k \in AllPasses :
       WF_sensorVars(part = "teardown" /\ k # SecondPass /\ PassStep(k))
  /\ \A k \in AllPasses : WF_sensorVars(part = "sensors" /\ PassStep(k))
  /\ \A s \in Sensors :
       WF_sensorVars(part \in {"sensors", "teardown"} /\ ServiceDrained(s))
  /\ WF_sensorVars(part = "teardown" /\ PollReaper)
  /\ \A r \in IngestRequests : WF_storageVars(part = "storage" /\ RequestStep(r))
  /\ \A n \in Notifiers : WF_storageVars(part = "storage" /\ NotifyStep(n))
  /\ WF_stackVars(part = "stack" /\ CreateWave) /\ WF_stackVars(part = "stack" /\ CreateDone)
  /\ WF_stackVars(part = "stack" /\ DeleteWave) /\ WF_stackVars(part = "stack" /\ DeleteDone)
  /\ WF_stackVars(part = "stack" /\ ReaperRolledBack)
  /\ WF_stackVars(part = "stack" /\ ClusterRefuses)
  /\ WF_stackVars(part = "stack" /\ NetworkHeld) /\ WF_stackVars(part = "stack" /\ StartReap)
  /\ WF_stackVars(part = "stack" /\ PollReap) /\ WF_stackVars(part = "stack" /\ ReapTimesOut)
  /\ WF_stackVars(part = "stack" /\ PassActs) /\ WF_stackVars(part = "stack" /\ Drained)
=============================================================================
