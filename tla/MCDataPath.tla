------------------------------ MODULE MCDataPath ------------------------------
(***************************************************************************)
(* For TLC: what carries data to a reader.  From the sensors to the        *)
(* vehicles (SensorConsumer, CriticalSpat, SpatRateLimit), to Valkey       *)
(* (ValkeyClient), and to somebody in front of the console (ServicePage,   *)
(* AsyncLoad).  A behaviour runs one of them, `part`; the others stay as   *)
(* they start, and each temporal property is asked of its own part.        *)
(***************************************************************************)
EXTENDS SensorConsumer, CriticalSpat, SpatRateLimit, ValkeyClient, ServicePage, AsyncLoad

VARIABLE part

Parts == {"consumer", "spat", "rate", "client", "page", "load"}

\* Five messages: 1 and 2 are fragments of one frame, 3 cannot be decoded, and
\* 4 and 5 are the next frame and the one after.
FiveMessages == 1..5
FiveTimes    == <<1, 1, 4, 6, 8>>

dataVars == <<part, consumerVars, spatVars, rateVars, clientVars, pageVars, loadVars>>

OneSignal == CHOOSE s \in States : TRUE

LaunchedService == CHOOSE s \in Services : TRUE

DataInit ==
  /\ part \in Parts
  /\ ConsumerInit /\ SpatInit /\ RateInit /\ ClientInit /\ PageInit /\ LoadInit
  /\ signal = OneSignal
  /\ part = "page" \/ name = LaunchedService

-----------------------------------------------------------------------------
(* Of the page: one service is launched, and a behaviour visits another    *)
(* service, clicks, or loses a read, two of the three at most.             *)
PagePart ==
  /\ PageNext
  /\ visited' + refreshed' + lost' <= 2
  /\ \A s \in Services \ {LaunchedService} : launch'[s] = "idle"

ConsumerPart == ConsumerNext /\ UNCHANGED <<spatVars, rateVars, clientVars, pageVars, loadVars>>
SpatPart ==
  /\ SpatNext /\ signalChanges' + spatFaults' <= 2
  /\ UNCHANGED <<consumerVars, rateVars, clientVars, pageVars, loadVars>>
RatePart == RateNext /\ UNCHANGED <<consumerVars, spatVars, clientVars, pageVars, loadVars>>
ClientPart == ClientNext /\ UNCHANGED <<consumerVars, spatVars, rateVars, pageVars, loadVars>>
ConsolePart == PagePart /\ UNCHANGED <<consumerVars, spatVars, rateVars, clientVars, loadVars>>
LoadPart == LoadNext /\ UNCHANGED <<consumerVars, spatVars, rateVars, clientVars, pageVars>>

DataNext ==
  /\ UNCHANGED part
  /\ \/ part = "consumer" /\ ConsumerPart
     \/ part = "spat" /\ SpatPart
     \/ part = "rate" /\ RatePart
     \/ part = "client" /\ ClientPart
     \/ part = "page" /\ ConsolePart
     \/ part = "load" /\ LoadPart

\* The fairness of each module, for its own part.
DataSpec ==
  /\ DataInit /\ [][DataNext]_dataVars
  /\ \A t \in Tasks : /\ WF_consumerVars(part = "consumer" /\ RunStep(t))
                      /\ WF_consumerVars(part = "consumer" /\ Sigterm(t))
  /\ WF_consumerVars(part = "consumer" /\ NoneRuns /\ \E t \in Tasks : StartTask(t))
  /\ WF_consumerVars(part = "consumer" /\ VisibilityTimeout)
  /\ \A i \in Invocations : /\ WF_spatVars(part = "spat" /\ Deliver(i))
                            /\ WF_spatVars(part = "spat" /\ Handle(i))
  /\ WF_spatVars(part = "spat" /\ Expire)
  /\ WF_clientVars(part = "client" /\ StartNext)
  /\ \A i \in Cmds : WF_clientVars(part = "client" /\ i \in DOMAIN conn /\ LoopStep(i))
  /\ WF_pageVars(part = "page" /\ Poll) /\ WF_pageVars(part = "page" /\ TailLogs)
  /\ \A s \in Services : WF_pageVars(part = "page" /\ BuildLands(s))
  /\ WF_pageVars(part = "page" /\ AnyServed) /\ WF_pageVars(part = "page" /\ AnyReply)
  /\ WF_loadVars(part = "load" /\ TimerFires)
  /\ \A n \in Fetch : WF_loadVars(part = "load" /\ Continue(n))

-----------------------------------------------------------------------------
(* Parts that do not run keep the other temporal properties where they     *)
(* stand; a signal that is never reported is not.                          *)

(* PhaseShownInTheEnd, of the critical SPaT consumer.                      *)
PhaseReachesVehicles == part = "spat" => PhaseShownInTheEnd
=============================================================================
