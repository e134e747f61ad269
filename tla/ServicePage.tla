----------------------------- MODULE ServicePage -----------------------------
(***************************************************************************)
(* The page of one microservice: admin-console/src/pages/                  *)
(* MicroservicePage.vue.  It reads four things on their own clocks - the    *)
(* status (polled while a launch or build moves), the capacity, one of two  *)
(* logs and the history - and each reply is handled after an await, by      *)
(* which time the route, the tab or the log source may have changed.        *)
(*                                                                         *)
(* The page is reused when the route goes from one service to another       *)
(* (the watch on name), so a request outlives the service it was for.  The  *)
(* status endpoint also advances a launch whose build has landed            *)
(* (MicroserviceLaunch models that half), so a poll changes the server.     *)
(***************************************************************************)
EXTENDS Integers, FiniteSets

CONSTANTS
    Services,      \* the services whose pages can be opened
    Calls,         \* bound: no new visit or click with this many requests out
    Visits,        \* bound: navigations from one service to another
    Refreshes,     \* bound: clicks on refresh, tab and source switches
    LostReads      \* bound: requests that fail

ASSUME ServicePageAssumption ==
    /\ Services # {} /\ "" \notin Services
    /\ Calls \in Nat
    /\ Visits \in Nat /\ Refreshes \in Nat /\ LostReads \in Nat

VARIABLES
    launch,      \* server: per service idle, building, built or running
    name,        \* route.params.name; "" once the page was left
    tab, source, \* the open tab and logSource
    status,      \* the service status.value is about and its launch state
    capacity,    \* the service whose cluster and health are shown
    logs,        \* the service and source of the lines shown
    history,     \* the service whose events are shown
    polling,     \* statusTimer is armed
    tailing,     \* logTimer is armed
    wire,        \* the requests in flight, each with its answer once served
    visited, refreshed, lost   \* ghosts: what was spent of the bounds

view == <<name, tab, source, status, capacity, logs, history, polling, tailing>>
spent == <<visited, refreshed, lost>>
pageVars == <<launch, view, wire, spent>>

Nobody == ""
Nothing == [of |-> Nobody]

\* launchInFlight and buildRunning, of what the page has read.
Moving(state) == state \in {"building", "built"}
ShowsMoving == status # Nothing /\ Moving(status.at)

\* A request about service s; an unserved one has no answer yet.
Request(kind, s, src) == [kind |-> kind, of |-> s, from |-> src, answer |-> "none"]

\* loadCapacity: nothing to ask without a service, and then nothing to show.
\* (A service always has a cluster name here.)
CapacityRequest(read) ==
    IF read = Nothing THEN {} ELSE {Request("capacity", read.of, "container")}

PageInit ==
    /\ launch = [s \in Services |-> "idle"]
    /\ name \in Services
    /\ tab = "overview" /\ source = "container"
    /\ status = Nothing /\ capacity = Nobody /\ logs = Nothing /\ history = Nobody
    /\ polling = FALSE /\ tailing = FALSE
    /\ wire = {Request("open", name, "container")}
    /\ visited = 0 /\ refreshed = 0 /\ lost = 0

-----------------------------------------------------------------------------
(* The server.                                                             *)

\* A launch begins: from this page, another console, a push or MCP.
LaunchBegins(s) ==
    /\ launch[s] \in {"idle", "running"}
    /\ launch' = [launch EXCEPT ![s] = "building"]
    /\ UNCHANGED <<view, wire, spent>>

\* CodeBuild finishes.  Nothing records it until a status read looks.
BuildLands(s) ==
    /\ launch[s] = "building"
    /\ launch' = [launch EXCEPT ![s] = "built"]
    /\ UNCHANGED <<view, wire, spent>>

\* A request is served: a status read deploys a launch whose build landed.
ReadsStatus(q) == q.kind \in {"open", "status"}
Served(q) ==
    /\ q.answer = "none"
    /\ LET after == IF ReadsStatus(q) /\ launch[q.of] = "built" THEN "running" ELSE launch[q.of]
       IN /\ launch' = [launch EXCEPT ![q.of] = after]
          /\ wire' = (wire \ {q}) \cup {[q EXCEPT !.answer = after]}
    /\ UNCHANGED <<view, spent>>

\* A request fails on its way, before or after it was served.
ReadLost(q) ==
    /\ q.answer # "lost"
    /\ lost < LostReads
    /\ lost' = lost + 1
    /\ wire' = (wire \ {q}) \cup {[q EXCEPT !.answer = "lost"]}
    /\ UNCHANGED <<launch, view, visited, refreshed>>

-----------------------------------------------------------------------------
(* Asking.                                                                 *)

\* The watch on name: the page is wiped and the new service's status is read.
GoTo(s) ==
    /\ name # Nobody /\ s # name
    /\ visited < Visits /\ Cardinality(wire) < Calls
    /\ visited' = visited + 1
    /\ name' = s
    /\ status' = Nothing /\ capacity' = Nobody /\ logs' = Nothing /\ history' = Nobody
    /\ polling' = FALSE /\ tailing' = FALSE
    /\ wire' = wire \cup {Request("open", s, source)}
    /\ UNCHANGED <<launch, tab, source, refreshed, lost>>

LeavePage ==
    /\ name # Nobody
    /\ name' = Nobody
    /\ polling' = FALSE /\ tailing' = FALSE
    /\ UNCHANGED <<launch, tab, source, status, capacity, logs, history, wire, spent>>

\* The timer of the poll: the same read, quietly.
MutPoll ==
    /\ polling /\ tab = "overview"
    /\ polling' = FALSE
    /\ wire' = wire \cup {Request("status", name, source)}
    /\ UNCHANGED <<launch, name, tab, source, status, capacity, logs, history, tailing, spent>>

Poll ==
    /\ polling
    /\ polling' = FALSE
    /\ wire' = wire \cup {Request("status", name, source)}
    /\ UNCHANGED <<launch, name, tab, source, status, capacity, logs, history, tailing, spent>>

\* A build's log follows itself.
TailLogs ==
    /\ tailing
    /\ tailing' = FALSE
    /\ wire' = wire \cup {Request("logs", name, source)}
    /\ UNCHANGED <<launch, name, tab, source, status, capacity, logs, history, polling, spent>>

Clicks ==
    /\ name # Nobody
    /\ refreshed < Refreshes /\ Cardinality(wire) < Calls
    /\ refreshed' = refreshed + 1

\* refreshAll, which also follows every action taken from the page.
Refresh ==
    /\ Clicks
    /\ wire' = wire \cup {Request("status", name, source)} \cup CapacityRequest(status)
                   \cup {q \in {Request("logs", name, source)} : tab = "logs"}
    /\ capacity' = IF status = Nothing THEN Nobody ELSE capacity
    /\ UNCHANGED <<launch, name, tab, source, status, logs, history, polling, tailing, visited, lost>>

\* The watch on tab: each tab fetches its own material when first opened, and
\* leaving the logs stops their poll.
OpenTab(t) ==
    /\ Clicks
    /\ t # tab
    /\ tab' = t
    /\ tailing' = (tailing /\ t = "logs")
    /\ wire' = wire \cup
         CASE t = "logs" /\ logs = Nothing -> {Request("logs", name, source)}
           [] t = "capacity" /\ capacity = Nobody -> CapacityRequest(status)
           [] t = "history" /\ history = Nobody -> {Request("history", name, source)}
           [] OTHER -> {}
    /\ UNCHANGED <<launch, name, source, status, capacity, logs, history, polling, visited, lost>>

\* The watch on logSource.
SwitchSource ==
    /\ Clicks
    /\ tab = "logs"
    /\ source' = IF source = "build" THEN "container" ELSE "build"
    /\ logs' = Nothing
    /\ wire' = wire \cup {Request("logs", name, source')}
    /\ UNCHANGED <<launch, name, tab, status, capacity, history, polling, tailing, visited, lost>>

-----------------------------------------------------------------------------
(* Replies: the code after each await.                                     *)

Answered(q, kinds) == q.kind \in kinds /\ q.answer \notin {"none", "lost"}
Failed(q, kinds) == q.kind \in kinds /\ q.answer = "lost"

\* name.value !== requested: the reply is for a page no longer open.
MutWanted(q) == TRUE
Wanted(q) == q.of = name

\* The read that opened the page is followed by loadCapacity, whatever came of it.
ThenCapacity(q, read) ==
    /\ capacity' = IF q.kind = "open" /\ read = Nothing THEN Nobody ELSE capacity
    /\ wire' = (wire \ {q}) \cup
                 {r \in CapacityRequest(read) : q.kind = "open"} \cup
                 {r \in {Request("history", name, source)} :
                    status # Nothing /\ read # Nothing /\ status.at # read.at /\ history # Nobody}

\* loadStatus: the status, the next poll, and the history when the launch moved
\* and it was opened before.
StatusArrives(q) ==
    /\ Answered(q, {"open", "status"})
    /\ IF Wanted(q)
       THEN /\ status' = [of |-> q.of, at |-> q.answer]
            /\ polling' = Moving(q.answer)
       ELSE UNCHANGED <<status, polling>>
    /\ ThenCapacity(q, status')
    /\ UNCHANGED <<launch, name, tab, source, logs, history, tailing, spent>>

\* The catch of loadStatus shows the error; it arms no further poll.
StatusFails(q) ==
    /\ Failed(q, {"open", "status"})
    /\ ThenCapacity(q, status)
    /\ UNCHANGED <<launch, name, tab, source, status, logs, history, polling, tailing, spent>>

\* loadCapacity: the one reply that is not compared with the route.
CapacityArrives(q) ==
    /\ Answered(q, {"capacity"})
    /\ capacity' = q.of
    /\ wire' = wire \ {q}
    /\ UNCHANGED <<launch, name, tab, source, status, logs, history, polling, tailing, spent>>

\* requested.name and requested.source against what is selected now.
StillSelected(q) == Wanted(q) /\ q.from = source

LogsArrive(q) ==
    /\ Answered(q, {"logs"})
    /\ wire' = wire \ {q}
    /\ IF StillSelected(q)
       THEN /\ logs' = [of |-> q.of, from |-> q.from]
            /\ tailing' = (tab = "logs" /\ source = "build" /\ ShowsMoving)
       ELSE UNCHANGED <<logs, tailing>>
    /\ UNCHANGED <<launch, name, tab, source, status, capacity, history, polling, spent>>

\* A failed log read of this service clears the lines, whichever source it was.
LogsFail(q) ==
    /\ Failed(q, {"logs"})
    /\ wire' = wire \ {q}
    /\ logs' = IF Wanted(q) THEN Nothing ELSE logs
    /\ UNCHANGED <<launch, name, tab, source, status, capacity, history, polling, tailing, spent>>

HistoryArrives(q) ==
    /\ Answered(q, {"history"})
    /\ wire' = wire \ {q}
    /\ history' = IF Wanted(q) THEN q.of ELSE history
    /\ UNCHANGED <<launch, name, tab, source, status, capacity, logs, polling, tailing, spent>>

\* A capacity or history read that fails shows an error and changes no value.
OtherFails(q) ==
    /\ Failed(q, {"capacity", "history"})
    /\ wire' = wire \ {q}
    /\ UNCHANGED <<launch, view, spent>>

Replies(q) ==
    \/ StatusArrives(q) \/ StatusFails(q) \/ CapacityArrives(q)
    \/ LogsArrive(q) \/ LogsFail(q) \/ HistoryArrives(q) \/ OtherFails(q)

AnyServed == \E q \in wire : Served(q)
AnyReply == \E q \in wire : Replies(q)

PageNext ==
    \/ \E s \in Services : LaunchBegins(s) \/ BuildLands(s) \/ GoTo(s)
    \/ AnyServed \/ AnyReply \/ \E q \in wire : ReadLost(q)
    \/ \E t \in {"overview", "logs", "capacity", "history"} : OpenTab(t)
    \/ LeavePage \/ Poll \/ TailLogs \/ Refresh \/ SwitchSource

PageSpec == PageInit /\ [][PageNext]_pageVars

\* Builds end, requests are answered, replies are handled, timers fire.
PageFairSpec ==
    /\ PageSpec
    /\ WF_pageVars(Poll) /\ WF_pageVars(TailLogs)
    /\ \A s \in Services : WF_pageVars(BuildLands(s))
    /\ WF_pageVars(AnyServed) /\ WF_pageVars(AnyReply)

-----------------------------------------------------------------------------

\* The variables have their types.
PageTypeOK ==
    /\ launch \in [Services -> {"idle", "building", "built", "running"}]
    /\ name \in Services \cup {Nobody}
    /\ tab \in {"overview", "logs", "capacity", "history"}
    /\ source \in {"container", "build"}
    /\ status = Nothing \/ status.of \in Services
    /\ capacity \in Services \cup {Nobody} /\ history \in Services \cup {Nobody}
    /\ logs = Nothing \/ logs.of \in Services
    /\ polling \in BOOLEAN /\ tailing \in BOOLEAN
    /\ \A q \in wire : q.of \in Services /\ q.kind \in {"open", "status", "capacity", "logs", "history"}

\* While a page is open, its status, log lines and history are those of the
\* service in the address bar and of the log chosen, whatever order the
\* replies of earlier services and sources come in (loadStatus, loadLogs and
\* loadEvents compare what they asked for with what is selected).
ShownIsSelected ==
    name # Nobody =>
      /\ status # Nothing => status.of = name
      /\ logs # Nothing => logs.of = name /\ logs.from = source
      /\ history \in {name, Nobody}

\* A page that was left asks for nothing more: no timer survives it and no
\* late reply arms one (onBeforeUnmount).
LeftIsQuiet == name = Nobody => ~polling /\ ~tailing

\* A launch that an open page shows in flight is shown to its end, or the page
\* is left: the poll goes on for as long as it moves, unless a read failed.
WatchedLaunchEndsUnlessLost ==
    \A s \in Services :
      (name = s /\ ShowsMoving) ~> (name # s \/ ~ShowsMoving \/ lost > 0)

\* What the page shows, and what it still asks for.
PageSafety == PageTypeOK /\ ShownIsSelected /\ LeftIsQuiet
=============================================================================
