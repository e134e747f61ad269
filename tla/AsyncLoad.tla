------------------------------ MODULE AsyncLoad ------------------------------
(***************************************************************************)
(* One independently loading value of the admin console:                   *)
(* admin-console/src/composables/useAsyncValue.ts.  Every page that lists  *)
(* something (clusters, services, sensors, buckets, tokens, ...) reads it   *)
(* through this composable.                                                *)
(*                                                                         *)
(* A reload() aborts the request before it, arms ONE shared timer and      *)
(* awaits the loader.  The code after the await runs later, in an order    *)
(* the replies decide; each such continuation is an action of its own.     *)
(***************************************************************************)
EXTENDS Integers

CONSTANTS Reloads      \* bound: how often the value is asked for
ASSUME ReloadsAssumption == Reloads \in Nat \ {0}

VARIABLES
    fetches,     \* per reload: unsent, open, answered, refused, aborted, over
    controller,  \* the reload the shared abort controller belongs to; 0 before
    timer,       \* the reload the armed timer was set for; 0 when cleared
    timedOut,    \* the reloads whose own timedOut flag is set
    shown,       \* state: loading, ready, error or timeout
    content,     \* data: the reload it came from; 0 for null
    disposed     \* the page was left

loadVars == <<fetches, controller, timer, timedOut, shown, content, disposed>>

Fetch == 1..Reloads

LoadInit ==
    /\ fetches = [n \in Fetch |-> "unsent"]
    /\ controller = 0
    /\ timer = 0
    /\ timedOut = {}
    /\ shown = "loading"
    /\ content = 0
    /\ disposed = FALSE

\* fetches with the request in flight, if there is one, aborted.
Aborted == [n \in Fetch |->
              IF n = controller /\ fetches[n] = "open" THEN "aborted" ELSE fetches[n]]

\* reload(): supersede, re-arm, show the spinner, call the loader.
Reload ==
    /\ ~disposed
    /\ controller < Reloads
    /\ controller' = controller + 1
    /\ fetches' = [Aborted EXCEPT ![controller + 1] = "open"]
    /\ timer' = controller + 1
    /\ shown' = "loading"
    /\ UNCHANGED <<timedOut, content, disposed>>

\* The server answers, or the request fails.  A silent server never does.
Respond(n, how) ==
    /\ fetches[n] = "open"
    /\ fetches' = [fetches EXCEPT ![n] = how]
    /\ UNCHANGED <<controller, timer, timedOut, shown, content, disposed>>

\* The timer's callback aborts the request it was armed for.
TimerFires ==
    /\ timer # 0
    /\ timedOut' = timedOut \cup {timer}
    /\ fetches' = [fetches EXCEPT ![timer] = IF @ = "open" THEN "aborted" ELSE @]
    /\ timer' = 0
    /\ UNCHANGED <<controller, shown, content, disposed>>

\* A superseded request, or one of a page that was left, says nothing.
MutSpeaks(n) == ~disposed
Speaks(n) == n = controller /\ ~disposed

\* What the code after the await leaves on the page.
Settled(n) ==
    CASE fetches[n] = "answered" -> "ready"
      [] n \in timedOut /\ fetches[n] # "answered" -> "timeout"
      [] OTHER -> "error"

\* The continuation of request n, its finally block included: clearTimer()
\* clears whatever timer is armed, n's own or another request's.
Continue(n) ==
    /\ fetches[n] \in {"answered", "refused", "aborted"}
    /\ IF Speaks(n)
       THEN /\ shown' = Settled(n)
            /\ content' = IF fetches[n] = "answered" THEN n ELSE content
       ELSE UNCHANGED <<shown, content>>
    /\ fetches' = [fetches EXCEPT ![n] = "over"]
    /\ timer' = 0
    /\ UNCHANGED <<controller, timedOut, disposed>>

\* onScopeDispose.
Dispose ==
    /\ ~disposed
    /\ disposed' = TRUE
    /\ fetches' = Aborted
    /\ timer' = 0
    /\ UNCHANGED <<controller, timedOut, shown, content>>

LoadNext ==
    \/ Reload
    \/ TimerFires
    \/ Dispose
    \/ \E n \in Fetch : Continue(n) \/ \E how \in {"answered", "refused"} : Respond(n, how)

LoadSpec == LoadInit /\ [][LoadNext]_loadVars

\* Timers fire and settled promises run; nothing makes a server answer.
LoadFairSpec ==
    LoadSpec /\ WF_loadVars(TimerFires) /\ \A n \in Fetch : WF_loadVars(Continue(n))

-----------------------------------------------------------------------------

\* The variables have their types.
LoadTypeOK ==
    /\ fetches \in [Fetch -> {"unsent", "open", "answered", "refused", "aborted", "over"}]
    /\ controller \in 0..Reloads
    /\ timer \in 0..Reloads
    /\ timedOut \subseteq Fetch
    /\ shown \in {"loading", "ready", "error", "timeout"}
    /\ content \in 0..Reloads
    /\ disposed \in BOOLEAN

\* What the page shows is the outcome of its newest request: ready means the
\* newest answer, and neither an error nor a timeout of a request that was
\* superseded is ever put over a newer one ("a fast reload cannot be
\* overwritten by a slow earlier response landing afterwards", 63-64).
NewestWins ==
    /\ shown = "ready" => content = controller
    /\ shown # "loading" => fetches[controller] = "over"
    /\ shown = "timeout" => controller \in timedOut

\* A request that was made is given up on in the end ("how long to wait before
\* giving up and reporting a timeout", 17): the spinner does not turn for ever.
LoadSettles == (shown = "loading" /\ controller # 0) ~> (shown # "loading" \/ disposed)

\* What a page shows of a value that loads by itself.
LoadSafety == LoadTypeOK /\ NewestWins
=============================================================================
