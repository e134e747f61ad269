-------------------------- MODULE MCClientRegistry --------------------------
(***************************************************************************)
(* The client registry on two instances of one run.  Failures and          *)
(* overlapping requests multiply, so a behaviour has one of the two:       *)
(*                                                                         *)
(*   "faults"  two clients, one connection, and up to MaxFaults failures   *)
(*   "races"   one client, all its connections and no failure; a broadcast *)
(*             does not overlap a second location request                  *)
(*                                                                         *)
(* Only who opens a socket, who broadcasts, who sends locations and what   *)
(* fails is restricted, of which no fairness is assumed.                   *)
(***************************************************************************)
EXTENDS ClientRegistry

CONSTANTS
  FirstClient,  \* the client of the part without failures
  FirstConn     \* the connection of the part with them

VARIABLE part

MCInit == Init /\ part \in {"faults", "races"}

FaultsStep ==
  /\ \A c \in Conns \ {FirstConn} : socket'[c] = "none"
  /\ caster' = caster

RacesStep ==
  /\ faults' = 0
  /\ \A cl \in Clients \ {FirstClient} :
       inflight'[cl] = {} /\ \A c \in Conns : owner'[c] # cl
  /\ posts' <= 1 \/ \A s \in Broadcasters : caster'[s].pc = "idle"

MCNext ==
  /\ Next
  /\ IF part = "faults" THEN FaultsStep ELSE RacesStep
  /\ UNCHANGED part

MCSpec == MCInit /\ [][MCNext]_<<vars, part>> /\ Fairness
=============================================================================
