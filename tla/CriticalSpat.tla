----------------------------- MODULE CriticalSpat -----------------------------
(***************************************************************************)
(* functions/critical-spat-sns-consumer: of the SPaT messages of an        *)
(* intersection (10 Hz), those that change something are broadcast.  SNS   *)
(* invokes a container for each message, so messages overlap and overtake. *)
(* What was broadcast last is remembered in Valkey; it is read with one    *)
(* command and written with another, before the broadcast is tried.        *)
(*                                                                         *)
(* Times are J2735 time marks: they count from the top of the hour.        *)
(***************************************************************************)
EXTENDS Integers, FiniteSets

CONSTANTS
  Invocations,   \* that can run at a time
  Phases,        \* eventState
  Hour,          \* length of an hour
  Threshold,     \* _TIMING_CHANGE_THRESHOLD_TENTHS
  TimingWindow,  \* _TIMING_CHECK_WINDOW_TENTHS
  SignalChanges, \* bound: changes of the signal
  SpatFaults     \* bound: failing calls

ASSUME SpatConstants ==
  /\ Hour \in Nat \ {0} /\ {Threshold, TimingWindow} \subseteq Nat
  /\ SignalChanges \in Nat /\ SpatFaults \in Nat /\ Phases # {}

VARIABLES
  signal,      \* what the controller does: phase and minEndTime
  clock,       \* the time within the hour
  prev,        \* Valkey: the message broadcast last, until it expires (300 s)
  invocation,  \* per container: the message, and how far it has come
  displayed,       \* what the vehicles near were told last
  signalChanges, spatFaults,
  overlapped   \* history: two invocations have run at a time

spatVars == <<signal, clock, prev, invocation, displayed, signalChanges, spatFaults, overlapped>>

States  == [phase : Phases, end : 0..(Hour - 1)]
NoEffect == [phase |-> "none"]
Waiting == [pc |-> "idle"]

SpatTypeOK ==
  /\ signal \in States /\ clock \in 0..(Hour - 1)
  /\ prev \in States \cup {NoEffect} /\ displayed \in States \cup {NoEffect}
  /\ invocation \in [Invocations -> {Waiting}
       \cup [pc : {"get"}, spat : States, at : 0..(Hour - 1)]
       \cup [pc : {"set", "send"}, spat : States]]
  /\ signalChanges \in 0..SignalChanges /\ spatFaults \in 0..SpatFaults
  /\ overlapped \in BOOLEAN

SpatInit ==
  /\ signal \in States /\ clock = 0 /\ prev = NoEffect /\ displayed = NoEffect
  /\ invocation = [i \in Invocations |-> Waiting]
  /\ signalChanges = 0 /\ spatFaults = 0 /\ overlapped = FALSE

SpatFault == spatFaults < SpatFaults /\ spatFaults' = spatFaults + 1

-----------------------------------------------------------------------------
(* _remaining_tenths and _has_significant_change                           *)

Remaining(spat, at) == spat.end - at

Apart(a, b) == IF a > b THEN a - b ELSE b - a

TimingShift(old, new, at) ==
  /\ Remaining(new, at) > 0 /\ Remaining(new, at) <= TimingWindow
  /\ Apart(new.end, old.end) > Threshold

Significant(old, new, at) ==
  old = NoEffect \/ old.phase # new.phase \/ TimingShift(old, new, at)

-----------------------------------------------------------------------------
(* The handler                                                             *)

Moves(i, to) == invocation' = [invocation EXCEPT ![i] = to]

(* SNS delivers a message: what the signal does now.                       *)
Deliver(i) ==
  /\ invocation[i] = Waiting
  /\ Moves(i, [pc |-> "get", spat |-> signal, at |-> clock])
  /\ overlapped' = (overlapped \/ \E j \in Invocations : invocation[j] # Waiting)
  /\ UNCHANGED <<signal, clock, prev, displayed, signalChanges, spatFaults>>

At(i, pc) == invocation[i].pc = pc

Critical(i) == Significant(prev, invocation[i].spat, invocation[i].at)

SetPrevNext(i) == [pc |-> "set", spat |-> invocation[i].spat]

(* Mutant: the last message seen is remembered, broadcast or not.          *)
MutGetPrev(i) ==
  /\ At(i, "get")
  /\ Moves(i, IF Critical(i) THEN SetPrevNext(i) ELSE Waiting)
  /\ prev' = invocation[i].spat
  /\ UNCHANGED <<signal, clock, displayed, signalChanges, spatFaults, overlapped>>

(* GET and compare; a failing GET reads as nothing.                        *)
GetPrev(i) ==
  /\ At(i, "get")
  /\ \/ Moves(i, IF Critical(i) THEN SetPrevNext(i) ELSE Waiting) /\ UNCHANGED spatFaults
     \/ SpatFault /\ Moves(i, SetPrevNext(i))
  /\ UNCHANGED <<signal, clock, prev, displayed, signalChanges, overlapped>>

SetPrev(i) ==
  /\ At(i, "set")
  /\ Moves(i, [invocation[i] EXCEPT !.pc = "send"])
  /\ \/ prev' = invocation[i].spat /\ UNCHANGED spatFaults
     \/ SpatFault /\ UNCHANGED prev
  /\ UNCHANGED <<signal, clock, displayed, signalChanges, overlapped>>

(* The configuration is loaded and radiusBroadcastLambda invoked.  An      *)
(* error is logged, and prev says the message has been broadcast.          *)
Broadcast(i) ==
  /\ At(i, "send")
  /\ Moves(i, Waiting)
  /\ \/ displayed' = invocation[i].spat /\ UNCHANGED spatFaults
     \/ SpatFault /\ UNCHANGED displayed
  /\ UNCHANGED <<signal, clock, prev, signalChanges, overlapped>>

-----------------------------------------------------------------------------
(* The world                                                               *)

ChangeSignal ==
  /\ signalChanges < SignalChanges /\ signalChanges' = signalChanges + 1
  /\ signal' \in States \ {signal}
  /\ UNCHANGED <<clock, prev, invocation, displayed, spatFaults, overlapped>>

Pass ==
  /\ clock' = (clock + 1) % Hour
  /\ UNCHANGED <<signal, prev, invocation, displayed, signalChanges, spatFaults, overlapped>>

(* Mutant: SET without EX, which never expires.                            *)
MutExpire ==
  /\ prev = NoEffect /\ prev' = NoEffect
  /\ UNCHANGED <<signal, clock, invocation, displayed, signalChanges, spatFaults, overlapped>>

(* 300 s after the last SET.                                               *)
Expire ==
  /\ prev # NoEffect /\ prev' = NoEffect
  /\ UNCHANGED <<signal, clock, invocation, displayed, signalChanges, spatFaults, overlapped>>

-----------------------------------------------------------------------------
Handle(i) == GetPrev(i) \/ SetPrev(i) \/ Broadcast(i)

SpatNext ==
  \/ \E i \in Invocations : Deliver(i) \/ Handle(i)
  \/ ChangeSignal
  \/ Pass
  \/ Expire

SpatSpec == SpatInit /\ [][SpatNext]_spatVars

(* Messages keep coming, handlers end, keys expire.                        *)
SpatFairness ==
  /\ \A i \in Invocations : WF_spatVars(Deliver(i)) /\ WF_spatVars(Handle(i))
  /\ WF_spatVars(Expire)

SpatFairSpec == SpatSpec /\ SpatFairness
-----------------------------------------------------------------------------
(* PROPERTIES                                                              *)

Close(old, new) ==
  old # NoEffect /\ old.phase = new.phase /\ Apart(old.end, new.end) <= Threshold

(* The phase will end within the hour it is reported in, and soon.         *)
EndsSoon(spat, at) == Remaining(spat, at) \in 1..TimingWindow

(* A message is held back only when the vehicles have been told so much,   *)
(* to within the threshold: small shifts do not add up.  While messages    *)
(* are handled one at a time and nothing fails.                            *)
HeldBackIsKnown ==
  [][\A i \in Invocations :
       (GetPrev(i) /\ invocation'[i] = Waiting /\ ~overlapped /\ spatFaults = 0) =>
         LET spat == invocation[i].spat
         IN /\ displayed # NoEffect /\ displayed.phase = spat.phase
            /\ EndsSoon(spat, invocation[i].at) => Close(displayed, spat)]_spatVars

(* Whatever was overtaken or failed, vehicles are told the phase of a      *)
(* signal that stays as it is: what is remembered wrongly expires.         *)
PhaseShownInTheEnd == <>[](displayed # NoEffect /\ displayed.phase = signal.phase)

=============================================================================
