---------------------------- MODULE CommandChannel ----------------------------
(***************************************************************************)
(* What the Valkey client promises its callers: commands are settled in    *)
(* the order they were sent, each once, each with its own answer or with   *)
(* an error, and every one of them in the end.                             *)
(***************************************************************************)
EXTENDS Integers

CONSTANT Calls     \* commands are numbered 1..Calls as they are sent

VARIABLES
  called,   \* commands sent so far
  outcome   \* of each: "none", "answer" (its own) or "error"

channelVars == <<called, outcome>>

ChannelInit == called = 0 /\ outcome = [c \in 1..Calls |-> "none"]

Call == called < Calls /\ called' = called + 1 /\ UNCHANGED outcome

Settle(c) ==
  /\ c <= called /\ outcome[c] = "none"
  /\ \A b \in 1..(c - 1) : outcome[b] # "none"
  /\ \E o \in {"answer", "error"} : outcome' = [outcome EXCEPT ![c] = o]
  /\ UNCHANGED called

SettleOne == \E c \in 1..Calls : Settle(c)

ChannelNext == Call \/ SettleOne

ChannelSpec == ChannelInit /\ [][ChannelNext]_channelVars /\ WF_channelVars(SettleOne)
=============================================================================
