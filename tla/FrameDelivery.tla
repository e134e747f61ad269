----------------------------- MODULE FrameDelivery -----------------------------
(***************************************************************************)
(* What a sensor consumer promises of each message of its stream,          *)
(* whatever it does with buffers, batches and redelivery: a message waits, *)
(* is held in memory, and ends delivered or discarded, once and for all.   *)
(* A message that could be delivered is discarded only after a failure.    *)
(***************************************************************************)
EXTENDS Integers

CONSTANTS
  Msgs,      \* messages of the stream
  Useless    \* those that cannot be decoded or are of no use

VARIABLES
  fate,      \* of each message: "unsent", "waiting", "held", "done", "gone"
  failed     \* something has failed

fateVars == <<fate, failed>>

DeliveryInit == fate = [m \in Msgs |-> "unsent"] /\ failed = FALSE

Move(ms, to) == fate' = [m \in Msgs |-> IF m \in ms THEN to ELSE fate[m]]

In(state) == {m \in Msgs : fate[m] = state}

Send == \E m \in In("unsent") : Move({m}, "waiting") /\ UNCHANGED failed

Hold == \E m \in In("waiting") : Move({m}, "held") /\ UNCHANGED failed

Refuse == \E ms \in SUBSET (In("waiting") \cap Useless) :
            Move(ms, "gone") /\ UNCHANGED failed

(* What is held is delivered together, and the next message may be held.   *)
Deliver ==
  /\ \E ms \in SUBSET In("held"), next \in SUBSET In("waiting") :
       fate' = [m \in Msgs |-> CASE m \in ms -> "done" [] m \in next -> "held"
                                 [] OTHER -> fate[m]]
  /\ UNCHANGED failed

(* A failure: what was held is lost or goes back to waiting, and what was  *)
(* about to be taken up is lost.                                           *)
Fail ==
  /\ failed' = TRUE
  /\ \E lost \in SUBSET (In("held") \cup In("waiting")) :
     \E back \in SUBSET (In("held") \ lost) :
       fate' = [m \in Msgs |-> CASE m \in lost -> "gone" [] m \in back -> "waiting"
                                 [] OTHER -> fate[m]]

(* Once something has failed, a message may come back too late.            *)
ComesTooLate ==
  /\ failed
  /\ \E ms \in SUBSET In("waiting") : Move(ms, "gone")
  /\ UNCHANGED failed

DeliveryNext == Send \/ Hold \/ Refuse \/ Deliver \/ Fail \/ ComesTooLate

DeliverySpec == DeliveryInit /\ [][DeliveryNext]_fateVars
=============================================================================
