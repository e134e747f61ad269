----------------------------- MODULE ValkeyClient -----------------------------
(***************************************************************************)
(* shared/valkey-client.ts: the Lambdas' client for Valkey.  Commands run  *)
(* one at a time over a connection that is kept; a reply is taken to be    *)
(* that of the command in flight.  Whatever goes wrong with a socket drops *)
(* the connection that is kept, which by then may be another one.          *)
(*                                                                         *)
(* A step is one callback of the event loop: what its promises lead to     *)
(* (StartNext) runs before the next callback.                              *)
(***************************************************************************)
EXTENDS Integers, Sequences, FiniteSets

CONSTANTS
  Commands,      \* sent in a behaviour, numbered in order
  SocketFaults,  \* bound: sockets that die, time out or do not connect
  GarbledReplies \* bound: replies the parser raises on

ASSUME ClientConstants == {Commands, SocketFaults, GarbledReplies} \subseteq Nat

VARIABLES
  sent,          \* commands handed to sendValkeyCommand
  running,       \* the command whose operation runs, 0 if none
  kept,          \* valkeyConnectionPromise: a connection, 0 if null
  conn,          \* the connections made so far
  result,        \* what each command was settled with
  socketFaults, garbledReplies

clientVars == <<sent, running, kept, conn, result, socketFaults, garbledReplies>>

Cmds    == 1..Commands
Garbled == 0    \* what cannot be read, among replies
Rejected  == 0    \* an error, among results
Open    == -1   \* not settled

ClientTypeOK ==
  /\ sent \in 0..Commands /\ running \in 0..sent
  /\ kept \in 0..Len(conn) /\ Len(conn) <= Commands
  /\ \A i \in DOMAIN conn :
       /\ conn[i].socket \in {"connecting", "open", "dead"}
       /\ conn[i].inFlight \in 0..Commands /\ {conn[i].alive, conn[i].closing} \subseteq BOOLEAN
       /\ Len(conn[i].wire) <= Commands /\ Len(conn[i].buffer) <= Commands
  /\ result \in [Cmds -> Open..Commands]
  /\ socketFaults \in 0..SocketFaults /\ garbledReplies \in 0..GarbledReplies

ClientInit ==
  /\ sent = 0 /\ running = 0 /\ kept = 0 /\ conn = <<>>
  /\ result = [c \in Cmds |-> Open] /\ socketFaults = 0 /\ garbledReplies = 0

SocketFault == socketFaults < SocketFaults /\ socketFaults' = socketFaults + 1

Queued == running < sent /\ running = 0 /\ \E c \in 1..sent : result[c] = Open

(* Callbacks wait for the queue to move on.                                *)
Callback == ~Queued

(* The command with which conn i is busy, or that waits for it to connect. *)
Holder(i) == IF conn[i].inFlight # 0 THEN conn[i].inFlight
             ELSE IF conn[i].socket = "connecting" THEN running ELSE 0

(* The holder's promise is settled with an error, if there is one.         *)
Reject(i) ==
  IF Holder(i) = 0 THEN UNCHANGED <<result, running>>
  ELSE result' = [result EXCEPT ![Holder(i)] = Rejected] /\ running' = 0

-----------------------------------------------------------------------------
(* sendValkeyCommand                                                       *)

SendCommand ==
  /\ sent < Commands /\ sent' = sent + 1
  /\ UNCHANGED <<running, kept, conn, result, socketFaults, garbledReplies>>

NewConn == [socket |-> "connecting", inFlight |-> 0, wire |-> <<>>, buffer |-> <<>>,
            alive |-> TRUE, closing |-> FALSE]

(* The command is written to the socket, and is what replies will answer.  *)
Dispatched(k, c) ==
  [k EXCEPT !.socket = "open", !.inFlight = c,
            !.wire = IF k.alive THEN Append(@, c) ELSE @]

NextCommand == CHOOSE c \in 1..sent : result[c] = Open /\ \A b \in 1..(c - 1) : result[b] # Open

(* Mutant: the connection is not kept.                                     *)
MutStartNext ==
  /\ Queued /\ running' = NextCommand
  /\ conn' = Append(conn, NewConn) /\ kept' = Len(conn) + 1
  /\ UNCHANGED <<sent, result, socketFaults, garbledReplies>>

StartNext ==
  /\ Queued /\ running' = NextCommand
  /\ IF kept = 0
     THEN conn' = Append(conn, NewConn) /\ kept' = Len(conn) + 1
     ELSE conn' = [conn EXCEPT ![kept] = Dispatched(@, NextCommand)] /\ UNCHANGED kept
  /\ UNCHANGED <<sent, result, socketFaults, garbledReplies>>

(* secureConnect: createValkeyConnection resolves, and the command that    *)
(* waits for it goes out.                                                  *)
Connected(i) ==
  /\ Callback /\ conn[i].socket = "connecting" /\ conn[i].alive
  /\ conn' = [conn EXCEPT ![i] = Dispatched(@, running)]
  /\ UNCHANGED <<sent, running, kept, result, socketFaults, garbledReplies>>

(* data: the reply is appended to the buffer; when a command is in flight  *)
(* it gets what the buffer begins with.  What cannot be read fails it, and *)
(* stays there.                                                            *)
Data(i, reply) ==
  LET buffer == Append(conn[i].buffer, reply)
      c      == conn[i].inFlight
  IN /\ conn' = [conn EXCEPT ![i].wire = Tail(@),
                   ![i].inFlight = 0,
                   ![i].buffer = IF c = 0 \/ Head(buffer) = Garbled THEN buffer ELSE Tail(buffer)]
     /\ IF c = 0 THEN UNCHANGED <<result, running>>
        ELSE /\ running' = 0
             /\ result' = [result EXCEPT ![c] = Head(buffer)]

Listens(i) == Callback /\ conn[i].socket = "open" /\ conn[i].alive /\ conn[i].wire # <<>>

(* The server answers; an error reply is an answer too.                    *)
Reply(i) ==
  /\ Listens(i) /\ Data(i, Head(conn[i].wire))
  /\ UNCHANGED <<sent, kept, socketFaults, garbledReplies>>

(* A reply that parseValkeyResponse raises on stays in the buffer: an      *)
(* error within an array, or one whose length in bytes is not its length   *)
(* in characters.                                                          *)
ReplyGarbled(i) ==
  /\ Listens(i) /\ garbledReplies < GarbledReplies /\ garbledReplies' = garbledReplies + 1
  /\ Data(i, Garbled)
  /\ UNCHANGED <<sent, kept, socketFaults>>

-----------------------------------------------------------------------------
(* What goes wrong                                                         *)

(* The server, or something on the way, drops the connection (or Lambda    *)
(* has frozen the container for too long).  The client learns later.       *)
PeerDies(i) ==
  /\ conn[i].socket # "dead" /\ conn[i].alive /\ SocketFault
  /\ conn' = [conn EXCEPT ![i].alive = FALSE, ![i].wire = <<>>]
  /\ UNCHANGED <<sent, running, kept, result, garbledReplies>>

Buried(i, closing) ==
  conn' = [conn EXCEPT ![i].socket = "dead", ![i].inFlight = 0, ![i].wire = <<>>,
                       ![i].closing = closing]

(* Mutant: the socket is left as it is.                                    *)
MutCommandTimeout(i) ==
  /\ Callback /\ conn[i].inFlight # 0 /\ SocketFault
  /\ Reject(i)
  /\ conn' = [conn EXCEPT ![i].inFlight = 0]
  /\ UNCHANGED <<sent, kept, garbledReplies>>

(* The command's timer: the socket is destroyed, the command rejected and  *)
(* the kept connection dropped.  Its close event comes later.              *)
CommandTimeout(i) ==
  /\ Callback /\ conn[i].inFlight # 0
  /\ IF conn[i].alive THEN SocketFault ELSE UNCHANGED socketFaults
  /\ Reject(i) /\ Buried(i, TRUE) /\ kept' = 0
  /\ UNCHANGED <<sent, garbledReplies>>

ConnectTimeout(i) ==
  /\ Callback /\ conn[i].socket = "connecting"
  /\ IF conn[i].alive THEN SocketFault ELSE UNCHANGED socketFaults
  /\ Reject(i) /\ Buried(i, TRUE) /\ kept' = 0
  /\ UNCHANGED <<sent, garbledReplies>>

(* error, which close follows, or close alone; also the write's callback.  *)
SocketError(i) ==
  /\ Callback /\ conn[i].socket # "dead" /\ ~conn[i].alive
  /\ \E closing \in BOOLEAN : Buried(i, closing)
  /\ Reject(i) /\ kept' = 0
  /\ UNCHANGED <<sent, socketFaults, garbledReplies>>

(* close of a socket that was given up: it drops whatever is kept by now.  *)
CloseEvent(i) ==
  /\ Callback /\ conn[i].closing
  /\ conn' = [conn EXCEPT ![i].closing = FALSE]
  /\ kept' = 0
  /\ UNCHANGED <<sent, running, result, socketFaults, garbledReplies>>

-----------------------------------------------------------------------------
(* What the event loop is certain to do: a silent peer is noticed by the   *)
(* timers at the latest.                                                   *)
LoopStep(i) ==
  \/ Connected(i) \/ Reply(i) \/ CloseEvent(i)
  \/ (~conn[i].alive /\ (CommandTimeout(i) \/ ConnectTimeout(i)))

ClientNext ==
  \/ SendCommand
  \/ StartNext
  \/ \E i \in DOMAIN conn :
       \/ Connected(i) \/ Reply(i) \/ ReplyGarbled(i) \/ PeerDies(i)
       \/ CommandTimeout(i) \/ ConnectTimeout(i) \/ SocketError(i) \/ CloseEvent(i)

ClientSpec == ClientInit /\ [][ClientNext]_clientVars

ClientFairness ==
  /\ WF_clientVars(StartNext)
  /\ \A i \in Cmds : WF_clientVars(i \in DOMAIN conn /\ LoopStep(i))

ClientFairSpec == ClientSpec /\ ClientFairness
-----------------------------------------------------------------------------
(* PROPERTIES                                                              *)

(* The outcome of each command, as CommandChannel tells it.                *)
Outcome ==
  [c \in Cmds |-> CASE result[c] = Open -> "none" [] result[c] = c -> "answer"
                    [] result[c] = Rejected -> "error" [] OTHER -> "of another"]

Channel == INSTANCE CommandChannel WITH Calls <- Commands, called <- sent, outcome <- Outcome

(* Through timeouts, late replies, dying sockets and replies that cannot   *)
(* be read, no command gets the answer of another one, none overtakes      *)
(* another, and every one is settled.                                      *)
ImplementsChannel == Channel!ChannelSpec

InUse(i) == i = kept \/ Holder(i) # 0

(* A connection that is open and that nobody will use again can only have  *)
(* come from a socket that was given up: its close event dropped it.       *)
OrphansBounded ==
  Cardinality({i \in DOMAIN conn : conn[i].socket # "dead" /\ ~InUse(i)})
    <= Cardinality({i \in DOMAIN conn : conn[i].socket = "dead"})

(* No connection is left open without a user but where a socket died.      *)
ClientSafety == ClientTypeOK /\ OrphansBounded
=============================================================================
