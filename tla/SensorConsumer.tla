---------------------------- MODULE SensorConsumer ----------------------------
(***************************************************************************)
(* services/sensor-consumer/consumer.py: the task that drains the SQS FIFO *)
(* queue of one sensor.  A frame of the sensor arrives as fragments with   *)
(* nearly the same time; they are merged in memory, and the merged frame   *)
(* is broadcast when the first fragment of a newer one is processed.       *)
(*                                                                         *)
(* Messages are acknowledged when they have been buffered, not when they   *)
(* have been broadcast.  ECS runs one task, and two while it replaces one. *)
(***************************************************************************)
EXTENDS Integers, Sequences, FiniteSets, SequencesExt

CONSTANTS
  Messages,       \* 1..n, in the order the sensor publishes them
  Ts,             \* Ts[m]: sDSMTimeStamp, in units of a millisecond or so
  Window,         \* fragments this close belong together (5 ms)
  Skipped,        \* malformed messages and other types: a benign skip
  Poison,         \* messages the decoder raises on
  BatchSize,      \* MaxNumberOfMessages
  Tasks,          \* ECS tasks that can run at a time
  TaskStarts,     \* bound: tasks started in a behaviour
  ConsumerFaults  \* bound: failures

ASSUME ConsumerConstants ==
  /\ Messages \subseteq Nat /\ IsFiniteSet(Messages)
  /\ Ts \in [Messages -> Nat] /\ Window \in Nat
  /\ Skipped \subseteq Messages /\ Poison \subseteq Messages
  /\ BatchSize \in Nat \ {0} /\ Cardinality(Poison) < BatchSize
  /\ TaskStarts \in Nat /\ ConsumerFaults \in Nat

VARIABLES
  mail,       \* SQS: "unsent", "visible", "inflight", "deleted"
  task,       \* the tasks
  casts,      \* history: the frames broadcast, in order
  starts, consumerFaults,
  torn        \* history: tasks in which a broadcast has raised

consumerVars == <<mail, task, casts, starts, consumerFaults, torn>>

NoFrame == [ts |-> 0, parts |-> <<>>]
Down    == [pc |-> "down", id |-> 0, batch |-> {}, acks |-> {},
            pending |-> NoFrame, stopping |-> FALSE, expired |-> FALSE]

(* What a task keeps: its place in the loop, the messages of its batch it  *)
(* has yet to process, those it is to delete, its merge buffer, whether it *)
(* was told to stop, and whether the receipts of its batch have timed out. *)
TaskState ==
  [pc : {"down", "poll", "process", "delete"}, id : 0..TaskStarts,
   batch : SUBSET Messages, acks : SUBSET Messages,
   pending : [ts : Nat, parts : Seq(Messages)],
   stopping : BOOLEAN, expired : BOOLEAN]

ConsumerTypeOK ==
  /\ mail \in [Messages -> {"unsent", "visible", "inflight", "deleted"}]
  /\ task \in [Tasks -> TaskState]
  /\ casts \in Seq([id : 1..TaskStarts, ts : Nat, parts : Seq(Messages)])
  /\ starts \in 0..TaskStarts /\ consumerFaults \in 0..ConsumerFaults
  /\ torn \subseteq 1..TaskStarts

ConsumerInit ==
  /\ mail = [m \in Messages |-> "unsent"]
  /\ task = [t \in Tasks |-> Down]
  /\ casts = <<>> /\ starts = 0 /\ consumerFaults = 0 /\ torn = {}

ConsumerFault == consumerFaults < ConsumerFaults /\ consumerFaults' = consumerFaults + 1

-----------------------------------------------------------------------------
(* SNS and SQS FIFO (external)                                             *)

(* Published messages reach the queue once and in order.                   *)
Publish(m) ==
  /\ mail[m] = "unsent" /\ \A l \in Messages : l < m => mail[l] # "unsent"
  /\ mail' = [mail EXCEPT ![m] = "visible"]
  /\ UNCHANGED <<task, casts, starts, consumerFaults, torn>>

Visible == {m \in Messages : mail[m] = "visible"}

(* The first messages of the group: the next batch.                        *)
NextBatch == {m \in Visible : Cardinality({l \in Visible : l < m}) < BatchSize}

AtWork(t) == task[t].pc \in {"process", "delete"}

(* The visibility timeout passes: a failure while a task is still at work  *)
(* on the batch, and otherwise how a message that was not deleted returns. *)
VisibilityTimeout ==
  /\ \E m \in Messages : mail[m] = "inflight"
  /\ mail' = [m \in Messages |-> IF mail[m] = "inflight" THEN "visible" ELSE mail[m]]
  /\ task' = [t \in Tasks |-> [task[t] EXCEPT !.expired = AtWork(t)]]
  /\ IF \E t \in Tasks : AtWork(t) /\ ~task[t].expired
     THEN ConsumerFault ELSE UNCHANGED consumerFaults
  /\ UNCHANGED <<casts, starts, torn>>

-----------------------------------------------------------------------------
(* The main loop                                                           *)

(* SQS FIFO hands out nothing of a group while some of it is in flight.    *)
Receive(t) ==
  /\ task[t].pc = "poll" /\ ~task[t].stopping
  /\ NextBatch # {} /\ \A m \in Messages : mail[m] # "inflight"
  /\ task' = [task EXCEPT ![t].pc = "process", ![t].batch = NextBatch, ![t].acks = {}]
  /\ mail' = [m \in Messages |-> IF m \in NextBatch THEN "inflight" ELSE mail[m]]
  /\ UNCHANGED <<casts, starts, consumerFaults, torn>>

(* The batch is processed in the order of the group.                       *)
InTurn(t, m) ==
  /\ task[t].pc = "process" /\ m \in task[t].batch
  /\ \A l \in task[t].batch : m <= l

(* The task after it has processed message m: its buffer is p, and m is to *)
(* be deleted or not.                                                      *)
Processed(t, m, p, ok) ==
  LET rest == task[t].batch \ {m} IN
  task' = [task EXCEPT ![t].batch = rest, ![t].pending = p,
             ![t].acks = IF ok THEN @ \cup {m} ELSE @,
             ![t].pc = IF rest = {} THEN "delete" ELSE "process"]

Cast(t) == Append(casts, [id |-> task[t].id, ts |-> task[t].pending.ts,
                          parts |-> task[t].pending.parts])

Fragment(m) == [ts |-> Ts[m], parts |-> <<m>>]

(* process_message up to the decoder: the message is skipped, or raises.   *)
SkipMessage(t, m) ==
  /\ InTurn(t, m) /\ m \in Skipped \cup Poison
  /\ Processed(t, m, task[t].pending, m \notin Poison)
  /\ UNCHANGED <<mail, casts, starts, consumerFaults, torn>>

(* A fragment in its turn, with and without a frame in the buffer.         *)
Usable == Messages \ (Skipped \cup Poison)

IntoEmpty(t, m)     == InTurn(t, m) /\ m \in Usable /\ task[t].pending = NoFrame
AgainstBuffer(t, m) == InTurn(t, m) /\ m \in Usable /\ task[t].pending # NoFrame

BufferFirst(t, m) ==
  /\ IntoEmpty(t, m)
  /\ Processed(t, m, Fragment(m), TRUE)
  /\ UNCHANGED <<mail, casts, starts, consumerFaults, torn>>

Diff(t, m) == Ts[m] - task[t].pending.ts

(* The merged frame keeps the larger time.                                 *)
Merged(p, m) == [ts |-> IF Ts[m] > p.ts THEN Ts[m] ELSE p.ts, parts |-> Append(p.parts, m)]

MergeFragment(t, m) ==
  /\ AgainstBuffer(t, m) /\ Diff(t, m) <= Window /\ -Diff(t, m) <= Window
  /\ Processed(t, m, Merged(task[t].pending, m), TRUE)
  /\ UNCHANGED <<mail, casts, starts, consumerFaults, torn>>

(* Mutant: an old fragment replaces the buffer.                            *)
MutDropStale(t, m) ==
  /\ AgainstBuffer(t, m) /\ Diff(t, m) < -Window
  /\ Processed(t, m, Fragment(m), TRUE)
  /\ UNCHANGED <<mail, casts, starts, consumerFaults, torn>>

(* Older than what is buffered: dropped, and deleted from the queue.       *)
DropStale(t, m) ==
  /\ AgainstBuffer(t, m) /\ Diff(t, m) < -Window
  /\ Processed(t, m, task[t].pending, TRUE)
  /\ UNCHANGED <<mail, casts, starts, consumerFaults, torn>>

(* Mutant: the newer fragment is merged into the frame before it.          *)
MutFlushAndBuffer(t, m) ==
  /\ AgainstBuffer(t, m) /\ Diff(t, m) > Window
  /\ casts' = Cast(t)
  /\ Processed(t, m, NoFrame, TRUE)
  /\ UNCHANGED <<mail, starts, consumerFaults, torn>>

(* A newer frame begins: the buffer is broadcast, to whoever is near.      *)
FlushAndBuffer(t, m) ==
  /\ AgainstBuffer(t, m) /\ Diff(t, m) > Window
  /\ casts' = Cast(t)
  /\ Processed(t, m, Fragment(m), TRUE)
  /\ UNCHANGED <<mail, starts, consumerFaults, torn>>

(* _broadcast_pending has cleared the buffer when the app list, Valkey or  *)
(* a post raises: the frame is lost, and the message is not deleted.       *)
FlushRaises(t, m) ==
  /\ AgainstBuffer(t, m) /\ Diff(t, m) > Window /\ ConsumerFault
  /\ Processed(t, m, NoFrame, FALSE)
  /\ torn' = torn \cup {task[t].id}
  /\ UNCHANGED <<mail, casts, starts>>

(* delete_message_batch; what comes back as failed is not looked at.  A    *)
(* receipt that has timed out deletes nothing.                             *)
DeleteBatch(t) ==
  /\ task[t].pc = "delete"
  /\ LET valid == IF task[t].expired THEN {} ELSE task[t].acks IN
     \E done \in SUBSET valid :
       /\ IF done = valid THEN UNCHANGED consumerFaults ELSE ConsumerFault
       /\ mail' = [m \in Messages |-> IF m \in done THEN "deleted" ELSE mail[m]]
  /\ task' = [task EXCEPT ![t].pc = "poll", ![t].acks = {}, ![t].expired = FALSE]
  /\ UNCHANGED <<casts, starts, torn>>

-----------------------------------------------------------------------------
(* ECS                                                                     *)

(* The service starts a task when none runs, or to replace the one that    *)
(* does (a new task definition, a forced deployment).                      *)
StartTask(t) ==
  /\ task[t].pc = "down" /\ starts < TaskStarts
  /\ starts' = starts + 1
  /\ task' = [task EXCEPT ![t] = [Down EXCEPT !.pc = "poll", !.id = starts + 1]]
  /\ UNCHANGED <<mail, casts, consumerFaults, torn>>

(* SIGTERM, once the replacement runs: noticed between two batches.        *)
Sigterm(t) ==
  /\ task[t].pc # "down" /\ ~task[t].stopping
  /\ \E u \in Tasks : task[u].pc # "down" /\ task[u].id > task[t].id
  /\ task' = [task EXCEPT ![t].stopping = TRUE]
  /\ UNCHANGED <<mail, casts, starts, consumerFaults, torn>>

(* The last frame is broadcast on the way out.                             *)
Shutdown(t) ==
  /\ task[t].pc = "poll" /\ task[t].stopping
  /\ casts' = IF task[t].pending = NoFrame THEN casts ELSE Cast(t)
  /\ task' = [task EXCEPT ![t] = Down]
  /\ UNCHANGED <<mail, starts, consumerFaults, torn>>

(* delete_message_batch or the last broadcast raises, or SIGKILL.          *)
TaskDies(t) ==
  /\ task[t].pc # "down" /\ ConsumerFault
  /\ task' = [task EXCEPT ![t] = Down]
  /\ UNCHANGED <<mail, casts, starts, torn>>

-----------------------------------------------------------------------------
ProcessStep(t) ==
  \E m \in Messages :
    \/ SkipMessage(t, m) \/ BufferFirst(t, m) \/ MergeFragment(t, m)
    \/ DropStale(t, m) \/ FlushAndBuffer(t, m)

RunStep(t) == Receive(t) \/ ProcessStep(t) \/ DeleteBatch(t) \/ Shutdown(t)

ConsumerNext ==
  \/ \E m \in Messages : Publish(m)
  \/ VisibilityTimeout
  \/ \E t \in Tasks : RunStep(t) \/ StartTask(t) \/ Sigterm(t) \/ TaskDies(t)
  \/ \E t \in Tasks, m \in Messages : FlushRaises(t, m)

ConsumerSpec == ConsumerInit /\ [][ConsumerNext]_consumerVars

NoneRuns == \A t \in Tasks : task[t].pc = "down"

(* A running task runs on, ECS keeps one running and stops the one that is *)
(* replaced, timeouts pass.                                                *)
ConsumerFairness ==
  /\ \A t \in Tasks : WF_consumerVars(RunStep(t)) /\ WF_consumerVars(Sigterm(t))
  /\ WF_consumerVars(NoneRuns /\ \E t \in Tasks : StartTask(t))
  /\ WF_consumerVars(VisibilityTimeout)

ConsumerFairSpec == ConsumerSpec /\ ConsumerFairness
-----------------------------------------------------------------------------
(* PROPERTIES                                                              *)

BroadcastParts == UNION {ToSet(casts[i].parts) : i \in DOMAIN casts}
HeldParts      == UNION {ToSet(task[t].pending.parts) : t \in Tasks}

(* A message that is deleted still waits while a task whose receipt has    *)
(* timed out is to process it.                                             *)
Gone(m) == mail[m] = "deleted" /\ \A t \in Tasks : m \notin task[t].batch

(* The fate of a message, as FrameDelivery tells it.                       *)
Fate ==
  [m \in Messages |-> IF mail[m] = "unsent"    THEN "unsent"
                      ELSE IF m \in BroadcastParts THEN "done"
                      ELSE IF m \in HeldParts  THEN "held"
                      ELSE IF Gone(m)          THEN "gone"
                      ELSE "waiting"]

(* A fragment published after a newer one, by more than the window.        *)
Late == {m \in Usable : \E l \in Usable : l < m /\ Ts[l] > Ts[m] + Window}

Delivery == INSTANCE FrameDelivery
  WITH Msgs <- Messages, Useless <- Skipped \cup Poison \cup Late,
       fate <- Fate, failed <- consumerFaults > 0

(* With all its buffering, batching and redelivery the consumer is a       *)
(* delivery in that sense: a message is never delivered and then lost, and *)
(* one that is usable and in time is discarded only after a failure.       *)
ImplementsDelivery == Delivery!DeliverySpec

(* Each frame a task broadcasts is newer than the one before by more than  *)
(* the window, redelivered messages included (process_message, step 4),    *)
(* until a broadcast of that task has raised.                              *)
InOrderPerTask ==
  \A i, j \in DOMAIN casts :
    (i < j /\ casts[i].id = casts[j].id /\ casts[i].id \notin torn) =>
      casts[j].ts > casts[i].ts + Window

(* While nothing fails, no fragment is broadcast twice or twice in a frame. *)
NoDuplicates ==
  consumerFaults = 0 =>
    \A i, j \in DOMAIN casts :
      /\ i # j => ToSet(casts[i].parts) \cap ToSet(casts[j].parts) = {}
      /\ IsInjective(casts[i].parts)

FramesOf(ms) == {Ts[m] : m \in ms}

Lost == {m \in Usable \ Late : Fate[m] = "gone"}

(* A failure costs at most two frames: the one being broadcast or buffered *)
(* and the one whose message comes back too late.  A fragment published    *)
(* too late is no loss.  Stated of instances in which the fragments of a   *)
(* frame have one time.                                                    *)
LossBounded == Cardinality(FramesOf(Lost)) <= 2 * consumerFaults

(* A frame is broadcast once a newer one has been published, in spite of   *)
(* poison messages, unless something fails or a second task is started: it *)
(* may take the newer frame and leave the first task with nothing to flush *)
(* by.  The newest frame stays in the buffer while the stream is quiet.    *)
FlushedByNewer ==
  <>[](\A m \in Usable :
         (\E n \in Usable : Ts[n] > Ts[m] + Window /\ mail[n] # "unsent")
           => (m \in BroadcastParts \/ consumerFaults > 0 \/ starts > 1))

(* The order and the uniqueness of what a task broadcasts (process_message *)
(* and the queue's group), in one invariant.                               *)
ConsumerSafety == ConsumerTypeOK /\ InOrderPerTask /\ NoDuplicates
=============================================================================
