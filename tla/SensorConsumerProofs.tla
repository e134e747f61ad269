------------------------- MODULE SensorConsumerProofs -------------------------
(***************************************************************************)
(* Proofs about SensorConsumer: the order and the uniqueness of what a     *)
(* task broadcasts, that the consumer implements FrameDelivery, and what a *)
(* failure costs, for every stream of messages, number of tasks and number *)
(* of failures.                                                            *)
(***************************************************************************)
EXTENDS SensorConsumer, FiniteSetTheorems, SequenceTheorems, TLAPS

-----------------------------------------------------------------------------
(* THE INDUCTIVE INVARIANT                                                 *)

PartsOf(t) == ToSet(task[t].pending.parts)

(* The place of a task in the loop, and what it keeps there.               *)
LoopState ==
  \A t \in Tasks :
    /\ task[t].pc = "process" <=> task[t].batch # {}
    /\ ~AtWork(t) => task[t].acks = {} /\ ~task[t].expired
    /\ task[t].pc = "down" => task[t].pending = NoFrame
    /\ task[t].pc # "down" => task[t].id \in 1..starts
    /\ \A u \in Tasks :
         (task[t].pc # "down" /\ task[u].pc # "down" /\ task[t].id = task[u].id) => t = u

(* The queue fills from the front, and tasks hold what was in it.          *)
QueueState ==
  /\ \A l, m \in Messages : (l < m /\ mail[l] = "unsent") => mail[m] = "unsent"
  /\ \A t \in Tasks : \A m \in task[t].batch : mail[m] # "unsent"
  /\ \A t \in Tasks : \A m \in task[t].acks : mail[m] # "unsent"
  /\ \A t \in Tasks : \A m \in PartsOf(t) : m \in Usable /\ mail[m] # "unsent"
  /\ \A i \in DOMAIN casts : \A m \in ToSet(casts[i].parts) :
       m \in Usable /\ mail[m] # "unsent"

(* A buffer that holds a frame has the time of one of its fragments.       *)
BufferState ==
  \A t \in Tasks :
    \/ task[t].pending = NoFrame
    \/ \E l \in PartsOf(t) : task[t].pending.ts = Ts[l]

(* What a task has in its buffer is newer than what it has broadcast.      *)
OrderState ==
  /\ InOrderPerTask
  /\ \A i \in DOMAIN casts : casts[i].id \in 1..starts
  /\ \A t \in Tasks, i \in DOMAIN casts :
       (task[t].pc # "down" /\ task[t].id = casts[i].id /\ casts[i].id \notin torn)
         => /\ task[t].pending # NoFrame
            /\ task[t].pending.ts > casts[i].ts + Window

(* While nothing fails, one task has a batch, in flight, and every message *)
(* that was buffered is before those that have yet to be.                  *)
Calm == consumerFaults = 0

OneBatch ==
  /\ \A t \in Tasks : ~task[t].expired
  /\ \A t, u \in Tasks : AtWork(t) /\ AtWork(u) => t = u
  /\ \A t \in Tasks : AtWork(t) => \E m \in Messages : mail[m] = "inflight"
  /\ \A m \in Usable : mail[m] = "inflight" =>
       \E t \in Tasks : AtWork(t) /\ (m \in task[t].batch \/ m \in task[t].acks)
  /\ \A t \in Tasks : \A m \in task[t].batch : mail[m] = "inflight"
  /\ \A t \in Tasks : \A l \in task[t].batch, m \in Messages : mail[m] = "visible" => l < m

ToCome(m) == mail[m] \in {"unsent", "visible"} \/ \E t \in Tasks : m \in task[t].batch

Ahead ==
  /\ \A t \in Tasks : \A l \in PartsOf(t), m \in Usable : ToCome(m) => l < m
  /\ \A i \in DOMAIN casts : \A l \in ToSet(casts[i].parts), m \in Usable : ToCome(m) => l < m

(* Each fragment is in one place, once.                                    *)
Apart ==
  /\ \A i, j \in DOMAIN casts :
       i # j => ToSet(casts[i].parts) \cap ToSet(casts[j].parts) = {}
  /\ \A i \in DOMAIN casts : IsInjective(casts[i].parts)
  /\ \A t \in Tasks, i \in DOMAIN casts : PartsOf(t) \cap ToSet(casts[i].parts) = {}
  /\ \A t, u \in Tasks : t # u => PartsOf(t) \cap PartsOf(u) = {}
  /\ \A t \in Tasks : IsInjective(task[t].pending.parts)

(* What is to be deleted is useless, or in a buffer, or broadcast.         *)
AcksKept ==
  \A t \in Tasks : \A m \in task[t].acks :
    m \in Skipped \cup Late \cup HeldParts \cup BroadcastParts

CalmState == Calm => OneBatch /\ Ahead /\ Apart /\ AcksKept

ConsumerInv ==
  ConsumerTypeOK /\ LoopState /\ QueueState /\ BufferState /\ OrderState /\ CalmState
-----------------------------------------------------------------------------
(* WHAT THE ACTIONS DO                                                     *)

Frame == [ts : Nat, parts : Seq(Messages)]
CastOf == [id : 1..TaskStarts, ts : Nat, parts : Seq(Messages)]

LEMMA NoFrameIsAFrame == NoFrame \in Frame
  BY DEF NoFrame, Frame

LEMMA DownIsATask == Down \in TaskState
  <1>1. NoFrame \in Frame
    BY NoFrameIsAFrame
  <1>2. 0 \in 0..TaskStarts
    BY ConsumerConstants
  <1>3. QED
    BY <1>1, <1>2 DEF Down, TaskState, Frame

(* The fragments of a buffer when one more is appended.                    *)
LEMMA AppendedParts ==
  ASSUME NEW S, NEW s \in Seq(S), NEW e \in S
  PROVE  /\ Append(s, e) \in Seq(S)
         /\ ToSet(Append(s, e)) = ToSet(s) \cup {e}
         /\ Append(s, e) # <<>>
         /\ Len(Append(s, e)) = Len(s) + 1
         /\ Append(s, e)[Len(s) + 1] = e
         /\ \A i \in 1..Len(s) : Append(s, e)[i] = s[i]
         /\ DOMAIN Append(s, e) = 1..(Len(s) + 1)
         /\ DOMAIN s = 1..Len(s)
  BY DEF ToSet

LEMMA OnePart ==
  ASSUME NEW S, NEW e \in S
  PROVE  /\ <<e>> \in Seq(S) /\ ToSet(<<e>>) = {e} /\ <<e>> # <<>>
         /\ IsInjective(<<e>>)
  BY DEF ToSet, IsInjective

LEMMA NoParts == ToSet(<<>>) = {} /\ IsInjective(<<>>)
  BY DEF ToSet, IsInjective

(* Processing a message changes the task that does it, and so.             *)
LEMMA ProcessedTask ==
  ASSUME ConsumerTypeOK, NEW t \in Tasks, NEW m \in Messages, InTurn(t, m),
         NEW p \in Frame, NEW ok \in BOOLEAN, Processed(t, m, p, ok)
  PROVE  /\ task' \in [Tasks -> TaskState]
         /\ \A u \in Tasks : u # t => task'[u] = task[u]
         /\ task'[t].batch = task[t].batch \ {m}
         /\ task'[t].acks = IF ok THEN task[t].acks \cup {m} ELSE task[t].acks
         /\ task'[t].pending = p
         /\ task'[t].pc = IF task[t].batch \ {m} = {} THEN "delete" ELSE "process"
         /\ task'[t].id = task[t].id
         /\ task'[t].expired = task[t].expired
  <1>1. task \in [Tasks -> TaskState]
    BY DEF ConsumerTypeOK
  <1>2. task[t] \in TaskState
    BY <1>1
  <1>3. m \in task[t].batch
    BY DEF InTurn
  <1> DEFINE new == [task[t] EXCEPT !.batch = task[t].batch \ {m}, !.pending = p,
                        !.acks = IF ok THEN task[t].acks \cup {m} ELSE task[t].acks,
                        !.pc = IF task[t].batch \ {m} = {} THEN "delete" ELSE "process"]
  <1>4. task' = [task EXCEPT ![t] = new]
    BY <1>1, <1>2 DEF Processed, TaskState
  <1>5. new \in TaskState
    BY <1>2 DEF TaskState, Frame
  <1>6. /\ new.batch = task[t].batch \ {m}
        /\ new.acks = IF ok THEN task[t].acks \cup {m} ELSE task[t].acks
        /\ new.pending = p
        /\ new.pc = IF task[t].batch \ {m} = {} THEN "delete" ELSE "process"
        /\ new.id = task[t].id /\ new.expired = task[t].expired
    BY <1>2 DEF TaskState
  <1> HIDE DEF new
  <1>7. QED
    BY <1>1, <1>4, <1>5, <1>6

(* What is broadcast is added at the end.                                  *)
LEMMA CastAppends ==
  ASSUME ConsumerTypeOK, NEW t \in Tasks, task[t].id \in 1..TaskStarts
  PROVE  LET last == [id |-> task[t].id, ts |-> task[t].pending.ts,
                      parts |-> task[t].pending.parts]
         IN /\ Cast(t) \in Seq(CastOf)
            /\ DOMAIN Cast(t) = 1..(Len(casts) + 1)
            /\ DOMAIN casts = 1..Len(casts) /\ Len(casts) \in Nat
            /\ Cast(t)[Len(casts) + 1] = last
            /\ \A i \in DOMAIN casts : Cast(t)[i] = casts[i]
  <1> DEFINE last == [id |-> task[t].id, ts |-> task[t].pending.ts,
                      parts |-> task[t].pending.parts]
  <1>1. task[t] \in TaskState /\ casts \in Seq(CastOf)
    BY DEF ConsumerTypeOK, CastOf
  <1>2. last \in CastOf
    BY <1>1 DEF TaskState, CastOf
  <1>3. Cast(t) = Append(casts, last)
    BY DEF Cast
  <1> HIDE DEF last
  <1>4. /\ Cast(t) \in Seq(CastOf)
        /\ DOMAIN Cast(t) = 1..(Len(casts) + 1)
        /\ DOMAIN casts = 1..Len(casts) /\ Len(casts) \in Nat
        /\ Cast(t)[Len(casts) + 1] = last
        /\ \A i \in DOMAIN casts : Cast(t)[i] = casts[i]
    BY <1>1, <1>2, <1>3
  <1>5. QED
    BY <1>4 DEF last

(* The frames a fragment makes.                                            *)
LEMMA FragmentFrame ==
  ASSUME NEW m \in Messages
  PROVE  /\ Fragment(m) \in Frame /\ Fragment(m) # NoFrame
         /\ Fragment(m).ts = Ts[m] /\ ToSet(Fragment(m).parts) = {m}
         /\ IsInjective(Fragment(m).parts)
  <1>1. Ts[m] \in Nat
    BY ConsumerConstants
  <1>2. <<m>> \in Seq(Messages) /\ ToSet(<<m>>) = {m} /\ <<m>> # <<>> /\ IsInjective(<<m>>)
    BY OnePart
  <1>3. QED
    BY <1>1, <1>2 DEF Fragment, NoFrame, Frame

LEMMA MergedFrame ==
  ASSUME NEW m \in Messages, NEW p \in Frame
  PROVE  /\ Merged(p, m) \in Frame /\ Merged(p, m) # NoFrame
         /\ Merged(p, m).ts \in {Ts[m], p.ts}
         /\ Merged(p, m).ts >= Ts[m] /\ Merged(p, m).ts >= p.ts
         /\ ToSet(Merged(p, m).parts) = ToSet(p.parts) \cup {m}
         /\ (IsInjective(p.parts) /\ m \notin ToSet(p.parts)) => IsInjective(Merged(p, m).parts)
  <1>1. Ts[m] \in Nat /\ p.ts \in Nat /\ p.parts \in Seq(Messages)
    BY ConsumerConstants DEF Frame
  <1> DEFINE s == Append(p.parts, m)
  <1>2. /\ s \in Seq(Messages) /\ ToSet(s) = ToSet(p.parts) \cup {m} /\ s # <<>>
        /\ s[Len(p.parts) + 1] = m /\ \A i \in 1..Len(p.parts) : s[i] = p.parts[i]
        /\ DOMAIN s = 1..(Len(p.parts) + 1) /\ DOMAIN p.parts = 1..Len(p.parts)
    BY <1>1, AppendedParts
  <1>3. /\ Merged(p, m).parts = s
        /\ Merged(p, m).ts = IF Ts[m] > p.ts THEN Ts[m] ELSE p.ts
        /\ Merged(p, m) = [ts |-> Merged(p, m).ts, parts |-> Merged(p, m).parts]
    BY DEF Merged
  <1>4. (IsInjective(p.parts) /\ m \notin ToSet(p.parts)) => IsInjective(s)
    <2>1. Len(p.parts) \in Nat
      BY <1>1
    <2> HIDE DEF s
    <2>2. SUFFICES ASSUME IsInjective(p.parts), m \notin ToSet(p.parts),
                          NEW i \in DOMAIN s, NEW j \in DOMAIN s, s[i] = s[j]
                   PROVE  i = j
      BY DEF IsInjective
    <2>3. \A k \in 1..Len(p.parts) : p.parts[k] # m
      BY <2>2, <1>2 DEF ToSet
    <2>4. QED
      BY <2>1, <2>2, <2>3, <1>2 DEF IsInjective
  <1> HIDE DEF s
  <1>5. Merged(p, m) # NoFrame
    BY <1>2, <1>3 DEF NoFrame
  <1>6. Merged(p, m).ts \in Nat /\ Merged(p, m).ts >= Ts[m] /\ Merged(p, m).ts >= p.ts
    BY <1>1, <1>3
  <1>7. Merged(p, m) \in Frame
    BY <1>2, <1>3, <1>6 DEF Frame
  <1>8. QED
    BY <1>2, <1>3, <1>4, <1>5, <1>6, <1>7

LEMMA InHeld ==
  \A m : m \in HeldParts <=> \E t \in Tasks : m \in PartsOf(t)
  BY DEF HeldParts, PartsOf

LEMMA InHeldNext ==
  \A m : m \in HeldParts' <=> \E t \in Tasks : m \in PartsOf(t)'
  BY DEF HeldParts, PartsOf

LEMMA InBroadcast ==
  \A m : m \in BroadcastParts <=> \E i \in DOMAIN casts : m \in ToSet(casts[i].parts)
  BY DEF BroadcastParts

LEMMA InBroadcastNext ==
  \A m : m \in BroadcastParts' <=> \E i \in DOMAIN casts' : m \in ToSet(casts'[i].parts)
  BY DEF BroadcastParts

(* The facts of a typed state the proofs below start from.                 *)
LEMMA TypedTask ==
  ASSUME ConsumerTypeOK, NEW t \in Tasks
  PROVE  /\ task[t] \in TaskState /\ task[t].batch \subseteq Messages
         /\ task[t].acks \subseteq Messages /\ task[t].pending \in Frame
         /\ task[t].pending.ts \in Nat /\ task[t].pending.parts \in Seq(Messages)
         /\ PartsOf(t) \subseteq Messages
         /\ task[t].expired \in BOOLEAN /\ task[t].id \in 0..TaskStarts
         /\ task[t].pc \in {"down", "poll", "process", "delete"}
  <1>1. task[t] \in TaskState
    BY DEF ConsumerTypeOK
  <1>2. task[t].pending.parts \in Seq(Messages)
    BY <1>1 DEF TaskState
  <1>3. PartsOf(t) \subseteq Messages
    BY <1>2 DEF PartsOf, ToSet
  <1>4. QED
    BY <1>1, <1>2, <1>3 DEF TaskState, Frame
-----------------------------------------------------------------------------
(* PROCESSING A MESSAGE                                                    *)

(* What the ways to process a message have in common: the buffer becomes   *)
(* p, the old one is broadcast or not, the messages of done are to be      *)
(* deleted.                                                                *)
Handled(t, m, p, done) ==
  /\ InTurn(t, m) /\ UNCHANGED <<mail, starts>>
  /\ \E ok \in BOOLEAN : Processed(t, m, p, ok) /\ done = IF ok THEN {m} ELSE {}
  /\ casts' = casts \/ (task[t].pending # NoFrame /\ casts' = Cast(t))
  /\ ToSet(p.parts) \subseteq PartsOf(t) \cup ({m} \cap Usable)
  /\ p = NoFrame \/ \E l \in ToSet(p.parts) : p.ts = Ts[l]

LEMMA HandledTask ==
  ASSUME ConsumerTypeOK, NEW t \in Tasks, NEW m \in Messages, NEW p \in Frame,
         NEW done, Handled(t, m, p, done)
  PROVE  /\ task[t].pc = "process" /\ m \in task[t].batch
         /\ \A l \in task[t].batch : m <= l
         /\ mail' = mail /\ starts' = starts
         /\ task' \in [Tasks -> TaskState]
         /\ \A u \in Tasks : u # t => task'[u] = task[u]
         /\ task'[t].batch = task[t].batch \ {m}
         /\ task'[t].acks = task[t].acks \cup done /\ done \subseteq {m}
         /\ task'[t].pending = p
         /\ task'[t].pc = IF task[t].batch \ {m} = {} THEN "delete" ELSE "process"
         /\ task'[t].id = task[t].id
         /\ task'[t].expired = task[t].expired
  <1>1. PICK ok \in BOOLEAN : Processed(t, m, p, ok) /\ done = IF ok THEN {m} ELSE {}
    BY DEF Handled
  <1>2. /\ task' \in [Tasks -> TaskState]
        /\ \A u \in Tasks : u # t => task'[u] = task[u]
        /\ task'[t].batch = task[t].batch \ {m}
        /\ task'[t].acks = IF ok THEN task[t].acks \cup {m} ELSE task[t].acks
        /\ task'[t].pending = p
        /\ task'[t].pc = IF task[t].batch \ {m} = {} THEN "delete" ELSE "process"
        /\ task'[t].id = task[t].id
        /\ task'[t].expired = task[t].expired
    <2>1. InTurn(t, m)
      BY DEF Handled
    <2>2. QED
      BY <1>1, <2>1, ProcessedTask
  <1>3. task'[t].acks = task[t].acks \cup done /\ done \subseteq {m}
    BY <1>1, <1>2
  <1>4. QED
    BY <1>2, <1>3 DEF Handled, InTurn

(* What is broadcast after a step of task t, was, or was in its buffer.     *)
LEMMA CastsGrow ==
  ASSUME ConsumerTypeOK, LoopState, NEW t \in Tasks, task[t].pc # "down",
         casts' = casts \/ casts' = Cast(t)
  PROVE  /\ casts' \in Seq(CastOf)
         /\ task[t].id \in 1..starts
         /\ \A i \in DOMAIN casts : i \in DOMAIN casts' /\ casts'[i] = casts[i]
         /\ \A i \in DOMAIN casts' \ DOMAIN casts :
              /\ casts'[i].id = task[t].id /\ casts'[i].ts = task[t].pending.ts
              /\ casts'[i].parts = task[t].pending.parts
              /\ \A j \in DOMAIN casts' : j \notin DOMAIN casts => j = i
              /\ \A j \in DOMAIN casts : j < i
         /\ casts \in Seq(CastOf)
  <1>1. task[t].id \in 1..starts /\ starts \in 0..TaskStarts
    BY DEF LoopState, ConsumerTypeOK
  <1>2. task[t].id \in 1..TaskStarts
    BY <1>1, ConsumerConstants
  <1>3. casts \in Seq(CastOf) /\ DOMAIN casts = 1..Len(casts) /\ Len(casts) \in Nat
    BY DEF ConsumerTypeOK, CastOf
  <1>4. CASE casts' = casts
    BY <1>1, <1>3, <1>4
  <1>5. CASE casts' = Cast(t)
    <2>1. /\ Cast(t) \in Seq(CastOf) /\ DOMAIN Cast(t) = 1..(Len(casts) + 1)
          /\ Cast(t)[Len(casts) + 1] = [id |-> task[t].id, ts |-> task[t].pending.ts,
                                        parts |-> task[t].pending.parts]
          /\ \A i \in DOMAIN casts : Cast(t)[i] = casts[i]
      BY <1>2, CastAppends
    <2>2. \A i \in DOMAIN casts' \ DOMAIN casts : i = Len(casts) + 1
      BY <1>3, <1>5, <2>1
    <2>3. QED
      BY <1>1, <1>3, <1>5, <2>1, <2>2
  <1>6. QED
    BY <1>4, <1>5

LEMMA HandledCasts ==
  ASSUME ConsumerTypeOK, LoopState, NEW t \in Tasks, NEW m \in Messages, NEW p,
         NEW done, Handled(t, m, p, done)
  PROVE  /\ casts' \in Seq(CastOf)
         /\ task[t].id \in 1..starts
         /\ \A i \in DOMAIN casts : i \in DOMAIN casts' /\ casts'[i] = casts[i]
         /\ \A i \in DOMAIN casts' \ DOMAIN casts :
              /\ casts'[i].id = task[t].id /\ casts'[i].ts = task[t].pending.ts
              /\ casts'[i].parts = task[t].pending.parts
              /\ \A j \in DOMAIN casts' : j \notin DOMAIN casts => j = i
              /\ \A j \in DOMAIN casts : j < i
         /\ casts \in Seq(CastOf)
  <1>1. task[t].pc # "down" /\ (casts' = casts \/ casts' = Cast(t))
    BY DEF Handled, InTurn
  <1>2. QED
    BY <1>1, CastsGrow

LEMMA HandledLoop ==
  ASSUME ConsumerTypeOK, LoopState, NEW t \in Tasks, NEW m \in Messages, NEW p \in Frame,
         NEW done, Handled(t, m, p, done)
  PROVE  LoopState'
  <1>1. task[t].pc = "process" /\ m \in task[t].batch /\ starts' = starts
    BY DEF Handled, InTurn
  <1>2. /\ task' \in [Tasks -> TaskState]
        /\ \A u \in Tasks : u # t => task'[u] = task[u]
        /\ task'[t].batch = task[t].batch \ {m}
        /\ task'[t].pc = IF task[t].batch \ {m} = {} THEN "delete" ELSE "process"
        /\ task'[t].id = task[t].id /\ task'[t].expired = task[t].expired
    BY HandledTask
  <1>3. \A u \in Tasks : task[u].pc # "down" <=> task'[u].pc # "down"
    BY <1>1, <1>2
  <1>4. \A u \in Tasks : task'[u].id = task[u].id
    BY <1>2
  <1>5. SUFFICES ASSUME NEW u \in Tasks
                 PROVE  /\ task'[u].pc = "process" <=> task'[u].batch # {}
                        /\ ~AtWork(u)' => task'[u].acks = {} /\ ~task'[u].expired
                        /\ task'[u].pc = "down" => task'[u].pending = NoFrame
                        /\ task'[u].pc # "down" => task'[u].id \in 1..starts'
                        /\ \A v \in Tasks :
                             (task'[u].pc # "down" /\ task'[v].pc # "down"
                                /\ task'[u].id = task'[v].id) => u = v
    BY DEF LoopState
  <1>6. CASE u = t
    BY <1>1, <1>2, <1>3, <1>4, <1>6 DEF LoopState, AtWork
  <1>7. CASE u # t
    BY <1>1, <1>2, <1>3, <1>4, <1>7 DEF LoopState, AtWork
  <1>8. QED
    BY <1>6, <1>7

LEMMA HandledQueue ==
  ASSUME ConsumerTypeOK, LoopState, QueueState, NEW t \in Tasks, NEW m \in Messages,
         NEW p \in Frame, NEW done, Handled(t, m, p, done)
  PROVE  QueueState'
  <1>1. m \in task[t].batch /\ mail' = mail /\ mail[m] # "unsent"
    BY DEF Handled, InTurn, QueueState
  <1>2. /\ \A u \in Tasks : u # t => task'[u] = task[u]
        /\ task'[t].batch = task[t].batch \ {m}
        /\ task'[t].acks = task[t].acks \cup done /\ done \subseteq {m}
        /\ task'[t].pending = p
    BY HandledTask
  <1>3. \A u \in Tasks : task'[u].batch \subseteq task[u].batch
                         /\ task'[u].acks \subseteq task[u].acks \cup {m}
    BY <1>2
  <1>4. \A u \in Tasks : PartsOf(u)' \subseteq PartsOf(u) \cup ({m} \cap Usable)
    BY <1>2 DEF PartsOf, Handled
  <1>5. \A i \in DOMAIN casts' : \/ i \in DOMAIN casts /\ casts'[i].parts = casts[i].parts
                                 \/ casts'[i].parts = task[t].pending.parts
    BY HandledCasts
  <1>6. \A i \in DOMAIN casts' : \A l \in ToSet(casts'[i].parts) : l \in Usable /\ mail[l] # "unsent"
    BY <1>5 DEF QueueState, PartsOf
  <1>7. \A u \in Tasks : \A l \in PartsOf(u)' : l \in Usable /\ mail[l] # "unsent"
    BY <1>1, <1>4 DEF QueueState
  <1>8. QED
    BY <1>1, <1>3, <1>6, <1>7 DEF QueueState

LEMMA HandledBuffer ==
  ASSUME ConsumerTypeOK, BufferState, NEW t \in Tasks, NEW m \in Messages, NEW p \in Frame,
         NEW done, Handled(t, m, p, done)
  PROVE  BufferState'
  <1>1. /\ \A u \in Tasks : u # t => task'[u] = task[u]
        /\ task'[t].pending = p
    BY HandledTask
  <1>2. QED
    BY <1>1 DEF BufferState, PartsOf, Handled
LEMMA CastTyped ==
  ASSUME NEW c \in Seq(CastOf), NEW i \in DOMAIN c
  PROVE  /\ c[i] \in CastOf /\ c[i].ts \in Nat /\ c[i].id \in 1..TaskStarts
         /\ c[i].parts \in Seq(Messages) /\ i \in Nat
  <1>1. c[i] \in CastOf /\ i \in Nat
    OBVIOUS
  <1>2. QED
    BY <1>1 DEF CastOf

LEMMA HandledOrder ==
  ASSUME ConsumerTypeOK, LoopState, OrderState, NEW t \in Tasks, NEW m \in Messages,
         NEW p \in Frame, NEW done, Handled(t, m, p, done),
         \/ /\ casts' = casts /\ torn' = torn
            /\ task[t].pending # NoFrame => p # NoFrame /\ p.ts >= task[t].pending.ts
         \/ /\ task[t].pending # NoFrame /\ casts' = Cast(t) /\ torn' = torn
            /\ p # NoFrame /\ p.ts > task[t].pending.ts + Window
         \/ casts' = casts /\ torn' = torn \cup {task[t].id}
  PROVE  OrderState'
  <1>1. /\ task[t].pc = "process" /\ starts' = starts
        /\ \A u \in Tasks : u # t => task'[u] = task[u]
        /\ task'[t].pending = p /\ task'[t].id = task[t].id
    BY HandledTask
  <1>2. /\ casts' \in Seq(CastOf) /\ casts \in Seq(CastOf) /\ task[t].id \in 1..starts
        /\ \A i \in DOMAIN casts : i \in DOMAIN casts' /\ casts'[i] = casts[i]
        /\ \A i \in DOMAIN casts' \ DOMAIN casts :
             /\ casts'[i].id = task[t].id /\ casts'[i].ts = task[t].pending.ts
             /\ \A j \in DOMAIN casts' : j \notin DOMAIN casts => j = i
             /\ \A j \in DOMAIN casts : j < i
    BY HandledCasts
  <1>3. /\ p.ts \in Nat /\ task[t].pending.ts \in Nat /\ Window \in Nat
    BY TypedTask, ConsumerConstants DEF Frame
  <1>4. \A i \in DOMAIN casts : casts[i].ts \in Nat /\ i \in Nat
    BY <1>2, CastTyped
  <1>5. \A i \in DOMAIN casts' : i \in Nat
    BY <1>2, CastTyped
  <1>6. torn \subseteq torn'
    OBVIOUS
  <1>7. InOrderPerTask'
    <2>1. SUFFICES ASSUME NEW i \in DOMAIN casts', NEW j \in DOMAIN casts', i < j,
                          casts'[i].id = casts'[j].id, casts'[i].id \notin torn'
                   PROVE  casts'[j].ts > casts'[i].ts + Window
      BY DEF InOrderPerTask
    <2>2. i \in DOMAIN casts
      BY <1>2, <1>5, <2>1
    <2>3. CASE j \in DOMAIN casts
      BY <1>2, <1>6, <2>1, <2>2, <2>3 DEF OrderState, InOrderPerTask
    <2>4. CASE j \notin DOMAIN casts
      <3>1. /\ casts'[i] = casts[i] /\ casts'[j].id = task[t].id
            /\ casts'[j].ts = task[t].pending.ts
        BY <1>2, <2>2, <2>4
      <3>2. task[t].id = casts[i].id /\ casts[i].id \notin torn
        BY <2>1, <3>1, <1>6
      <3>3. QED
        BY <1>1, <2>2, <3>1, <3>2 DEF OrderState
    <2>5. QED
      BY <2>3, <2>4
  <1>8. \A i \in DOMAIN casts' : casts'[i].id \in 1..starts'
    BY <1>1, <1>2 DEF OrderState
  <1>9. ASSUME NEW u \in Tasks, NEW i \in DOMAIN casts', task'[u].pc # "down",
               task'[u].id = casts'[i].id, casts'[i].id \notin torn'
        PROVE  task'[u].pending # NoFrame /\ task'[u].pending.ts > casts'[i].ts + Window
    <2>1. task[u].pc # "down" /\ task[u].id = task'[u].id
      BY <1>1, <1>9
    <2>2. CASE u # t
      <3>1. i \in DOMAIN casts
        BY <1>1, <1>2, <1>9, <2>1, <2>2 DEF LoopState
      <3>2. task'[u] = task[u] /\ casts'[i] = casts[i]
        BY <1>1, <1>2, <2>2, <3>1
      <3>3. task[u].id = casts[i].id /\ casts[i].id \notin torn
        BY <1>6, <1>9, <3>2
      <3>4. QED
        BY <2>1, <3>1, <3>2, <3>3 DEF OrderState
    <2>3. CASE u = t /\ i \in DOMAIN casts
      <3>1. task[t].id = casts[i].id /\ casts[i].id \notin torn /\ casts'[i] = casts[i]
        BY <1>2, <1>6, <1>9, <2>1, <2>3
      <3>2. task[t].pending # NoFrame /\ task[t].pending.ts > casts[i].ts + Window
        BY <1>1, <2>3, <3>1 DEF OrderState
      <3>3. torn' = torn
        BY <1>9, <3>1
      <3>4. p # NoFrame /\ p.ts >= task[t].pending.ts
        <4>1. CASE torn' = torn \cup {task[t].id}
          BY <1>9, <2>1, <2>3, <4>1
        <4>2. QED
          BY <1>3, <3>2, <4>1
      <3>5. QED
        BY <1>1, <1>3, <1>4, <2>3, <3>1, <3>2, <3>4
    <2>4. CASE u = t /\ i \notin DOMAIN casts
      <3>1. casts' # casts /\ casts'[i].ts = task[t].pending.ts
        BY <1>2, <2>4
      <3>2. p # NoFrame /\ p.ts > task[t].pending.ts + Window
        BY <3>1
      <3>3. QED
        BY <1>1, <2>4, <3>1, <3>2
    <2>5. QED
      BY <2>2, <2>3, <2>4
  <1>10. QED
    BY <1>7, <1>8, <1>9 DEF OrderState

LEMMA HandledOneBatch ==
  ASSUME ConsumerTypeOK, LoopState, OneBatch, NEW t \in Tasks, NEW m \in Messages,
         NEW p \in Frame, NEW done, Handled(t, m, p, done), m \in Usable => m \in done
  PROVE  OneBatch'
  <1>1. /\ task[t].pc = "process" /\ m \in task[t].batch /\ mail' = mail
        /\ \A u \in Tasks : u # t => task'[u] = task[u]
        /\ task'[t].batch = task[t].batch \ {m}
        /\ task'[t].acks = task[t].acks \cup done
        /\ task'[t].pc = IF task[t].batch \ {m} = {} THEN "delete" ELSE "process"
        /\ task'[t].expired = task[t].expired
    BY HandledTask
  <1>2. \A u \in Tasks : AtWork(u)' <=> AtWork(u)
    BY <1>1 DEF AtWork
  <1>3. \A u \in Tasks : ~task'[u].expired
    BY <1>1 DEF OneBatch
  <1>4. \A u \in Tasks : task'[u].batch \subseteq task[u].batch
    BY <1>1
  <1>5. ASSUME NEW l \in Usable, mail[l] = "inflight"
        PROVE  \E u \in Tasks : AtWork(u)' /\ (l \in task'[u].batch \/ l \in task'[u].acks)
    <2>1. PICK u \in Tasks : AtWork(u) /\ (l \in task[u].batch \/ l \in task[u].acks)
      BY <1>5 DEF OneBatch
    <2>2. l \in task'[u].batch \/ l \in task'[u].acks
      BY <1>1, <2>1
    <2>3. QED
      BY <1>2, <2>1, <2>2
  <1>6. QED
    BY <1>1, <1>2, <1>3, <1>4, <1>5 DEF OneBatch

(* The message in its turn is before all that is to come.                  *)
LEMMA InTurnFirst ==
  ASSUME ConsumerTypeOK, LoopState, QueueState, OneBatch, NEW t \in Tasks, NEW m \in Messages,
         InTurn(t, m), NEW n \in Messages, n # m, ToCome(n)
  PROVE  m < n
  <1>1. m \in Nat /\ n \in Nat
    BY ConsumerConstants
  <1>2. task[t].pc = "process" /\ m \in task[t].batch /\ \A l \in task[t].batch : m <= l
    BY DEF InTurn
  <1>3. CASE mail[n] = "unsent"
    <2>1. ~(n < m)
      BY <1>2, <1>3 DEF QueueState
    <2>2. QED
      BY <1>1, <2>1
  <1>4. CASE mail[n] = "visible"
    BY <1>2, <1>4 DEF OneBatch
  <1>5. ASSUME NEW u \in Tasks, n \in task[u].batch
        PROVE  m < n
    <2>1. task[u].pc = "process"
      BY <1>5 DEF LoopState
    <2>2. u = t
      BY <1>2, <2>1 DEF OneBatch, AtWork
    <2>3. m <= n
      BY <1>2, <1>5, <2>2
    <2>4. QED
      BY <1>1, <2>3
  <1>6. QED
    BY <1>3, <1>4, <1>5 DEF ToCome

LEMMA HandledAhead ==
  ASSUME ConsumerTypeOK, LoopState, QueueState, OneBatch, Ahead, NEW t \in Tasks,
         NEW m \in Messages, NEW p \in Frame, NEW done, Handled(t, m, p, done)
  PROVE  Ahead'
  <1>1. /\ m \in task[t].batch /\ mail' = mail
        /\ \A u \in Tasks : u # t => task'[u] = task[u]
        /\ task'[t].batch = task[t].batch \ {m}
        /\ task'[t].pending = p
    BY HandledTask
  <1>2. /\ \A i \in DOMAIN casts : casts'[i] = casts[i]
        /\ \A i \in DOMAIN casts' \ DOMAIN casts : casts'[i].parts = task[t].pending.parts
    BY HandledCasts
  <1>3. \A n \in Usable : ToCome(n)' => ToCome(n) /\ n # m
    <2>1. SUFFICES ASSUME NEW n \in Usable, ToCome(n)'
                   PROVE  ToCome(n) /\ n # m
      OBVIOUS
    <2>2. mail[m] = "inflight"
      BY <1>1 DEF OneBatch
    <2>3. CASE mail[n] \in {"unsent", "visible"}
      BY <2>2, <2>3 DEF ToCome
    <2>4. ASSUME NEW u \in Tasks, n \in task'[u].batch
          PROVE  ToCome(n) /\ n # m
      <3>1. n \in task[u].batch
        BY <1>1, <2>4
      <3>2. CASE u = t
        BY <1>1, <2>4, <3>1, <3>2 DEF ToCome
      <3>3. CASE u # t
        <4>1. AtWork(u) /\ AtWork(t)
          BY <1>1, <3>1 DEF LoopState, AtWork
        <4>2. QED
          BY <3>3, <4>1 DEF OneBatch
      <3>4. QED
        BY <3>2, <3>3
    <2>5. QED
      BY <1>1, <2>1, <2>3, <2>4 DEF ToCome
  <1>4. \A n \in Usable : ToCome(n)' => m < n
    BY <1>3, InTurnFirst DEF Handled, Usable
  <1>5. \A u \in Tasks : PartsOf(u)' \subseteq PartsOf(u) \cup {m}
    BY <1>1 DEF Handled, PartsOf
  <1>6. \A u \in Tasks : \A l \in PartsOf(u)', n \in Usable : ToCome(n)' => l < n
    BY <1>3, <1>4, <1>5 DEF Ahead
  <1>7. \A i \in DOMAIN casts' : \A l \in ToSet(casts'[i].parts), n \in Usable : ToCome(n)' => l < n
    <2>1. SUFFICES ASSUME NEW i \in DOMAIN casts', NEW l \in ToSet(casts'[i].parts),
                          NEW n \in Usable, ToCome(n)'
                   PROVE  l < n
      OBVIOUS
    <2>2. CASE i \in DOMAIN casts
      BY <1>2, <1>3, <2>1, <2>2 DEF Ahead
    <2>3. CASE i \notin DOMAIN casts
      BY <1>2, <1>3, <2>1, <2>3 DEF Ahead, PartsOf
    <2>4. QED
      BY <2>2, <2>3
  <1>8. QED
    BY <1>6, <1>7 DEF Ahead

(* A usable message in its turn is in no buffer and in no broadcast.       *)
LEMMA InTurnFresh ==
  ASSUME ConsumerTypeOK, Ahead, NEW t \in Tasks, NEW m \in Messages, InTurn(t, m), m \in Usable
  PROVE  /\ \A u \in Tasks : m \notin PartsOf(u)
         /\ \A i \in DOMAIN casts : m \notin ToSet(casts[i].parts)
  <1>1. ToCome(m) /\ ~(m < m)
    BY ConsumerConstants DEF ToCome, InTurn
  <1>2. QED
    BY <1>1 DEF Ahead

LEMMA HandledApart ==
  ASSUME ConsumerTypeOK, LoopState, Ahead, Apart, NEW t \in Tasks,
         NEW m \in Messages, NEW p \in Frame, NEW done, Handled(t, m, p, done),
         IsInjective(p.parts), casts' = casts \/ ToSet(p.parts) \subseteq {m} \cap Usable
  PROVE  Apart'
  <1>1. /\ \A u \in Tasks : u # t => task'[u] = task[u]
        /\ task'[t].pending = p
    BY HandledTask
  <1>2. /\ \A i \in DOMAIN casts : i \in DOMAIN casts' /\ casts'[i] = casts[i]
        /\ \A i \in DOMAIN casts' \ DOMAIN casts :
             /\ casts'[i].parts = task[t].pending.parts
             /\ \A j \in DOMAIN casts' : j \notin DOMAIN casts => j = i
    BY HandledCasts
  <1>3. /\ \A u \in Tasks : u # t => PartsOf(u)' = PartsOf(u)
        /\ PartsOf(t)' = ToSet(p.parts)
    BY <1>1 DEF PartsOf
  <1>4. m \in Usable => /\ \A u \in Tasks : m \notin PartsOf(u)
                        /\ \A i \in DOMAIN casts : m \notin ToSet(casts[i].parts)
    BY InTurnFresh DEF Handled
  <1>5. ToSet(p.parts) \subseteq PartsOf(t) \cup ({m} \cap Usable)
    BY DEF Handled
  <1>6. \A i \in DOMAIN casts' \ DOMAIN casts : ToSet(casts'[i].parts) = PartsOf(t)
    BY <1>2 DEF PartsOf
  <1>7. \A i, j \in DOMAIN casts' : i # j => ToSet(casts'[i].parts) \cap ToSet(casts'[j].parts) = {}
    <2>1. SUFFICES ASSUME NEW i \in DOMAIN casts', NEW j \in DOMAIN casts', i # j
                   PROVE  ToSet(casts'[i].parts) \cap ToSet(casts'[j].parts) = {}
      OBVIOUS
    <2>2. CASE i \in DOMAIN casts /\ j \in DOMAIN casts
      BY <1>2, <2>1, <2>2 DEF Apart
    <2>3. CASE i \in DOMAIN casts /\ j \notin DOMAIN casts
      BY <1>2, <1>6, <2>1, <2>3 DEF Apart
    <2>4. CASE i \notin DOMAIN casts /\ j \in DOMAIN casts
      BY <1>2, <1>6, <2>1, <2>4 DEF Apart
    <2>5. QED
      BY <1>2, <2>1, <2>2, <2>3, <2>4
  <1>8. \A i \in DOMAIN casts' : IsInjective(casts'[i].parts)
    BY <1>2 DEF Apart
  <1>9. \A i \in DOMAIN casts' \ DOMAIN casts : ToSet(p.parts) \subseteq {m} \cap Usable
    BY <1>2
  <1>10. ASSUME NEW u \in Tasks, NEW i \in DOMAIN casts'
         PROVE  PartsOf(u)' \cap ToSet(casts'[i].parts) = {}
    <2>1. CASE i \in DOMAIN casts /\ u = t
      BY <1>2, <1>3, <1>4, <1>5, <2>1 DEF Apart
    <2>2. CASE i \in DOMAIN casts /\ u # t
      BY <1>2, <1>3, <2>2 DEF Apart
    <2>3. CASE i \notin DOMAIN casts /\ u = t
      BY <1>3, <1>4, <1>6, <1>9, <2>3
    <2>4. CASE i \notin DOMAIN casts /\ u # t
      BY <1>3, <1>6, <2>4 DEF Apart
    <2>5. QED
      BY <2>1, <2>2, <2>3, <2>4
  <1>11. ASSUME NEW u \in Tasks, NEW v \in Tasks, u # v
         PROVE  PartsOf(u)' \cap PartsOf(v)' = {}
    <2>1. CASE u # t /\ v # t
      BY <1>3, <1>11, <2>1 DEF Apart
    <2>2. CASE u = t
      BY <1>3, <1>4, <1>5, <1>11, <2>2 DEF Apart
    <2>3. CASE v = t
      BY <1>3, <1>4, <1>5, <1>11, <2>3 DEF Apart
    <2>4. QED
      BY <2>1, <2>2, <2>3
  <1>12. \A u \in Tasks : IsInjective(task'[u].pending.parts)
    BY <1>1 DEF Apart
  <1>13. QED
    BY <1>7, <1>8, <1>10, <1>11, <1>12 DEF Apart

(* What is held or broadcast stays so.                                     *)
LEMMA HandledKeeps ==
  ASSUME ConsumerTypeOK, LoopState, NEW t \in Tasks,
         NEW m \in Messages, NEW p \in Frame, NEW done, Handled(t, m, p, done),
         casts' = Cast(t) \/ PartsOf(t) \subseteq ToSet(p.parts)
  PROVE  /\ HeldParts \cup BroadcastParts \subseteq HeldParts' \cup BroadcastParts'
         /\ ToSet(p.parts) \subseteq HeldParts'
  <1>1. /\ \A u \in Tasks : u # t => task'[u] = task[u]
        /\ task'[t].pending = p /\ task[t].pc = "process"
    BY HandledTask
  <1>2. \A i \in DOMAIN casts : i \in DOMAIN casts' /\ casts'[i] = casts[i]
    BY HandledCasts
  <1>3. BroadcastParts \subseteq BroadcastParts'
    BY <1>2, InBroadcast, InBroadcastNext
  <1>4. /\ \A u \in Tasks : u # t => PartsOf(u)' = PartsOf(u)
        /\ PartsOf(t)' = ToSet(p.parts)
    BY <1>1 DEF PartsOf
  <1>5. ToSet(p.parts) \subseteq HeldParts'
    BY <1>4, InHeldNext
  <1>6. PartsOf(t) \subseteq HeldParts' \cup BroadcastParts'
    <2>1. CASE PartsOf(t) \subseteq ToSet(p.parts)
      BY <1>5, <2>1
    <2>2. CASE casts' = Cast(t)
      <3>1. task[t].id \in 1..TaskStarts
        BY <1>1, ConsumerConstants DEF LoopState, ConsumerTypeOK
      <3>2. /\ DOMAIN Cast(t) = 1..(Len(casts) + 1) /\ Len(casts) \in Nat
            /\ Cast(t)[Len(casts) + 1] = [id |-> task[t].id, ts |-> task[t].pending.ts,
                                          parts |-> task[t].pending.parts]
        BY <3>1, CastAppends
      <3>3. /\ Len(casts) + 1 \in DOMAIN casts'
            /\ casts'[Len(casts) + 1].parts = task[t].pending.parts
        BY <2>2, <3>2
      <3>4. QED
        BY <3>3, InBroadcastNext DEF PartsOf
    <2>3. QED
      BY <2>1, <2>2
  <1>7. QED
    BY <1>3, <1>4, <1>5, <1>6, InHeld, InHeldNext

LEMMA HandledAcks ==
  ASSUME ConsumerTypeOK, LoopState, AcksKept, NEW t \in Tasks,
         NEW m \in Messages, NEW p \in Frame, NEW done, Handled(t, m, p, done),
         casts' = Cast(t) \/ PartsOf(t) \subseteq ToSet(p.parts),
         done \subseteq Skipped \cup Late \cup ToSet(p.parts)
  PROVE  AcksKept'
  <1>1. /\ \A u \in Tasks : u # t => task'[u] = task[u]
        /\ task'[t].acks = task[t].acks \cup done
    BY HandledTask
  <1>2. /\ HeldParts \cup BroadcastParts \subseteq HeldParts' \cup BroadcastParts'
        /\ ToSet(p.parts) \subseteq HeldParts'
    BY HandledKeeps
  <1>3. \A u \in Tasks : \A n \in task'[u].acks : n \in task[u].acks \/ n \in done
    BY <1>1
  <1>4. QED
    BY <1>2, <1>3 DEF AcksKept

(* The whole invariant, from what each way to process a message gives.     *)
LEMMA HandledInv ==
  ASSUME ConsumerInv, NEW t \in Tasks, NEW m \in Messages, NEW p \in Frame, NEW done,
         Handled(t, m, p, done), consumerFaults' \in 0..ConsumerFaults,
         \/ /\ casts' = casts /\ torn' = torn
            /\ task[t].pending # NoFrame => p # NoFrame /\ p.ts >= task[t].pending.ts
         \/ /\ task[t].pending # NoFrame /\ casts' = Cast(t) /\ torn' = torn
            /\ p # NoFrame /\ p.ts > task[t].pending.ts + Window
         \/ casts' = casts /\ torn' = torn \cup {task[t].id},
         Calm' => /\ Calm
                  /\ m \in Usable => m \in done
                  /\ IsInjective(p.parts)
                  /\ \/ casts' = casts /\ PartsOf(t) \subseteq ToSet(p.parts)
                     \/ casts' = Cast(t) /\ ToSet(p.parts) \subseteq {m} \cap Usable
                  /\ done \subseteq Skipped \cup Late \cup ToSet(p.parts)
  PROVE  ConsumerInv'
  <1> USE DEF ConsumerInv
  <1>1. /\ task' \in [Tasks -> TaskState] /\ mail' = mail /\ starts' = starts
    BY HandledTask
  <1>2. casts' \in Seq(CastOf) /\ task[t].id \in 1..starts
    BY HandledCasts
  <1>3. ConsumerTypeOK'
    <2>1. torn' \subseteq 1..TaskStarts
      <3>1. torn' \subseteq torn \cup {task[t].id}
        OBVIOUS
      <3>2. torn \subseteq 1..TaskStarts /\ starts \in 0..TaskStarts
        BY DEF ConsumerTypeOK
      <3>3. task[t].id \in 1..TaskStarts
        BY <1>2, <3>2, ConsumerConstants
      <3>4. QED
        BY <3>1, <3>2, <3>3
    <2>2. QED
      BY <1>1, <1>2, <2>1 DEF ConsumerTypeOK, CastOf
  <1>4. LoopState' /\ QueueState' /\ BufferState'
    BY HandledLoop, HandledQueue, HandledBuffer
  <1>5. OrderState'
    BY HandledOrder
  <1>6. CalmState'
    <2>1. SUFFICES ASSUME Calm' PROVE OneBatch' /\ Ahead' /\ Apart' /\ AcksKept'
      BY DEF CalmState
    <2>2. OneBatch /\ Ahead /\ Apart /\ AcksKept
      BY <2>1 DEF CalmState
    <2>3. OneBatch'
      BY <2>1, <2>2, HandledOneBatch
    <2>4. Ahead'
      BY <2>2, HandledAhead
    <2>5. Apart'
      BY <2>1, <2>2, HandledApart
    <2>6. AcksKept'
      BY <2>1, <2>2, HandledAcks
    <2>7. QED
      BY <2>3, <2>4, <2>5, <2>6
  <1>7. QED
    BY <1>3, <1>4, <1>5, <1>6

(* The time of a frame in the buffer is that of one of its fragments, and  *)
(* a fragment dropped because of it while nothing fails was late.          *)
LEMMA StaleIsLate ==
  ASSUME ConsumerInv, Calm, NEW t \in Tasks, NEW m \in Messages,
         AgainstBuffer(t, m), Diff(t, m) < -Window
  PROVE  m \in Late
  <1>1. PICK l \in PartsOf(t) : task[t].pending.ts = Ts[l]
    BY DEF ConsumerInv, BufferState, AgainstBuffer
  <1>2. l \in Usable /\ m \in Usable /\ ToCome(m)
    BY DEF ConsumerInv, QueueState, AgainstBuffer, InTurn, ToCome
  <1>3. l < m
    BY <1>2 DEF ConsumerInv, CalmState, Ahead
  <1>4. Ts[l] \in Nat /\ Ts[m] \in Nat /\ Window \in Nat
    BY <1>2, ConsumerConstants DEF Usable
  <1>5. Ts[l] > Ts[m] + Window
    BY <1>1, <1>4 DEF Diff
  <1>6. QED
    BY <1>2, <1>3, <1>5 DEF Late

(* Each way to process a message is one of those.                          *)
LEMMA SkipIsHandled ==
  ASSUME ConsumerInv, NEW t \in Tasks, NEW m \in Messages, SkipMessage(t, m)
  PROVE  Handled(t, m, task[t].pending, IF m \in Poison THEN {} ELSE {m})
  <1> DEFINE p == task[t].pending
             done == IF m \in Poison THEN {} ELSE {m}
  <1>1. Processed(t, m, p, m \notin Poison) /\ InTurn(t, m) /\ UNCHANGED <<mail, starts>>
    BY DEF SkipMessage
  <1>2. \E ok \in BOOLEAN : Processed(t, m, p, ok) /\ done = IF ok THEN {m} ELSE {}
    <2>1. CASE m \in Poison
      BY <1>1, <2>1 DEF Processed
    <2>2. CASE m \notin Poison
      BY <1>1, <2>2 DEF Processed
    <2>3. QED
      BY <2>1, <2>2
  <1>3. p = NoFrame \/ \E l \in ToSet(p.parts) : p.ts = Ts[l]
    BY DEF ConsumerInv, BufferState, PartsOf
  <1>4. QED
    BY <1>1, <1>2, <1>3 DEF Handled, SkipMessage, PartsOf

LEMMA BufferIsHandled ==
  ASSUME ConsumerInv, NEW t \in Tasks, NEW m \in Messages, BufferFirst(t, m)
  PROVE  Handled(t, m, Fragment(m), {m})
  <1> DEFINE p == Fragment(m)
  <1>1. p.ts = Ts[m] /\ ToSet(p.parts) = {m}
    BY FragmentFrame
  <1>2. InTurn(t, m) /\ m \in Usable
    BY DEF BufferFirst, IntoEmpty
  <1>3. Processed(t, m, p, TRUE) /\ UNCHANGED <<mail, casts, starts>>
    BY DEF BufferFirst
  <1> HIDE DEF p
  <1>4. \E ok \in BOOLEAN : Processed(t, m, p, ok) /\ {m} = IF ok THEN {m} ELSE {}
    BY <1>3
  <1>5. Handled(t, m, p, {m})
    BY <1>1, <1>2, <1>3, <1>4 DEF Handled
  <1>6. QED
    BY <1>5 DEF p

LEMMA MergeIsHandled ==
  ASSUME ConsumerInv, NEW t \in Tasks, NEW m \in Messages, MergeFragment(t, m)
  PROVE  Handled(t, m, Merged(task[t].pending, m), {m})
  <1> DEFINE q == task[t].pending
             p == Merged(task[t].pending, m)
  <1>1. q \in Frame
    BY TypedTask DEF ConsumerInv
  <1>2. p.ts \in {Ts[m], q.ts} /\ ToSet(p.parts) = ToSet(q.parts) \cup {m}
    BY <1>1, MergedFrame
  <1>3. InTurn(t, m) /\ m \in Usable /\ q # NoFrame
    BY DEF MergeFragment, AgainstBuffer
  <1>4. Processed(t, m, p, TRUE) /\ UNCHANGED <<mail, casts, starts>>
    BY DEF MergeFragment
  <1>5. PartsOf(t) = ToSet(q.parts)
    BY DEF PartsOf
  <1>6. \E l \in ToSet(q.parts) : q.ts = Ts[l]
    BY <1>3, <1>5 DEF ConsumerInv, BufferState
  <1> HIDE DEF p, q
  <1>7. \E ok \in BOOLEAN : Processed(t, m, p, ok) /\ {m} = IF ok THEN {m} ELSE {}
    BY <1>4
  <1>8. \E l \in ToSet(p.parts) : p.ts = Ts[l]
    BY <1>2, <1>6
  <1>9. Handled(t, m, p, {m})
    BY <1>2, <1>3, <1>4, <1>5, <1>7, <1>8 DEF Handled
  <1>10. QED
    BY <1>9 DEF p

LEMMA DropIsHandled ==
  ASSUME ConsumerInv, NEW t \in Tasks, NEW m \in Messages, DropStale(t, m)
  PROVE  Handled(t, m, task[t].pending, {m})
  <1> DEFINE p == task[t].pending
  <1>1. /\ Processed(t, m, p, TRUE) /\ InTurn(t, m) /\ p # NoFrame
        /\ UNCHANGED <<mail, casts, starts>>
    BY DEF DropStale, AgainstBuffer
  <1>2. p = task[t].pending /\ PartsOf(t) = ToSet(p.parts)
    BY DEF PartsOf
  <1>3. \E l \in ToSet(p.parts) : p.ts = Ts[l]
    BY <1>1 DEF ConsumerInv, BufferState, PartsOf
  <1> HIDE DEF p
  <1>4. \E ok \in BOOLEAN : Processed(t, m, p, ok) /\ {m} = IF ok THEN {m} ELSE {}
    BY <1>1
  <1>5. Handled(t, m, p, {m})
    BY <1>1, <1>2, <1>3, <1>4 DEF Handled
  <1>6. QED
    BY <1>5 DEF p

LEMMA FlushIsHandled ==
  ASSUME ConsumerInv, NEW t \in Tasks, NEW m \in Messages, FlushAndBuffer(t, m)
  PROVE  Handled(t, m, Fragment(m), {m})
  <1> DEFINE p == Fragment(m)
  <1>1. p.ts = Ts[m] /\ ToSet(p.parts) = {m}
    BY FragmentFrame
  <1>2. InTurn(t, m) /\ m \in Usable /\ task[t].pending # NoFrame
    BY DEF FlushAndBuffer, AgainstBuffer
  <1>3. Processed(t, m, p, TRUE) /\ casts' = Cast(t) /\ UNCHANGED <<mail, starts>>
    BY DEF FlushAndBuffer
  <1> HIDE DEF p
  <1>4. \E ok \in BOOLEAN : Processed(t, m, p, ok) /\ {m} = IF ok THEN {m} ELSE {}
    BY <1>3
  <1>5. Handled(t, m, p, {m})
    BY <1>1, <1>2, <1>3, <1>4 DEF Handled
  <1>6. QED
    BY <1>5 DEF p

LEMMA RaiseIsHandled ==
  ASSUME ConsumerInv, NEW t \in Tasks, NEW m \in Messages, FlushRaises(t, m)
  PROVE  Handled(t, m, NoFrame, {})
  <1>1. ToSet(NoFrame.parts) = {}
    BY NoParts DEF NoFrame
  <1>2. InTurn(t, m) /\ Processed(t, m, NoFrame, FALSE) /\ UNCHANGED <<mail, casts, starts>>
    BY DEF FlushRaises, AgainstBuffer
  <1>3. \E ok \in BOOLEAN : Processed(t, m, NoFrame, ok) /\ {} = IF ok THEN {m} ELSE {}
    BY <1>2
  <1>4. QED
    BY <1>1, <1>2, <1>3 DEF Handled

LEMMA SkipMessageInv ==
  ASSUME ConsumerInv, NEW t \in Tasks, NEW m \in Messages, SkipMessage(t, m)
  PROVE  ConsumerInv'
  <1> DEFINE p == task[t].pending
             done == IF m \in Poison THEN {} ELSE {m}
  <1>1. ConsumerTypeOK /\ p \in Frame /\ p.ts \in Nat
    BY TypedTask DEF ConsumerInv
  <1>2. Handled(t, m, p, done)
    BY SkipIsHandled
  <1>3. consumerFaults' = consumerFaults /\ casts' = casts /\ torn' = torn
    BY DEF SkipMessage
  <1>4. m \in Skipped \cup Poison /\ m \notin Usable
    BY DEF SkipMessage, Usable
  <1>5. consumerFaults' \in 0..ConsumerFaults
    BY <1>1, <1>3 DEF ConsumerTypeOK
  <1>6. Calm' => Calm /\ IsInjective(p.parts)
    BY <1>3 DEF Calm, ConsumerInv, CalmState, Apart
  <1>7. PartsOf(t) \subseteq ToSet(p.parts) /\ done \subseteq Skipped
    BY <1>4 DEF PartsOf
  <1> HIDE DEF p, done
  <1>8. QED
    <2>1. p = task[t].pending
      BY DEF p
    <2>2. QED
      BY <1>1, <1>2, <1>3, <1>4, <1>5, <1>6, <1>7, <2>1, HandledInv

LEMMA BufferFirstInv ==
  ASSUME ConsumerInv, NEW t \in Tasks, NEW m \in Messages, BufferFirst(t, m)
  PROVE  ConsumerInv'
  <1> DEFINE p == Fragment(m)
  <1>1. /\ p \in Frame /\ p # NoFrame /\ p.ts = Ts[m] /\ ToSet(p.parts) = {m}
        /\ IsInjective(p.parts)
    BY FragmentFrame
  <1>2. InTurn(t, m) /\ m \in Usable /\ task[t].pending = NoFrame
    BY DEF BufferFirst, IntoEmpty
  <1>3. Processed(t, m, p, TRUE) /\ UNCHANGED <<mail, casts, starts, consumerFaults, torn>>
    BY DEF BufferFirst
  <1>4. Handled(t, m, p, {m})
    BY BufferIsHandled
  <1> HIDE DEF p
  <1>5. PartsOf(t) \subseteq ToSet(p.parts)
    BY <1>2, NoParts DEF PartsOf, NoFrame
  <1>6. consumerFaults' \in 0..ConsumerFaults
    BY <1>3 DEF ConsumerInv, ConsumerTypeOK
  <1>7. Calm' => Calm
    BY <1>3 DEF Calm
  <1>8. QED
    BY <1>1, <1>2, <1>3, <1>4, <1>5, <1>6, <1>7, HandledInv

LEMMA MergeFragmentInv ==
  ASSUME ConsumerInv, NEW t \in Tasks, NEW m \in Messages, MergeFragment(t, m)
  PROVE  ConsumerInv'
  <1> DEFINE q == task[t].pending
             p == Merged(task[t].pending, m)
  <1>0. ConsumerTypeOK /\ q \in Frame /\ q.ts \in Nat /\ Ahead \in BOOLEAN
    BY TypedTask DEF ConsumerInv, Ahead
  <1>1. /\ p \in Frame /\ p # NoFrame /\ p.ts \in {Ts[m], q.ts} /\ p.ts >= q.ts
        /\ ToSet(p.parts) = ToSet(q.parts) \cup {m}
        /\ (IsInjective(q.parts) /\ m \notin ToSet(q.parts)) => IsInjective(p.parts)
    BY <1>0, MergedFrame
  <1>2. InTurn(t, m) /\ m \in Usable /\ q # NoFrame
    BY DEF MergeFragment, AgainstBuffer
  <1>3. Processed(t, m, p, TRUE) /\ UNCHANGED <<mail, casts, starts, consumerFaults, torn>>
    BY DEF MergeFragment
  <1>4. PartsOf(t) = ToSet(q.parts)
    BY DEF PartsOf
  <1>5. Handled(t, m, p, {m})
    BY MergeIsHandled
  <1>6. Calm' => Calm /\ IsInjective(p.parts)
    <2>1. SUFFICES ASSUME Calm' PROVE Calm /\ IsInjective(p.parts)
      OBVIOUS
    <2>2. Calm /\ Ahead /\ Apart
      BY <1>3, <2>1 DEF Calm, ConsumerInv, CalmState
    <2>3. m \notin PartsOf(t) /\ IsInjective(q.parts)
      BY <1>0, <1>2, <2>2, InTurnFresh DEF Apart
    <2>4. QED
      BY <1>1, <1>4, <2>2, <2>3
  <1>7. q = task[t].pending
    OBVIOUS
  <1> HIDE DEF p, q
  <1>8. consumerFaults' \in 0..ConsumerFaults
    BY <1>3 DEF ConsumerInv, ConsumerTypeOK
  <1>9. QED
    BY <1>1, <1>2, <1>3, <1>4, <1>5, <1>6, <1>7, <1>8, HandledInv

LEMMA DropStaleInv ==
  ASSUME ConsumerInv, NEW t \in Tasks, NEW m \in Messages, DropStale(t, m)
  PROVE  ConsumerInv'
  <1> DEFINE p == task[t].pending
  <1>1. ConsumerTypeOK /\ p \in Frame /\ p.ts \in Nat
    BY TypedTask DEF ConsumerInv
  <1>2. /\ Processed(t, m, p, TRUE) /\ InTurn(t, m) /\ p # NoFrame
        /\ UNCHANGED <<mail, casts, starts, consumerFaults, torn>>
    BY DEF DropStale, AgainstBuffer
  <1>3. p = task[t].pending /\ PartsOf(t) = ToSet(p.parts)
    BY DEF PartsOf
  <1>4. Handled(t, m, p, {m})
    BY DropIsHandled
  <1>5. Calm' => Calm /\ IsInjective(p.parts) /\ m \in Late
    BY <1>2, StaleIsLate DEF Calm, ConsumerInv, CalmState, Apart, DropStale
  <1> HIDE DEF p
  <1>6. consumerFaults' \in 0..ConsumerFaults
    BY <1>2 DEF ConsumerInv, ConsumerTypeOK
  <1>7. p.ts >= task[t].pending.ts
    BY <1>1, <1>3
  <1>8. QED
    BY <1>1, <1>2, <1>3, <1>4, <1>5, <1>6, <1>7, HandledInv

LEMMA FlushAndBufferInv ==
  ASSUME ConsumerInv, NEW t \in Tasks, NEW m \in Messages, FlushAndBuffer(t, m)
  PROVE  ConsumerInv'
  <1> DEFINE p == Fragment(m)
  <1>1. /\ p \in Frame /\ p # NoFrame /\ p.ts = Ts[m] /\ ToSet(p.parts) = {m}
        /\ IsInjective(p.parts)
    BY FragmentFrame
  <1>2. InTurn(t, m) /\ m \in Usable /\ task[t].pending # NoFrame
    BY DEF FlushAndBuffer, AgainstBuffer
  <1>3. /\ Processed(t, m, p, TRUE) /\ casts' = Cast(t)
        /\ UNCHANGED <<mail, starts, consumerFaults, torn>>
    BY DEF FlushAndBuffer
  <1>4. p.ts > task[t].pending.ts + Window
    <2>1. Ts[m] \in Nat /\ task[t].pending.ts \in Nat /\ Window \in Nat
      BY TypedTask, ConsumerConstants DEF ConsumerInv
    <2>2. QED
      BY <1>1, <2>1 DEF FlushAndBuffer, Diff
  <1>5. Handled(t, m, p, {m})
    BY FlushIsHandled
  <1> HIDE DEF p
  <1>6. consumerFaults' \in 0..ConsumerFaults
    BY <1>3 DEF ConsumerInv, ConsumerTypeOK
  <1>7. Calm' => Calm
    BY <1>3 DEF Calm
  <1>8. QED
    BY <1>1, <1>2, <1>3, <1>4, <1>5, <1>6, <1>7, HandledInv

LEMMA FlushRaisesInv ==
  ASSUME ConsumerInv, NEW t \in Tasks, NEW m \in Messages, FlushRaises(t, m)
  PROVE  ConsumerInv'
  <1>1. NoFrame \in Frame /\ ToSet(NoFrame.parts) = {}
    BY NoFrameIsAFrame, NoParts DEF NoFrame
  <1>2. /\ InTurn(t, m) /\ Processed(t, m, NoFrame, FALSE)
        /\ UNCHANGED <<mail, casts, starts>> /\ torn' = torn \cup {task[t].id}
    BY DEF FlushRaises, AgainstBuffer
  <1>3. consumerFaults' \in 0..ConsumerFaults /\ ~Calm'
    BY ConsumerConstants DEF FlushRaises, ConsumerFault, ConsumerInv, ConsumerTypeOK, Calm
  <1>4. Handled(t, m, NoFrame, {})
    BY RaiseIsHandled
  <1>5. QED
    BY <1>1, <1>2, <1>3, <1>4, HandledInv
-----------------------------------------------------------------------------
(* THE OTHER STEPS                                                         *)

LEMMA ConsumerInvInit == ConsumerInit => ConsumerInv
  <1> SUFFICES ASSUME ConsumerInit PROVE ConsumerInv
    OBVIOUS
  <1>1. /\ mail = [m \in Messages |-> "unsent"] /\ task = [t \in Tasks |-> Down]
        /\ casts = <<>> /\ starts = 0 /\ consumerFaults = 0 /\ torn = {}
    BY DEF ConsumerInit
  <1>2. Down \in TaskState
    BY DownIsATask
  <1>3. /\ Down.pc = "down" /\ Down.batch = {} /\ Down.acks = {} /\ Down.expired = FALSE
        /\ Down.pending = NoFrame
    BY DEF Down
  <1>4. NoFrame.parts = <<>>
    BY DEF NoFrame
  <1>5. \A t \in Tasks : PartsOf(t) = {} /\ task[t] = Down
    BY <1>1, <1>3, <1>4, NoParts DEF PartsOf
  <1>6. ConsumerTypeOK
    BY <1>1, <1>2, ConsumerConstants DEF ConsumerTypeOK
  <1>7. LoopState
    BY <1>1, <1>3, <1>5 DEF LoopState, AtWork
  <1>8. QueueState
    BY <1>1, <1>3, <1>5 DEF QueueState
  <1>9. BufferState
    BY <1>3, <1>5 DEF BufferState
  <1>10. OrderState
    BY <1>1 DEF OrderState, InOrderPerTask
  <1>11. OneBatch
    BY <1>1, <1>3, <1>5 DEF OneBatch, AtWork, Usable
  <1>12. Ahead
    BY <1>1, <1>5 DEF Ahead
  <1>13. Apart
    BY <1>1, <1>3, <1>4, <1>5, NoParts DEF Apart
  <1>14. AcksKept
    BY <1>3, <1>5 DEF AcksKept
  <1>15. QED
    BY <1>6, <1>7, <1>8, <1>9, <1>10, <1>11, <1>12, <1>13, <1>14 DEF ConsumerInv, CalmState

LEMMA PublishInv ==
  ASSUME ConsumerInv, NEW m \in Messages, Publish(m)
  PROVE  ConsumerInv'
  <1> USE DEF ConsumerInv
  <1>1. /\ mail[m] = "unsent" /\ \A l \in Messages : l < m => mail[l] # "unsent"
        /\ mail' = [mail EXCEPT ![m] = "visible"]
        /\ task' = task /\ casts' = casts /\ starts' = starts
        /\ consumerFaults' = consumerFaults /\ torn' = torn
    BY DEF Publish
  <1>2. mail \in [Messages -> {"unsent", "visible", "inflight", "deleted"}]
    BY DEF ConsumerTypeOK
  <1>3. /\ mail'[m] = "visible" /\ \A l \in Messages : l # m => mail'[l] = mail[l]
        /\ mail' \in [Messages -> {"unsent", "visible", "inflight", "deleted"}]
    BY <1>1, <1>2
  <1>4. \A l \in Messages : mail[l] # "unsent" => mail'[l] = mail[l]
    BY <1>1, <1>3
  <1>5. ConsumerTypeOK'
    BY <1>1, <1>3 DEF ConsumerTypeOK
  <1>6. LoopState' /\ BufferState' /\ OrderState'
    BY <1>1 DEF LoopState, BufferState, OrderState, AtWork, PartsOf, InOrderPerTask
  <1>7. QueueState'
    <2>1. \A l, n \in Messages : (l < n /\ mail'[l] = "unsent") => mail'[n] = "unsent"
      <3>1. SUFFICES ASSUME NEW l \in Messages, NEW n \in Messages, l < n, mail'[l] = "unsent"
                     PROVE  mail'[n] = "unsent"
        OBVIOUS
      <3>2. l # m /\ mail[l] = "unsent"
        BY <1>3, <3>1
      <3>3. mail[n] = "unsent" /\ ~(l < m)
        BY <1>1, <3>1, <3>2 DEF QueueState
      <3>4. n # m
        BY <3>1, <3>3
      <3>5. QED
        BY <1>3, <3>3, <3>4
    <2>2. \A l \in Messages : mail[l] # "unsent" => mail'[l] # "unsent"
      BY <1>4
    <2>3. \A t \in Tasks : PartsOf(t)' = PartsOf(t) /\ PartsOf(t) \subseteq Messages
      BY <1>1, TypedTask DEF PartsOf
    <2>4. \A t \in Tasks : task[t].batch \subseteq Messages /\ task[t].acks \subseteq Messages
      BY TypedTask
    <2>5. QED
      BY <1>1, <2>1, <2>2, <2>3, <2>4 DEF QueueState, Usable
  <1>8. ASSUME OneBatch, Ahead, Apart, AcksKept
        PROVE  OneBatch' /\ Ahead' /\ Apart' /\ AcksKept'
    <2>1. \A t \in Tasks : AtWork(t)' <=> AtWork(t)
      BY <1>1 DEF AtWork
    <2>2. \A l \in Messages : mail[l] = "inflight" <=> mail'[l] = "inflight"
      BY <1>1, <1>3
    <2>3. \A t \in Tasks : task[t].batch \subseteq Messages /\ task[t].acks \subseteq Messages
      BY TypedTask
    <2>4. \A t \in Tasks : \A l \in task[t].batch, n \in Messages : mail'[n] = "visible" => l < n
      <3>1. SUFFICES ASSUME NEW t \in Tasks, NEW l \in task[t].batch, NEW n \in Messages,
                            mail'[n] = "visible"
                     PROVE  l < n
        OBVIOUS
      <3>2. CASE n # m
        BY <1>3, <1>8, <3>1, <3>2 DEF OneBatch
      <3>3. CASE n = m
        <4>1. l \in Nat /\ m \in Nat /\ l \in Messages
          BY <2>3, ConsumerConstants
        <4>2. mail[l] = "inflight"
          BY <1>8 DEF OneBatch
        <4>3. ~(m < l) /\ l # m
          BY <1>1, <4>1, <4>2 DEF QueueState
        <4>4. QED
          BY <3>3, <4>1, <4>3
      <3>4. QED
        BY <3>2, <3>3
    <2>5. OneBatch'
      BY <1>1, <1>8, <2>1, <2>2, <2>3, <2>4 DEF OneBatch, Usable
    <2>6. \A n \in Usable : ToCome(n)' => ToCome(n)
      BY <1>1, <1>3 DEF ToCome, Usable
    <2>7. \A t \in Tasks : PartsOf(t)' = PartsOf(t)
      BY <1>1 DEF PartsOf
    <2>8. Ahead'
      BY <1>1, <1>8, <2>6, <2>7 DEF Ahead
    <2>9. Apart' /\ AcksKept'
      BY <1>1, <1>8, <2>7 DEF Apart, AcksKept, HeldParts, BroadcastParts
    <2>10. QED
      BY <2>5, <2>8, <2>9
  <1>9. QED
    BY <1>1, <1>5, <1>6, <1>7, <1>8 DEF CalmState, Calm

LEMMA VisibilityTimeoutTask ==
  ASSUME ConsumerTypeOK, VisibilityTimeout
  PROVE  /\ task' \in [Tasks -> TaskState]
         /\ \A t \in Tasks : /\ task'[t].pc = task[t].pc /\ task'[t].id = task[t].id
                             /\ task'[t].batch = task[t].batch /\ task'[t].acks = task[t].acks
                             /\ task'[t].pending = task[t].pending
                             /\ task'[t].stopping = task[t].stopping
                             /\ task'[t].expired = AtWork(t)
  <1>1. task \in [Tasks -> TaskState]
    BY DEF ConsumerTypeOK
  <1>2. task' = [t \in Tasks |-> [task[t] EXCEPT !.expired = AtWork(t)]]
    BY DEF VisibilityTimeout
  <1>3. ASSUME NEW t \in Tasks
        PROVE  /\ task'[t] \in TaskState
               /\ task'[t].pc = task[t].pc /\ task'[t].id = task[t].id
               /\ task'[t].batch = task[t].batch /\ task'[t].acks = task[t].acks
               /\ task'[t].pending = task[t].pending
               /\ task'[t].stopping = task[t].stopping
               /\ task'[t].expired = AtWork(t)
    <2>1. task[t] \in TaskState /\ task'[t] = [task[t] EXCEPT !.expired = AtWork(t)]
      BY <1>1, <1>2
    <2>2. AtWork(t) \in BOOLEAN
      BY DEF AtWork
    <2>3. QED
      BY <2>1, <2>2 DEF TaskState
  <1>4. QED
    BY <1>2, <1>3

LEMMA VisibilityTimeoutInv ==
  ASSUME ConsumerInv, VisibilityTimeout
  PROVE  ConsumerInv'
  <1> USE DEF ConsumerInv
  <1>1. /\ mail' = [m \in Messages |-> IF mail[m] = "inflight" THEN "visible" ELSE mail[m]]
        /\ casts' = casts /\ starts' = starts /\ torn' = torn
        /\ IF \E t \in Tasks : AtWork(t) /\ ~task[t].expired
           THEN ConsumerFault ELSE consumerFaults' = consumerFaults
    BY DEF VisibilityTimeout
  <1>2. /\ task' \in [Tasks -> TaskState]
        /\ \A t \in Tasks : /\ task'[t].pc = task[t].pc /\ task'[t].id = task[t].id
                            /\ task'[t].batch = task[t].batch /\ task'[t].acks = task[t].acks
                            /\ task'[t].pending = task[t].pending
                            /\ task'[t].stopping = task[t].stopping
                            /\ task'[t].expired = AtWork(t)
    BY VisibilityTimeoutTask
  <1>3. mail \in [Messages -> {"unsent", "visible", "inflight", "deleted"}]
    BY DEF ConsumerTypeOK
  <1>4. /\ mail' \in [Messages -> {"unsent", "visible", "inflight", "deleted"}]
        /\ \A m \in Messages : /\ mail'[m] = "unsent" <=> mail[m] = "unsent"
                               /\ mail'[m] # "inflight"
                               /\ mail'[m] = "visible" => mail[m] \in {"visible", "inflight"}
    BY <1>1, <1>3
  <1>5. consumerFaults' \in 0..ConsumerFaults /\ (Calm' => Calm)
    BY <1>1, ConsumerConstants DEF ConsumerFault, ConsumerTypeOK, Calm
  <1>6. \A t \in Tasks : (AtWork(t)' <=> AtWork(t)) /\ PartsOf(t)' = PartsOf(t)
    BY <1>2 DEF AtWork, PartsOf
  <1>7. ConsumerTypeOK'
    BY <1>1, <1>2, <1>4, <1>5 DEF ConsumerTypeOK
  <1>8. LoopState'
    <2>1. SUFFICES ASSUME NEW t \in Tasks
                   PROVE  /\ task'[t].pc = "process" <=> task'[t].batch # {}
                          /\ ~AtWork(t)' => task'[t].acks = {} /\ ~task'[t].expired
                          /\ task'[t].pc = "down" => task'[t].pending = NoFrame
                          /\ task'[t].pc # "down" => task'[t].id \in 1..starts'
                          /\ \A u \in Tasks :
                               (task'[t].pc # "down" /\ task'[u].pc # "down"
                                  /\ task'[t].id = task'[u].id) => t = u
      BY DEF LoopState
    <2>2. task'[t].expired = AtWork(t) /\ (AtWork(t)' <=> AtWork(t))
      BY <1>2, <1>6
    <2>3. QED
      BY <1>1, <1>2, <2>2 DEF LoopState
  <1>9. \A t \in Tasks : task[t].batch \subseteq Messages /\ task[t].acks \subseteq Messages
                         /\ PartsOf(t) \subseteq Messages
    BY TypedTask
  <1>10. QueueState' /\ BufferState'
    BY <1>1, <1>2, <1>4, <1>6, <1>9 DEF QueueState, BufferState, Usable
  <1>11. OrderState'
    BY <1>1, <1>2 DEF OrderState, InOrderPerTask
  <1>12. ASSUME Calm'
         PROVE  OneBatch' /\ Ahead' /\ Apart' /\ AcksKept'
    <2>1. OneBatch /\ Ahead /\ Apart /\ AcksKept
      BY <1>5, <1>12 DEF CalmState
    <2>2. \A t \in Tasks : ~AtWork(t)
      BY <1>1, <1>12, <2>1, ConsumerConstants DEF OneBatch, Calm, ConsumerFault, ConsumerTypeOK
    <2>3. \A t \in Tasks : task'[t].batch = {} /\ ~task'[t].expired
      BY <1>2, <2>2 DEF LoopState, AtWork
    <2>4. \A m \in Usable : mail[m] # "inflight"
      BY <2>1, <2>2 DEF OneBatch
    <2>5. OneBatch'
      BY <1>4, <1>6, <2>2, <2>3 DEF OneBatch, Usable
    <2>6. \A n \in Usable : ToCome(n)' => ToCome(n)
      BY <1>4, <2>3, <2>4 DEF ToCome, Usable
    <2>7. Ahead'
      BY <1>1, <1>6, <2>1, <2>6 DEF Ahead
    <2>8. Apart'
      BY <1>1, <1>2, <1>6, <2>1 DEF Apart
    <2>9. HeldParts' = HeldParts /\ BroadcastParts' = BroadcastParts
      <3>1. HeldParts \subseteq HeldParts' /\ HeldParts' \subseteq HeldParts
        BY <1>6, InHeld, InHeldNext
      <3>2. QED
        BY <1>1, <3>1 DEF BroadcastParts
    <2>10. AcksKept'
      BY <1>2, <2>1, <2>9 DEF AcksKept
    <2>11. QED
      BY <2>5, <2>7, <2>8, <2>10
  <1>13. QED
    BY <1>7, <1>8, <1>10, <1>11, <1>12 DEF CalmState

(* The batch is what stands first in the queue.                            *)
LEMMA BatchIsFirst ==
  /\ NextBatch \subseteq Visible
  /\ \A l \in NextBatch, m \in Visible : m \notin NextBatch => l < m
  <1>1. SUFFICES ASSUME NEW l \in NextBatch, NEW m \in Visible, m \notin NextBatch
                 PROVE  l < m
    BY DEF NextBatch
  <1>2. l \in Nat /\ m \in Nat /\ BatchSize \in Nat /\ l # m
    BY <1>1, ConsumerConstants DEF NextBatch, Visible
  <1>3. SUFFICES ASSUME m < l PROVE FALSE
    BY <1>2
  <1> DEFINE before(n) == {k \in Visible : k < n}
  <1>4. before(m) \subseteq before(l) /\ before(l) \subseteq Messages
    <2>1. Visible \subseteq Messages /\ \A k \in Visible : k \in Nat
      BY ConsumerConstants DEF Visible
    <2>2. \A k \in Visible : k < m => k < l
      BY <1>2, <1>3, <2>1
    <2>3. QED
      BY <2>1, <2>2
  <1>5. IsFiniteSet(before(l))
    BY <1>4, ConsumerConstants, FS_Subset
  <1>6. IsFiniteSet(before(m)) /\ Cardinality(before(m)) <= Cardinality(before(l))
    BY <1>4, <1>5, FS_Subset
  <1>7. Cardinality(before(l)) \in Nat /\ Cardinality(before(m)) \in Nat
    BY <1>5, <1>6, FS_CardinalityType
  <1>8. Cardinality(before(l)) < BatchSize /\ ~(Cardinality(before(m)) < BatchSize)
    BY <1>1 DEF NextBatch
  <1> HIDE DEF before
  <1>9. QED
    BY <1>2, <1>6, <1>7, <1>8

LEMMA ReceiveInv ==
  ASSUME ConsumerInv, NEW t \in Tasks, Receive(t)
  PROVE  ConsumerInv'
  <1> USE DEF ConsumerInv
  <1>1. /\ task[t].pc = "poll" /\ NextBatch # {} /\ \A m \in Messages : mail[m] # "inflight"
        /\ mail' = [m \in Messages |-> IF m \in NextBatch THEN "inflight" ELSE mail[m]]
        /\ casts' = casts /\ starts' = starts /\ torn' = torn /\ consumerFaults' = consumerFaults
    BY DEF Receive
  <1>2. /\ NextBatch \subseteq Messages /\ \A m \in NextBatch : mail[m] = "visible"
        /\ \A l \in NextBatch, m \in Messages : (mail[m] = "visible" /\ m \notin NextBatch) => l < m
    BY BatchIsFirst DEF Visible
  <1> DEFINE B == NextBatch
             new == [task[t] EXCEPT !.pc = "process", !.batch = B, !.acks = {}]
  <1>3. task \in [Tasks -> TaskState] /\ task[t] \in TaskState
    BY DEF ConsumerTypeOK
  <1>4. task' = [task EXCEPT ![t] = new]
    BY <1>3 DEF Receive, TaskState
  <1>5. /\ new \in TaskState /\ new.pc = "process" /\ new.batch = B /\ new.acks = {}
        /\ new.pending = task[t].pending /\ new.id = task[t].id /\ new.expired = task[t].expired
    BY <1>2, <1>3 DEF TaskState
  <1> HIDE DEF new
  <1>6. /\ task' \in [Tasks -> TaskState] /\ \A u \in Tasks : u # t => task'[u] = task[u]
        /\ task'[t].pc = "process" /\ task'[t].batch = B /\ task'[t].acks = {}
        /\ task'[t].pending = task[t].pending /\ task'[t].id = task[t].id
        /\ task'[t].expired = task[t].expired
    BY <1>3, <1>4, <1>5
  <1>7. B # {} /\ B \subseteq Messages /\ (\A m \in B : mail[m] = "visible" /\ mail'[m] = "inflight")
    BY <1>1, <1>2
  <1>8. /\ mail' \in [Messages -> {"unsent", "visible", "inflight", "deleted"}]
        /\ \A m \in Messages : /\ mail'[m] = "unsent" <=> mail[m] = "unsent"
                               /\ mail'[m] = "visible" => mail[m] = "visible" /\ m \notin B
                               /\ mail'[m] = "inflight" <=> m \in B
    BY <1>1, <1>2 DEF ConsumerTypeOK
  <1>9. \A l \in B, m \in Messages : mail'[m] = "visible" => l < m
    BY <1>2, <1>8
  <1> HIDE DEF B
  <1>10. \A u \in Tasks : PartsOf(u)' = PartsOf(u) /\ task'[u].pending = task[u].pending
    BY <1>6 DEF PartsOf
  <1>11. ~AtWork(t) /\ task[t].batch = {} /\ ~task[t].expired /\ task[t].acks = {}
    BY <1>1 DEF LoopState, AtWork
  <1>12. ConsumerTypeOK'
    BY <1>1, <1>6, <1>8 DEF ConsumerTypeOK
  <1>13. LoopState'
    <2>1. SUFFICES ASSUME NEW u \in Tasks
                   PROVE  /\ task'[u].pc = "process" <=> task'[u].batch # {}
                          /\ ~AtWork(u)' => task'[u].acks = {} /\ ~task'[u].expired
                          /\ task'[u].pc = "down" => task'[u].pending = NoFrame
                          /\ task'[u].pc # "down" => task'[u].id \in 1..starts'
                          /\ \A v \in Tasks :
                               (task'[u].pc # "down" /\ task'[v].pc # "down"
                                  /\ task'[u].id = task'[v].id) => u = v
      BY DEF LoopState
    <2>2. /\ \A v \in Tasks : task'[v].pc # "down" <=> task[v].pc # "down"
          /\ \A v \in Tasks : task'[v].id = task[v].id
      BY <1>1, <1>6
    <2>3. CASE u = t
      BY <1>1, <1>6, <1>7, <1>11, <2>2, <2>3 DEF LoopState
    <2>4. CASE u # t
      BY <1>1, <1>6, <2>2, <2>4 DEF LoopState, AtWork
    <2>5. QED
      BY <2>3, <2>4
  <1>14. \A u \in Tasks : task[u].batch \subseteq Messages /\ task[u].acks \subseteq Messages
                          /\ PartsOf(u) \subseteq Messages
    BY TypedTask
  <1>15. \A u \in Tasks : /\ task'[u].batch \subseteq task[u].batch \cup B
                          /\ task'[u].acks \subseteq task[u].acks
    BY <1>6
  <1>16. QueueState' /\ BufferState'
    <2>1. \A m \in Messages : mail[m] # "unsent" => mail'[m] # "unsent"
      BY <1>8
    <2>2. \A m \in B : m \in Messages /\ mail[m] # "unsent"
      BY <1>7
    <2>3. \A u \in Tasks : \A m \in task'[u].batch : mail'[m] # "unsent"
      BY <1>14, <1>15, <2>1, <2>2 DEF QueueState
    <2>4. QED
      BY <1>1, <1>8, <1>10, <1>14, <1>15, <2>1, <2>3 DEF QueueState, BufferState, Usable
  <1>17. OrderState'
    <2>1. \A u \in Tasks : (task'[u].pc # "down" <=> task[u].pc # "down") /\ task'[u].id = task[u].id
      BY <1>1, <1>6
    <2>2. QED
      BY <1>1, <1>10, <2>1 DEF OrderState, InOrderPerTask
  <1>18. ASSUME Calm'
         PROVE  OneBatch' /\ Ahead' /\ Apart' /\ AcksKept'
    <2>1. OneBatch /\ Ahead /\ Apart /\ AcksKept
      BY <1>1, <1>18 DEF CalmState, Calm
    <2>2. \A u \in Tasks : ~AtWork(u)
      BY <1>1, <2>1 DEF OneBatch
    <2>3. \A u \in Tasks : (AtWork(u)' <=> u = t) /\ (u # t => task'[u].batch = {})
      BY <1>6, <2>2 DEF AtWork, LoopState
    <2>4. \A u \in Tasks : ~task'[u].expired
      BY <1>6, <2>1 DEF OneBatch
    <2>5. OneBatch'
      BY <1>6, <1>7, <1>8, <1>9, <2>3, <2>4 DEF OneBatch, Usable
    <2>6. \A n \in Usable : ToCome(n)' => ToCome(n)
      BY <1>6, <1>7, <1>8, <2>3 DEF ToCome, Usable
    <2>7. Ahead'
      BY <1>1, <1>10, <2>1, <2>6 DEF Ahead
    <2>8. Apart'
      BY <1>1, <1>10, <2>1 DEF Apart
    <2>9. HeldParts \subseteq HeldParts' /\ BroadcastParts' = BroadcastParts
      BY <1>1, <1>10, InHeld, InHeldNext DEF BroadcastParts
    <2>10. AcksKept'
      BY <1>15, <2>1, <2>9 DEF AcksKept
    <2>11. QED
      BY <2>5, <2>7, <2>8, <2>10
  <1>19. QED
    BY <1>12, <1>13, <1>16, <1>17, <1>18 DEF CalmState

LEMMA DeleteBatchInv ==
  ASSUME ConsumerInv, NEW t \in Tasks, DeleteBatch(t)
  PROVE  ConsumerInv'
  <1> USE DEF ConsumerInv
  <1> DEFINE valid == IF task[t].expired THEN {} ELSE task[t].acks
             new == [task[t] EXCEPT !.pc = "poll", !.acks = {}, !.expired = FALSE]
  <1>1. PICK done \in SUBSET valid :
          /\ IF done = valid THEN UNCHANGED consumerFaults ELSE ConsumerFault
          /\ mail' = [m \in Messages |-> IF m \in done THEN "deleted" ELSE mail[m]]
    BY DEF DeleteBatch
  <1>2. /\ task[t].pc = "delete" /\ casts' = casts /\ starts' = starts /\ torn' = torn
    BY DEF DeleteBatch
  <1>3. task \in [Tasks -> TaskState] /\ task[t] \in TaskState
    BY DEF ConsumerTypeOK
  <1>4. task' = [task EXCEPT ![t] = new]
    BY <1>3 DEF DeleteBatch, TaskState
  <1>5. /\ new \in TaskState /\ new.pc = "poll" /\ new.batch = task[t].batch /\ new.acks = {}
        /\ new.pending = task[t].pending /\ new.id = task[t].id /\ new.expired = FALSE
    BY <1>3 DEF TaskState
  <1> HIDE DEF new
  <1>6. /\ task' \in [Tasks -> TaskState] /\ \A u \in Tasks : u # t => task'[u] = task[u]
        /\ task'[t].pc = "poll" /\ task'[t].batch = task[t].batch /\ task'[t].acks = {}
        /\ task'[t].pending = task[t].pending /\ task'[t].id = task[t].id
        /\ task'[t].expired = FALSE
    BY <1>3, <1>4, <1>5
  <1>7. consumerFaults' \in 0..ConsumerFaults
        /\ (Calm' => Calm /\ consumerFaults' = consumerFaults /\ done = valid)
    BY <1>1, ConsumerConstants DEF ConsumerFault, ConsumerTypeOK, Calm
  <1>8. done \subseteq task[t].acks
    BY <1>1
  <1>9. /\ mail' \in [Messages -> {"unsent", "visible", "inflight", "deleted"}]
        /\ \A m \in Messages : /\ m \in done => mail'[m] = "deleted"
                               /\ m \notin done => mail'[m] = mail[m]
    BY <1>1 DEF ConsumerTypeOK
  <1>10. \A u \in Tasks : /\ PartsOf(u)' = PartsOf(u) /\ task'[u].pending = task[u].pending
                          /\ task'[u].batch = task[u].batch /\ task'[u].id = task[u].id
                          /\ task'[u].acks \subseteq task[u].acks
    BY <1>6 DEF PartsOf
  <1>11. task[t].batch = {}
    BY <1>2 DEF LoopState
  <1>12. \A u \in Tasks : task'[u].pc # "down" <=> task[u].pc # "down"
    BY <1>2, <1>6
  <1>13. \A u \in Tasks : task[u].batch \subseteq Messages /\ task[u].acks \subseteq Messages
                          /\ PartsOf(u) \subseteq Messages
    BY TypedTask
  <1>14. ConsumerTypeOK'
    BY <1>2, <1>6, <1>7, <1>9 DEF ConsumerTypeOK
  <1>15. LoopState'
    <2>1. SUFFICES ASSUME NEW u \in Tasks
                   PROVE  /\ task'[u].pc = "process" <=> task'[u].batch # {}
                          /\ ~AtWork(u)' => task'[u].acks = {} /\ ~task'[u].expired
                          /\ task'[u].pc = "down" => task'[u].pending = NoFrame
                          /\ task'[u].pc # "down" => task'[u].id \in 1..starts'
                          /\ \A v \in Tasks :
                               (task'[u].pc # "down" /\ task'[v].pc # "down"
                                  /\ task'[u].id = task'[v].id) => u = v
      BY DEF LoopState
    <2>2. CASE u = t
      BY <1>2, <1>6, <1>10, <1>11, <1>12, <2>2 DEF LoopState
    <2>3. CASE u # t
      BY <1>2, <1>6, <1>10, <1>12, <2>3 DEF LoopState, AtWork
    <2>4. QED
      BY <2>2, <2>3
  <1>16. \A m \in Messages : mail'[m] = "unsent" <=> mail[m] = "unsent"
    <2>1. \A m \in task[t].acks : mail[m] # "unsent"
      BY DEF QueueState
    <2>2. QED
      BY <1>8, <1>9, <2>1
  <1>17. QueueState' /\ BufferState'
    BY <1>2, <1>10, <1>13, <1>16 DEF QueueState, BufferState, Usable
  <1>18. OrderState'
    BY <1>2, <1>10, <1>12 DEF OrderState, InOrderPerTask
  <1>19. ASSUME Calm'
         PROVE  OneBatch' /\ Ahead' /\ Apart' /\ AcksKept'
    <2>1. OneBatch /\ Ahead /\ Apart /\ AcksKept
      BY <1>7, <1>19 DEF CalmState
    <2>2. \A u \in Tasks : AtWork(u) <=> u = t
      BY <1>2, <2>1 DEF OneBatch, AtWork
    <2>3. \A u \in Tasks : ~AtWork(u)' /\ task'[u].batch = {} /\ ~task'[u].expired
      BY <1>6, <1>11, <2>1, <2>2 DEF AtWork, LoopState, OneBatch
    <2>4. done = task[t].acks
      BY <1>7, <1>19, <2>1 DEF OneBatch
    <2>5. \A m \in Usable : mail'[m] # "inflight"
      BY <1>9, <1>11, <2>1, <2>2, <2>4 DEF OneBatch, Usable
    <2>6. OneBatch'
      BY <2>3, <2>5 DEF OneBatch
    <2>7. \A n \in Usable : ToCome(n)' => ToCome(n)
      BY <1>9, <2>3 DEF ToCome, Usable
    <2>8. Ahead'
      BY <1>2, <1>10, <2>1, <2>7 DEF Ahead
    <2>9. Apart'
      BY <1>2, <1>10, <2>1 DEF Apart
    <2>10. HeldParts \subseteq HeldParts' /\ BroadcastParts' = BroadcastParts
      BY <1>2, <1>10, InHeld, InHeldNext DEF BroadcastParts
    <2>11. AcksKept'
      BY <1>10, <2>1, <2>10 DEF AcksKept
    <2>12. QED
      BY <2>6, <2>8, <2>9, <2>11
  <1>20. QED
    BY <1>14, <1>15, <1>17, <1>18, <1>19 DEF CalmState

(* A task starts, with an id nobody had.                                   *)
LEMMA StartTaskInv ==
  ASSUME ConsumerInv, NEW t \in Tasks, StartTask(t)
  PROVE  ConsumerInv'
  <1> USE DEF ConsumerInv
  <1>1. /\ task[t].pc = "down" /\ starts < TaskStarts /\ starts' = starts + 1
        /\ mail' = mail /\ casts' = casts /\ consumerFaults' = consumerFaults /\ torn' = torn
    BY DEF StartTask
  <1> DEFINE new == [Down EXCEPT !.pc = "poll", !.id = starts + 1]
  <1>2. starts \in Nat /\ starts' \in 0..TaskStarts /\ task \in [Tasks -> TaskState]
    BY <1>1, ConsumerConstants DEF ConsumerTypeOK
  <1>3. /\ new.pc = "poll" /\ new.batch = {} /\ new.acks = {} /\ new.pending = NoFrame
        /\ new.id = starts + 1 /\ new.expired = FALSE /\ new \in TaskState
    BY <1>1, <1>2, DownIsATask DEF Down, TaskState
  <1>4. task' = [task EXCEPT ![t] = new]
    BY DEF StartTask
  <1> HIDE DEF new
  <1>5. /\ task' \in [Tasks -> TaskState] /\ \A u \in Tasks : u # t => task'[u] = task[u]
        /\ task'[t].pc = "poll" /\ task'[t].batch = {} /\ task'[t].acks = {}
        /\ task'[t].pending = NoFrame /\ task'[t].id = starts + 1 /\ task'[t].expired = FALSE
    BY <1>2, <1>3, <1>4
  <1>6. /\ ~AtWork(t) /\ task[t].batch = {} /\ task[t].acks = {} /\ ~task[t].expired
        /\ task[t].pending = NoFrame
    BY <1>1 DEF LoopState, AtWork
  <1>7. \A u \in Tasks : /\ task'[u].pending = task[u].pending /\ PartsOf(u)' = PartsOf(u)
                         /\ task'[u].batch = task[u].batch /\ task'[u].acks = task[u].acks
                         /\ (AtWork(u)' <=> AtWork(u)) /\ (task'[u].expired <=> task[u].expired)
    BY <1>5, <1>6 DEF PartsOf, AtWork
  <1>8. ConsumerTypeOK'
    BY <1>1, <1>2, <1>5 DEF ConsumerTypeOK
  <1>9. LoopState'
    <2>1. SUFFICES ASSUME NEW u \in Tasks
                   PROVE  /\ task'[u].pc = "process" <=> task'[u].batch # {}
                          /\ ~AtWork(u)' => task'[u].acks = {} /\ ~task'[u].expired
                          /\ task'[u].pc = "down" => task'[u].pending = NoFrame
                          /\ task'[u].pc # "down" => task'[u].id \in 1..starts'
                          /\ \A v \in Tasks :
                               (task'[u].pc # "down" /\ task'[v].pc # "down"
                                  /\ task'[u].id = task'[v].id) => u = v
      BY DEF LoopState
    <2>2. \A v \in Tasks : v # t => (task[v].pc # "down" => task[v].id \in 1..starts)
      BY DEF LoopState
    <2>3. CASE u = t
      BY <1>1, <1>2, <1>5, <2>2, <2>3
    <2>4. CASE u # t
      BY <1>1, <1>2, <1>5, <1>7, <2>2, <2>4 DEF LoopState
    <2>5. QED
      BY <2>3, <2>4
  <1>10. QueueState' /\ BufferState'
    BY <1>1, <1>7 DEF QueueState, BufferState
  <1>11. OrderState'
    <2>1. \A i \in DOMAIN casts : casts[i].id \in 1..starts /\ casts[i].id # starts + 1
      BY <1>2 DEF OrderState
    <2>2. \A i \in DOMAIN casts' : casts'[i].id \in 1..starts'
      BY <1>1, <1>2, <2>1
    <2>3. ASSUME NEW u \in Tasks, NEW i \in DOMAIN casts', task'[u].pc # "down",
                 task'[u].id = casts'[i].id, casts'[i].id \notin torn'
          PROVE  task'[u].pending # NoFrame /\ task'[u].pending.ts > casts'[i].ts + Window
      <3>1. u # t
        BY <1>1, <1>5, <2>1, <2>3
      <3>2. QED
        BY <1>1, <1>5, <2>3, <3>1 DEF OrderState
    <2>4. QED
      BY <1>1, <2>2, <2>3 DEF OrderState, InOrderPerTask
  <1>12. CalmState'
    <2>1. \A n \in Usable : ToCome(n)' <=> ToCome(n)
      BY <1>1, <1>7 DEF ToCome
    <2>2. OneBatch => OneBatch'
      BY <1>1, <1>7 DEF OneBatch
    <2>3. Ahead => Ahead'
      BY <1>1, <1>7, <2>1 DEF Ahead
    <2>4. Apart => Apart'
      BY <1>1, <1>7 DEF Apart
    <2>5. HeldParts \subseteq HeldParts' /\ BroadcastParts' = BroadcastParts
      BY <1>1, <1>7, InHeld, InHeldNext DEF BroadcastParts
    <2>6. AcksKept => AcksKept'
      BY <1>7, <2>5 DEF AcksKept
    <2>7. QED
      BY <1>1, <2>2, <2>3, <2>4, <2>6 DEF CalmState, Calm
  <1>13. QED
    BY <1>8, <1>9, <1>10, <1>11, <1>12

LEMMA SigtermInv ==
  ASSUME ConsumerInv, NEW t \in Tasks, Sigterm(t)
  PROVE  ConsumerInv'
  <1> USE DEF ConsumerInv
  <1>1. /\ starts' = starts /\ mail' = mail /\ casts' = casts
        /\ consumerFaults' = consumerFaults /\ torn' = torn
    BY DEF Sigterm
  <1> DEFINE new == [task[t] EXCEPT !.stopping = TRUE]
  <1>2. task \in [Tasks -> TaskState] /\ task[t] \in TaskState
    BY DEF ConsumerTypeOK
  <1>3. /\ new.pc = task[t].pc /\ new.batch = task[t].batch /\ new.acks = task[t].acks
        /\ new.pending = task[t].pending /\ new.id = task[t].id
        /\ new.expired = task[t].expired /\ new \in TaskState
    BY <1>2 DEF TaskState
  <1>4. task' = [task EXCEPT ![t] = new]
    BY <1>2 DEF Sigterm
  <1> HIDE DEF new
  <1>5. /\ task' \in [Tasks -> TaskState]
        /\ \A u \in Tasks :
             /\ task'[u].pc = task[u].pc /\ task'[u].batch = task[u].batch
             /\ task'[u].acks = task[u].acks /\ task'[u].pending = task[u].pending
             /\ task'[u].id = task[u].id /\ task'[u].expired = task[u].expired
    BY <1>2, <1>3, <1>4
  <1>6. \A u \in Tasks : (AtWork(u)' <=> AtWork(u)) /\ PartsOf(u)' = PartsOf(u)
    BY <1>5 DEF AtWork, PartsOf
  <1>7. ConsumerTypeOK'
    BY <1>1, <1>5 DEF ConsumerTypeOK
  <1>8. LoopState'
    BY <1>1, <1>5, <1>6 DEF LoopState
  <1>9. QueueState' /\ BufferState'
    BY <1>1, <1>5, <1>6 DEF QueueState, BufferState
  <1>10. OrderState'
    BY <1>1, <1>5 DEF OrderState, InOrderPerTask
  <1>11. CalmState'
    <2>1. \A n \in Usable : ToCome(n)' <=> ToCome(n)
      BY <1>1, <1>5 DEF ToCome
    <2>2. OneBatch => OneBatch'
      BY <1>1, <1>5, <1>6 DEF OneBatch
    <2>3. Ahead => Ahead'
      BY <1>1, <1>6, <2>1 DEF Ahead
    <2>4. Apart => Apart'
      BY <1>1, <1>5, <1>6 DEF Apart
    <2>5. HeldParts \subseteq HeldParts' /\ BroadcastParts' = BroadcastParts
      BY <1>1, <1>6, InHeld, InHeldNext DEF BroadcastParts
    <2>6. AcksKept => AcksKept'
      BY <1>5, <2>5 DEF AcksKept
    <2>7. QED
      BY <1>1, <2>2, <2>3, <2>4, <2>6 DEF CalmState, Calm
  <1>12. QED
    BY <1>7, <1>8, <1>9, <1>10, <1>11

(* A task stops: its last frame is broadcast, or something has failed.     *)
LEMMA StopInv ==
  ASSUME ConsumerInv, NEW t \in Tasks, task[t].pc # "down", task' = [task EXCEPT ![t] = Down],
         UNCHANGED <<mail, starts, torn>>, consumerFaults' \in 0..ConsumerFaults,
         casts' = casts \/ (task[t].pending # NoFrame /\ casts' = Cast(t)),
         Calm' => /\ Calm /\ task[t].pc = "poll"
                  /\ casts' = Cast(t) \/ task[t].pending = NoFrame
  PROVE  ConsumerInv'
  <1> USE DEF ConsumerInv
  <1>1. /\ task \in [Tasks -> TaskState] /\ Down \in TaskState /\ Down.pc = "down"
        /\ Down.batch = {} /\ Down.acks = {} /\ Down.pending = NoFrame /\ Down.expired = FALSE
    BY DownIsATask DEF ConsumerTypeOK, Down
  <1>2. /\ task' \in [Tasks -> TaskState] /\ \A u \in Tasks : u # t => task'[u] = task[u]
        /\ task'[t].pc = "down" /\ task'[t].batch = {} /\ task'[t].acks = {}
        /\ task'[t].pending = NoFrame /\ task'[t].expired = FALSE
    BY <1>1
  <1>3. /\ casts' \in Seq(CastOf) /\ casts \in Seq(CastOf) /\ task[t].id \in 1..starts
        /\ \A i \in DOMAIN casts : i \in DOMAIN casts' /\ casts'[i] = casts[i]
        /\ \A i \in DOMAIN casts' \ DOMAIN casts :
             /\ casts'[i].id = task[t].id /\ casts'[i].ts = task[t].pending.ts
             /\ casts'[i].parts = task[t].pending.parts
             /\ \A j \in DOMAIN casts' : j \notin DOMAIN casts => j = i
             /\ \A j \in DOMAIN casts : j < i
    BY CastsGrow
  <1>4. /\ \A u \in Tasks : u # t => PartsOf(u)' = PartsOf(u)
        /\ PartsOf(t)' = {}
    BY <1>2, NoParts DEF PartsOf, NoFrame
  <1>5. ConsumerTypeOK'
    BY <1>2, <1>3 DEF ConsumerTypeOK, CastOf
  <1>6. LoopState'
    <2>1. SUFFICES ASSUME NEW u \in Tasks
                   PROVE  /\ task'[u].pc = "process" <=> task'[u].batch # {}
                          /\ ~AtWork(u)' => task'[u].acks = {} /\ ~task'[u].expired
                          /\ task'[u].pc = "down" => task'[u].pending = NoFrame
                          /\ task'[u].pc # "down" => task'[u].id \in 1..starts'
                          /\ \A v \in Tasks :
                               (task'[u].pc # "down" /\ task'[v].pc # "down"
                                  /\ task'[u].id = task'[v].id) => u = v
      BY DEF LoopState
    <2>2. CASE u = t
      BY <1>2, <2>2
    <2>3. CASE u # t
      BY <1>2, <2>3 DEF LoopState, AtWork
    <2>4. QED
      BY <2>2, <2>3
  <1>7. \A i \in DOMAIN casts' \ DOMAIN casts : ToSet(casts'[i].parts) = PartsOf(t)
    BY <1>3 DEF PartsOf
  <1>8. QueueState'
    <2>1. \A i \in DOMAIN casts' : \A m \in ToSet(casts'[i].parts) : m \in Usable /\ mail[m] # "unsent"
      BY <1>3, <1>7 DEF QueueState
    <2>2. \A u \in Tasks : /\ task'[u].batch \subseteq task[u].batch
                           /\ task'[u].acks \subseteq task[u].acks
                           /\ PartsOf(u)' \subseteq PartsOf(u)
      BY <1>2, <1>4
    <2>3. QED
      BY <2>1, <2>2 DEF QueueState
  <1>9. BufferState'
    BY <1>2, <1>4 DEF BufferState
  <1>10. OrderState'
    <2>1. /\ task[t].pending.ts \in Nat /\ Window \in Nat
          /\ \A i \in DOMAIN casts' : i \in Nat
      BY <1>3, TypedTask, CastTyped, ConsumerConstants
    <2>2. InOrderPerTask'
      <3>1. SUFFICES ASSUME NEW i \in DOMAIN casts', NEW j \in DOMAIN casts', i < j,
                            casts'[i].id = casts'[j].id, casts'[i].id \notin torn
                     PROVE  casts'[j].ts > casts'[i].ts + Window
        BY DEF InOrderPerTask
      <3>2. i \in DOMAIN casts
        BY <1>3, <2>1, <3>1
      <3>3. CASE j \in DOMAIN casts
        BY <1>3, <3>1, <3>2, <3>3 DEF OrderState, InOrderPerTask
      <3>4. CASE j \notin DOMAIN casts
        BY <1>3, <3>1, <3>2, <3>4 DEF OrderState
      <3>5. QED
        BY <3>3, <3>4
    <2>3. \A i \in DOMAIN casts' : casts'[i].id \in 1..starts'
      BY <1>3 DEF OrderState
    <2>4. ASSUME NEW u \in Tasks, NEW i \in DOMAIN casts', task'[u].pc # "down",
                 task'[u].id = casts'[i].id, casts'[i].id \notin torn'
          PROVE  task'[u].pending # NoFrame /\ task'[u].pending.ts > casts'[i].ts + Window
      <3>1. u # t /\ task'[u] = task[u]
        BY <1>2, <2>4
      <3>2. i \in DOMAIN casts
        BY <1>3, <2>4, <3>1 DEF LoopState
      <3>3. QED
        BY <1>3, <2>4, <3>1, <3>2 DEF OrderState
    <2>5. QED
      BY <2>2, <2>3, <2>4 DEF OrderState
  <1>11. ASSUME Calm'
         PROVE  OneBatch' /\ Ahead' /\ Apart' /\ AcksKept'
    <2>1. OneBatch /\ Ahead /\ Apart /\ AcksKept
      BY <1>11 DEF CalmState
    <2>2. /\ task[t].pc = "poll" /\ ~AtWork(t) /\ task[t].batch = {}
          /\ task[t].acks = {} /\ ~task[t].expired
      BY <1>11 DEF LoopState, AtWork
    <2>3. \A u \in Tasks : /\ AtWork(u)' <=> AtWork(u)
                           /\ task'[u].batch = task[u].batch /\ task'[u].acks = task[u].acks
                           /\ task'[u].expired <=> task[u].expired
      BY <1>2, <2>2 DEF AtWork
    <2>4. OneBatch'
      BY <2>1, <2>3 DEF OneBatch
    <2>5. \A n \in Usable : ToCome(n)' => ToCome(n)
      BY <2>3 DEF ToCome
    <2>6. \A u \in Tasks : PartsOf(u)' \subseteq PartsOf(u)
      BY <1>4
    <2>7. Ahead'
      BY <1>3, <1>7, <2>1, <2>5, <2>6 DEF Ahead
    <2>8. Apart'
      <3>1. \A i, j \in DOMAIN casts' : i # j => ToSet(casts'[i].parts) \cap ToSet(casts'[j].parts) = {}
        <4>1. SUFFICES ASSUME NEW i \in DOMAIN casts', NEW j \in DOMAIN casts', i # j
                       PROVE  ToSet(casts'[i].parts) \cap ToSet(casts'[j].parts) = {}
          OBVIOUS
        <4>2. CASE i \in DOMAIN casts /\ j \in DOMAIN casts
          BY <1>3, <2>1, <4>1, <4>2 DEF Apart
        <4>3. CASE i \in DOMAIN casts /\ j \notin DOMAIN casts
          BY <1>3, <1>7, <2>1, <4>1, <4>3 DEF Apart
        <4>4. CASE i \notin DOMAIN casts /\ j \in DOMAIN casts
          BY <1>3, <1>7, <2>1, <4>1, <4>4 DEF Apart
        <4>5. QED
          BY <1>3, <4>1, <4>2, <4>3, <4>4
      <3>2. \A i \in DOMAIN casts' : IsInjective(casts'[i].parts)
        BY <1>3, <2>1 DEF Apart
      <3>3. \A u \in Tasks, i \in DOMAIN casts' : PartsOf(u)' \cap ToSet(casts'[i].parts) = {}
        <4>1. SUFFICES ASSUME NEW u \in Tasks, NEW i \in DOMAIN casts'
                       PROVE  PartsOf(u)' \cap ToSet(casts'[i].parts) = {}
          OBVIOUS
        <4>2. CASE u = t
          BY <1>4, <4>2
        <4>3. CASE u # t /\ i \in DOMAIN casts
          BY <1>3, <1>4, <2>1, <4>3 DEF Apart
        <4>4. CASE u # t /\ i \notin DOMAIN casts
          BY <1>4, <1>7, <2>1, <4>4 DEF Apart
        <4>5. QED
          BY <4>2, <4>3, <4>4
      <3>4. \A u, v \in Tasks : u # v => PartsOf(u)' \cap PartsOf(v)' = {}
        BY <2>1, <2>6 DEF Apart
      <3>5. \A u \in Tasks : IsInjective(task'[u].pending.parts)
        BY <1>2, <2>1, NoParts DEF Apart, NoFrame
      <3>6. QED
        BY <3>1, <3>2, <3>3, <3>4, <3>5 DEF Apart
    <2>9. HeldParts \cup BroadcastParts \subseteq HeldParts' \cup BroadcastParts'
      <3>1. BroadcastParts \subseteq BroadcastParts'
        BY <1>3, InBroadcast, InBroadcastNext
      <3>2. PartsOf(t) \subseteq BroadcastParts'
        <4>1. CASE task[t].pending = NoFrame
          BY <4>1, NoParts DEF PartsOf, NoFrame
        <4>2. CASE casts' = Cast(t)
          <5>1. task[t].id \in 1..TaskStarts
            BY <1>3, ConsumerConstants DEF ConsumerTypeOK
          <5>2. /\ DOMAIN Cast(t) = 1..(Len(casts) + 1) /\ Len(casts) \in Nat
                /\ DOMAIN casts = 1..Len(casts)
            BY <5>1, CastAppends
          <5>3. Len(casts) + 1 \in DOMAIN casts' \ DOMAIN casts
            BY <4>2, <5>2
          <5>4. QED
            BY <1>7, <5>3, InBroadcastNext
        <4>3. QED
          BY <1>11, <4>1, <4>2
      <3>3. \A u \in Tasks : u # t => PartsOf(u) \subseteq HeldParts'
        BY <1>4, InHeldNext
      <3>4. QED
        BY <3>1, <3>2, <3>3, InHeld
    <2>10. AcksKept'
      BY <2>1, <2>3, <2>9 DEF AcksKept
    <2>11. QED
      BY <2>4, <2>7, <2>8, <2>10
  <1>12. QED
    BY <1>5, <1>6, <1>8, <1>9, <1>10, <1>11 DEF CalmState

LEMMA ShutdownInv ==
  ASSUME ConsumerInv, NEW t \in Tasks, Shutdown(t)
  PROVE  ConsumerInv'
  <1>1. /\ task[t].pc = "poll" /\ task' = [task EXCEPT ![t] = Down]
        /\ UNCHANGED <<mail, starts, torn>> /\ consumerFaults' = consumerFaults
        /\ casts' = IF task[t].pending = NoFrame THEN casts ELSE Cast(t)
    BY DEF Shutdown
  <1>2. consumerFaults' \in 0..ConsumerFaults
    BY <1>1 DEF ConsumerInv, ConsumerTypeOK
  <1>3. QED
    BY <1>1, <1>2, StopInv DEF Calm

LEMMA TaskDiesInv ==
  ASSUME ConsumerInv, NEW t \in Tasks, TaskDies(t)
  PROVE  ConsumerInv'
  <1>1. /\ task[t].pc # "down" /\ task' = [task EXCEPT ![t] = Down]
        /\ UNCHANGED <<mail, starts, torn>> /\ casts' = casts
    BY DEF TaskDies
  <1>2. consumerFaults' \in 0..ConsumerFaults /\ ~Calm'
    BY ConsumerConstants DEF TaskDies, ConsumerFault, ConsumerInv, ConsumerTypeOK, Calm
  <1>3. QED
    BY <1>1, <1>2, StopInv

-----------------------------------------------------------------------------
(* THE THEOREMS                                                            *)

LEMMA ConsumerInvStep ==
  ASSUME ConsumerInv, [ConsumerNext]_consumerVars
  PROVE  ConsumerInv'
  <1>1. CASE UNCHANGED consumerVars
    <2> USE <1>1 DEF consumerVars
    <2>1. ConsumerTypeOK' /\ BufferState'
      BY DEF ConsumerInv, ConsumerTypeOK, BufferState, PartsOf
    <2>2. LoopState' /\ QueueState'
      BY DEF ConsumerInv, LoopState, QueueState, AtWork, PartsOf
    <2>3. OrderState'
      BY DEF ConsumerInv, OrderState, InOrderPerTask
    <2>4. (OneBatch => OneBatch') /\ (Ahead => Ahead')
      BY DEF OneBatch, Ahead, AtWork, ToCome, PartsOf
    <2>5. (Apart => Apart') /\ (AcksKept => AcksKept')
      BY DEF Apart, AcksKept, PartsOf, HeldParts, BroadcastParts
    <2>6. QED
      BY <2>1, <2>2, <2>3, <2>4, <2>5 DEF ConsumerInv, CalmState, Calm
  <1>2. CASE \E m \in Messages : Publish(m)
    BY <1>2, PublishInv
  <1>3. CASE VisibilityTimeout
    BY <1>3, VisibilityTimeoutInv
  <1>4. ASSUME NEW t \in Tasks, RunStep(t)
        PROVE  ConsumerInv'
    <2>1. CASE Receive(t)
      BY <2>1, ReceiveInv
    <2>2. CASE ProcessStep(t)
      BY <2>2, SkipMessageInv, BufferFirstInv, MergeFragmentInv, DropStaleInv, FlushAndBufferInv
         DEF ProcessStep
    <2>3. CASE DeleteBatch(t)
      BY <2>3, DeleteBatchInv
    <2>4. CASE Shutdown(t)
      BY <2>4, ShutdownInv
    <2>5. QED
      BY <1>4, <2>1, <2>2, <2>3, <2>4 DEF RunStep
  <1>5. CASE \E t \in Tasks : StartTask(t) \/ Sigterm(t) \/ TaskDies(t)
    BY <1>5, StartTaskInv, SigtermInv, TaskDiesInv
  <1>6. CASE \E t \in Tasks, m \in Messages : FlushRaises(t, m)
    BY <1>6, FlushRaisesInv
  <1>7. QED
    BY <1>1, <1>2, <1>3, <1>4, <1>5, <1>6 DEF ConsumerNext

LEMMA ConsumerInvAlways == ConsumerSpec => []ConsumerInv
  <1>1. ConsumerInit => ConsumerInv
    BY ConsumerInvInit
  <1>2. ConsumerInv /\ [ConsumerNext]_consumerVars => ConsumerInv'
    BY ConsumerInvStep
  <1>3. QED
    BY <1>1, <1>2, PTL DEF ConsumerSpec

(* What consumer.py broadcasts is in order for each task, whatever is      *)
(* redelivered, until a broadcast raises; and while nothing fails, each    *)
(* fragment goes out once, with all tasks, overlaps of a deployment and    *)
(* poison messages: process_message, step 4, and the queue's group.        *)
THEOREM InOrderAndOnce == ConsumerSpec => []ConsumerSafety
  <1>1. ConsumerInv => ConsumerSafety
    <2>1. SUFFICES ASSUME ConsumerInv PROVE NoDuplicates
      BY DEF ConsumerInv, OrderState, ConsumerSafety
    <2>2. SUFFICES ASSUME Calm
                   PROVE  \A i, j \in DOMAIN casts :
                            /\ i # j => ToSet(casts[i].parts) \cap ToSet(casts[j].parts) = {}
                            /\ IsInjective(casts[i].parts)
      BY DEF NoDuplicates, Calm
    <2>3. QED
      BY <2>1, <2>2 DEF ConsumerInv, CalmState, Apart
  <1>2. QED
    BY <1>1, ConsumerInvAlways, PTL
-----------------------------------------------------------------------------
(* THE REFINEMENT                                                          *)

Useless == Skipped \cup Poison \cup Late

LEMMA FateOf ==
  /\ Fate = [n \in Messages |-> Fate[n]]
  /\ \A n \in Messages :
       /\ mail[n] = "unsent" => Fate[n] = "unsent"
       /\ mail[n] # "unsent" =>
            /\ n \in BroadcastParts => Fate[n] = "done"
            /\ (n \notin BroadcastParts /\ n \in HeldParts) => Fate[n] = "held"
            /\ (n \notin BroadcastParts /\ n \notin HeldParts /\ Gone(n)) => Fate[n] = "gone"
            /\ (n \notin BroadcastParts /\ n \notin HeldParts /\ ~Gone(n)) => Fate[n] = "waiting"
  BY DEF Fate

LEMMA FateOfNext ==
  /\ Fate' = [n \in Messages |-> Fate'[n]]
  /\ \A n \in Messages :
       /\ mail'[n] = "unsent" => Fate'[n] = "unsent"
       /\ mail'[n] # "unsent" =>
            /\ n \in BroadcastParts' => Fate'[n] = "done"
            /\ (n \notin BroadcastParts' /\ n \in HeldParts') => Fate'[n] = "held"
            /\ (n \notin BroadcastParts' /\ n \notin HeldParts' /\ Gone(n)') => Fate'[n] = "gone"
            /\ (n \notin BroadcastParts' /\ n \notin HeldParts' /\ ~Gone(n)') => Fate'[n] = "waiting"
  BY DEF Fate

Implements == Delivery!DeliveryNext \/ UNCHANGED Delivery!fateVars

(* A step that only discards what is useless, or anything after a failure. *)
LEMMA DiscardStep ==
  ASSUME consumerFaults' = consumerFaults, consumerFaults \in Nat,
         \A n \in Messages :
           \/ Fate'[n] = Fate[n]
           \/ /\ Fate[n] = "waiting" /\ Fate'[n] = "gone"
              /\ n \in Useless \/ consumerFaults > 0
  PROVE  Implements
  <1> DEFINE ms == {n \in Messages : Fate'[n] # Fate[n]}
  <1>1. Fate' = [n \in Messages |-> IF n \in ms THEN "gone" ELSE Fate[n]]
    BY FateOf, FateOfNext
  <1>2. Delivery!Move(ms, "gone")
    BY <1>1 DEF Delivery!Move
  <1>3. ms \subseteq Delivery!In("waiting")
    BY DEF Delivery!In
  <1>4. (consumerFaults > 0)' = (consumerFaults > 0)
    OBVIOUS
  <1>5. CASE consumerFaults > 0
    <2>1. Delivery!ComesTooLate
      BY <1>2, <1>3, <1>4, <1>5 DEF Delivery!ComesTooLate
    <2>2. QED
      BY <2>1 DEF Implements, Delivery!DeliveryNext
  <1>6. CASE ~(consumerFaults > 0)
    <2>1. ms \subseteq Useless
      BY <1>6
    <2>2. Delivery!Refuse
      BY <1>2, <1>3, <1>4, <2>1 DEF Delivery!Refuse, Useless
    <2>3. QED
      BY <2>2 DEF Implements, Delivery!DeliveryNext
  <1>7. QED
    BY <1>5, <1>6

(* A failure.                                                              *)
LEMMA FailStep ==
  ASSUME consumerFaults' > 0,
         \A n \in Messages :
           \/ Fate'[n] = Fate[n]
           \/ Fate[n] \in {"waiting", "held"} /\ Fate'[n] = "gone"
           \/ Fate[n] = "held" /\ Fate'[n] = "waiting"
  PROVE  Implements
  <1> DEFINE lost == {n \in Messages : Fate'[n] # Fate[n] /\ Fate'[n] = "gone"}
             back == {n \in Messages : Fate'[n] # Fate[n] /\ Fate'[n] = "waiting"}
  <1>1. lost \subseteq Delivery!In("held") \cup Delivery!In("waiting")
    BY DEF Delivery!In
  <1>2. back \subseteq Delivery!In("held") \ lost
    BY DEF Delivery!In
  <1>3. Fate' = [n \in Messages |-> CASE n \in lost -> "gone" [] n \in back -> "waiting"
                                      [] OTHER -> Fate[n]]
    BY FateOf, FateOfNext
  <1>4. (consumerFaults > 0)' = TRUE
    OBVIOUS
  <1> HIDE DEF lost, back
  <1>5. Delivery!Fail
    BY <1>1, <1>2, <1>3, <1>4 DEF Delivery!Fail
  <1>6. QED
    BY <1>5 DEF Implements, Delivery!DeliveryNext

(* A delivery: what was held in one buffer, and one message is taken up.   *)
LEMMA DeliverStep ==
  ASSUME consumerFaults' = consumerFaults,
         \A n \in Messages :
           \/ Fate'[n] = Fate[n]
           \/ Fate[n] = "held" /\ Fate'[n] = "done"
           \/ Fate[n] = "waiting" /\ Fate'[n] = "held"
  PROVE  Implements
  <1> DEFINE ms == {n \in Messages : Fate'[n] # Fate[n] /\ Fate'[n] = "done"}
             next == {n \in Messages : Fate'[n] # Fate[n] /\ Fate'[n] = "held"}
  <1>1. ms \subseteq Delivery!In("held") /\ next \subseteq Delivery!In("waiting")
    BY DEF Delivery!In
  <1>2. Fate' = [n \in Messages |-> CASE n \in ms -> "done" [] n \in next -> "held"
                                      [] OTHER -> Fate[n]]
    BY FateOf, FateOfNext
  <1>3. (consumerFaults > 0)' = (consumerFaults > 0)
    OBVIOUS
  <1> HIDE DEF ms, next
  <1>4. Delivery!Deliver
    BY <1>1, <1>2, <1>3 DEF Delivery!Deliver
  <1>5. QED
    BY <1>4 DEF Implements, Delivery!DeliveryNext

(* What the fate of a message depends on.                                  *)
LEMMA SameFate ==
  ASSUME NEW n \in Messages,
         mail'[n] = "unsent" <=> mail[n] = "unsent",
         n \in BroadcastParts' <=> n \in BroadcastParts,
         n \in HeldParts' <=> n \in HeldParts,
         Gone(n)' <=> Gone(n)
  PROVE  Fate'[n] = Fate[n]
  BY FateOf, FateOfNext

(* A broadcast adds the buffer to what has been delivered.                 *)
LEMMA CastParts ==
  ASSUME ConsumerTypeOK, LoopState, NEW t \in Tasks, task[t].pc # "down", casts' = Cast(t)
  PROVE  BroadcastParts' = BroadcastParts \cup PartsOf(t)
  <1>1. task[t].id \in 1..TaskStarts
    BY ConsumerConstants DEF LoopState, ConsumerTypeOK
  <1>2. /\ DOMAIN casts' = 1..(Len(casts) + 1) /\ DOMAIN casts = 1..Len(casts)
        /\ Len(casts) \in Nat
        /\ casts'[Len(casts) + 1].parts = task[t].pending.parts
        /\ \A i \in DOMAIN casts : casts'[i] = casts[i]
    <2>1. /\ DOMAIN Cast(t) = 1..(Len(casts) + 1) /\ DOMAIN casts = 1..Len(casts)
          /\ Len(casts) \in Nat
          /\ Cast(t)[Len(casts) + 1] = [id |-> task[t].id, ts |-> task[t].pending.ts,
                                        parts |-> task[t].pending.parts]
          /\ \A i \in DOMAIN casts : Cast(t)[i] = casts[i]
      BY <1>1, CastAppends
    <2>2. QED
      BY <2>1
  <1>3. \A n : n \in BroadcastParts' => n \in BroadcastParts \/ n \in PartsOf(t)
    <2>1. SUFFICES ASSUME NEW n, NEW i \in DOMAIN casts', n \in ToSet(casts'[i].parts)
                   PROVE  n \in BroadcastParts \/ n \in PartsOf(t)
      BY InBroadcastNext
    <2>2. i \in DOMAIN casts \/ i = Len(casts) + 1
      BY <1>2
    <2>3. QED
      BY <1>2, <2>1, <2>2, InBroadcast DEF PartsOf
  <1>4. \A n : n \in BroadcastParts \/ n \in PartsOf(t) => n \in BroadcastParts'
    <2>1. Len(casts) + 1 \in DOMAIN casts' /\ \A i \in DOMAIN casts : i \in DOMAIN casts'
      BY <1>2
    <2>2. QED
      BY <1>2, <2>1, InBroadcast, InBroadcastNext DEF PartsOf
  <1>5. QED
    BY <1>3, <1>4

LEMMA SameCasts ==
  ASSUME casts' = casts
  PROVE  BroadcastParts' = BroadcastParts
  BY DEF BroadcastParts

(* A message that is broadcast, held or in a batch has been sent.          *)
LEMMA KnownIsSent ==
  ASSUME QueueState, NEW n
  PROVE  /\ n \in BroadcastParts => mail[n] # "unsent"
         /\ n \in HeldParts => mail[n] # "unsent"
  <1>1. n \in BroadcastParts => mail[n] # "unsent"
    BY InBroadcast DEF QueueState
  <1>2. n \in HeldParts => mail[n] # "unsent"
    BY InHeld DEF QueueState
  <1>3. QED
    BY <1>1, <1>2

(* Processing m: what becomes of the buffers and of what is gone.          *)
LEMMA HandledFate ==
  ASSUME ConsumerInv, NEW t \in Tasks, NEW m \in Messages, NEW p \in Frame, NEW done,
         Handled(t, m, p, done)
  PROVE  /\ mail' = mail /\ mail[m] # "unsent"
         /\ \A n \in Messages : n # m => (Gone(n)' <=> Gone(n))
         /\ ~Gone(m)
         /\ PartsOf(t)' = ToSet(p.parts)
         /\ \A u \in Tasks : u # t => PartsOf(u)' = PartsOf(u)
         /\ \A n : n \in HeldParts' <=>
              n \in ToSet(p.parts) \/ \E u \in Tasks : u # t /\ n \in PartsOf(u)
         /\ \A n : n \in HeldParts <=>
              n \in PartsOf(t) \/ \E u \in Tasks : u # t /\ n \in PartsOf(u)
  <1>0. ConsumerTypeOK /\ QueueState
    BY DEF ConsumerInv
  <1>1. /\ m \in task[t].batch /\ mail' = mail
        /\ \A u \in Tasks : u # t => task'[u] = task[u]
        /\ task'[t].batch = task[t].batch \ {m}
        /\ task'[t].pending = p
    BY <1>0, HandledTask
  <1>2. mail[m] # "unsent" /\ ~Gone(m)
    BY <1>0, <1>1 DEF QueueState, Gone
  <1>3. ASSUME NEW n \in Messages, n # m PROVE Gone(n)' <=> Gone(n)
    <2>1. \A u \in Tasks : n \in task'[u].batch <=> n \in task[u].batch
      BY <1>1, <1>3
    <2>2. QED
      BY <1>1, <2>1 DEF Gone
  <1>4. PartsOf(t)' = ToSet(p.parts) /\ \A u \in Tasks : u # t => PartsOf(u)' = PartsOf(u)
    BY <1>1 DEF PartsOf
  <1>5. QED
    BY <1>1, <1>2, <1>3, <1>4, InHeld, InHeldNext

(* A message that is dropped while the buffers stay as they are.           *)
LEMMA DroppedImplements ==
  ASSUME ConsumerInv, NEW t \in Tasks, NEW m \in Messages, NEW done,
         Handled(t, m, task[t].pending, done), casts' = casts,
         consumerFaults' = consumerFaults, m \in Useless \/ ~Calm
  PROVE  Implements
  <1>1. task[t].pending \in Frame /\ consumerFaults \in Nat
    BY TypedTask, ConsumerConstants DEF ConsumerInv, ConsumerTypeOK
  <1>2. /\ mail' = mail /\ mail[m] # "unsent" /\ ~Gone(m)
        /\ \A n \in Messages : n # m => (Gone(n)' <=> Gone(n))
        /\ \A n : n \in HeldParts' <=> n \in HeldParts
    <2>1. PartsOf(t) = ToSet(task[t].pending.parts)
      BY DEF PartsOf
    <2>2. QED
      BY <1>1, <2>1, HandledFate
  <1>3. BroadcastParts' = BroadcastParts
    BY SameCasts
  <1>4. \A n \in Messages : n # m => Fate'[n] = Fate[n]
    BY <1>2, <1>3, SameFate
  <1>5. Fate'[m] = Fate[m] \/ (Fate[m] = "waiting" /\ Fate'[m] = "gone")
    BY <1>2, <1>3, FateOf, FateOfNext
  <1>6. m \in Useless \/ consumerFaults > 0
    BY <1>1 DEF Calm
  <1>7. QED
    BY <1>1, <1>4, <1>5, <1>6, DiscardStep

(* A message that is taken up.                                             *)
LEMMA HeldImplements ==
  ASSUME ConsumerInv, NEW t \in Tasks, NEW m \in Messages, NEW p \in Frame,
         Handled(t, m, p, {m}), ToSet(p.parts) = PartsOf(t) \cup {m},
         casts' = casts, consumerFaults' = consumerFaults
  PROVE  Implements
  <1>1. /\ mail' = mail /\ mail[m] # "unsent" /\ ~Gone(m)
        /\ \A n \in Messages : n # m => (Gone(n)' <=> Gone(n))
        /\ \A n : n \in HeldParts' <=> n \in HeldParts \/ n = m
    BY HandledFate
  <1>2. BroadcastParts' = BroadcastParts
    BY SameCasts
  <1>3. \A n \in Messages : n # m => Fate'[n] = Fate[n]
    BY <1>1, <1>2, SameFate
  <1>4. Fate'[m] = Fate[m] \/ (Fate[m] = "waiting" /\ Fate'[m] = "held")
    BY <1>1, <1>2, FateOf, FateOfNext
  <1>5. QED
    BY <1>3, <1>4, DeliverStep

LEMMA SkipMessageImplements ==
  ASSUME ConsumerInv, NEW t \in Tasks, NEW m \in Messages, SkipMessage(t, m)
  PROVE  Implements
  <1> DEFINE done == IF m \in Poison THEN {} ELSE {m}
  <1>1. Handled(t, m, task[t].pending, done)
    BY SkipIsHandled
  <1>2. m \in Useless
    BY DEF SkipMessage, Useless
  <1> HIDE DEF done
  <1>3. QED
    BY <1>1, <1>2, DroppedImplements DEF SkipMessage

LEMMA DropStaleImplements ==
  ASSUME ConsumerInv, NEW t \in Tasks, NEW m \in Messages, DropStale(t, m)
  PROVE  Implements
  <1>1. Handled(t, m, task[t].pending, {m})
    BY DropIsHandled
  <1>2. m \in Useless \/ ~Calm
    BY StaleIsLate DEF DropStale, Useless
  <1>3. QED
    BY <1>1, <1>2, DroppedImplements DEF DropStale

LEMMA BufferFirstImplements ==
  ASSUME ConsumerInv, NEW t \in Tasks, NEW m \in Messages, BufferFirst(t, m)
  PROVE  Implements
  <1> DEFINE p == Fragment(m)
  <1>1. Handled(t, m, p, {m})
    BY BufferIsHandled
  <1>2. p \in Frame /\ ToSet(p.parts) = {m}
    BY FragmentFrame
  <1>3. PartsOf(t) = {}
    BY NoParts DEF BufferFirst, IntoEmpty, PartsOf, NoFrame
  <1>4. casts' = casts /\ consumerFaults' = consumerFaults
    BY DEF BufferFirst
  <1> HIDE DEF p
  <1>5. QED
    BY <1>1, <1>2, <1>3, <1>4, HeldImplements

LEMMA MergeFragmentImplements ==
  ASSUME ConsumerInv, NEW t \in Tasks, NEW m \in Messages, MergeFragment(t, m)
  PROVE  Implements
  <1> DEFINE p == Merged(task[t].pending, m)
  <1>1. Handled(t, m, p, {m})
    BY MergeIsHandled
  <1>2. p \in Frame /\ ToSet(p.parts) = PartsOf(t) \cup {m}
    BY TypedTask, MergedFrame DEF ConsumerInv, PartsOf
  <1>3. casts' = casts /\ consumerFaults' = consumerFaults
    BY DEF MergeFragment
  <1> HIDE DEF p
  <1>4. QED
    BY <1>1, <1>2, <1>3, HeldImplements

(* The buffer is delivered, and the newer fragment is taken up.            *)
LEMMA FlushAndBufferImplements ==
  ASSUME ConsumerInv, NEW t \in Tasks, NEW m \in Messages, FlushAndBuffer(t, m)
  PROVE  Implements
  <1> DEFINE p == Fragment(m)
  <1>1. Handled(t, m, p, {m})
    BY FlushIsHandled
  <1>2. p \in Frame /\ ToSet(p.parts) = {m}
    BY FragmentFrame
  <1>3. casts' = Cast(t) /\ consumerFaults' = consumerFaults /\ task[t].pc # "down"
    BY DEF FlushAndBuffer, AgainstBuffer, InTurn
  <1>4. BroadcastParts' = BroadcastParts \cup PartsOf(t)
    BY <1>3, CastParts DEF ConsumerInv
  <1> HIDE DEF p
  <1>5. /\ mail' = mail /\ mail[m] # "unsent" /\ ~Gone(m)
        /\ \A n \in Messages : n # m => (Gone(n)' <=> Gone(n))
        /\ \A n : n \in HeldParts' <=> n = m \/ \E u \in Tasks : u # t /\ n \in PartsOf(u)
        /\ \A n : n \in HeldParts <=>
             n \in PartsOf(t) \/ \E u \in Tasks : u # t /\ n \in PartsOf(u)
    BY <1>1, <1>2, HandledFate
  <1>6. ASSUME NEW n \in Messages, n # m
        PROVE  Fate'[n] = Fate[n] \/ (Fate[n] = "held" /\ Fate'[n] = "done")
    <2>1. CASE n \in PartsOf(t)
      <3>1. mail[n] # "unsent"
        BY <2>1, <1>5, KnownIsSent DEF ConsumerInv
      <3>2. Fate'[n] = "done"
        BY <1>4, <1>5, <2>1, <3>1, FateOfNext
      <3>3. Fate[n] \in {"done", "held"}
        BY <1>5, <2>1, <3>1, FateOf
      <3>4. QED
        BY <3>2, <3>3
    <2>2. CASE n \notin PartsOf(t)
      BY <1>4, <1>5, <1>6, <2>2, SameFate
    <2>3. QED
      BY <2>1, <2>2
  <1>7. \/ Fate'[m] = Fate[m]
        \/ Fate[m] = "held" /\ Fate'[m] = "done"
        \/ Fate[m] = "waiting" /\ Fate'[m] = "held"
    <2>1. m \in BroadcastParts => Fate[m] = "done" /\ Fate'[m] = "done"
      BY <1>4, <1>5, FateOf, FateOfNext
    <2>2. m \in BroadcastParts' => Fate'[m] = "done"
      BY <1>5, FateOfNext
    <2>3. m \notin BroadcastParts' => Fate'[m] = "held"
      BY <1>5, FateOfNext
    <2>4. (m \notin BroadcastParts /\ m \in HeldParts) => Fate[m] = "held"
      BY <1>5, FateOf
    <2>5. (m \notin BroadcastParts /\ m \notin HeldParts) => Fate[m] = "waiting"
      BY <1>5, FateOf
    <2>6. m \notin HeldParts => m \notin PartsOf(t)
      BY <1>5
    <2>7. QED
      BY <1>4, <2>1, <2>2, <2>3, <2>4, <2>5, <2>6
  <1>8. QED
    BY <1>3, <1>6, <1>7, DeliverStep

(* The buffer is lost, and so may the message be.                          *)
LEMMA FlushRaisesImplements ==
  ASSUME ConsumerInv, NEW t \in Tasks, NEW m \in Messages, FlushRaises(t, m)
  PROVE  Implements
  <1>1. Handled(t, m, NoFrame, {})
    BY RaiseIsHandled
  <1>2. NoFrame \in Frame /\ ToSet(NoFrame.parts) = {}
    BY NoFrameIsAFrame, NoParts DEF NoFrame
  <1>3. casts' = casts /\ consumerFaults' > 0
    BY ConsumerConstants DEF FlushRaises, ConsumerFault, ConsumerInv, ConsumerTypeOK
  <1>4. BroadcastParts' = BroadcastParts
    BY <1>3, SameCasts
  <1>5. /\ mail' = mail /\ mail[m] # "unsent" /\ ~Gone(m)
        /\ \A n \in Messages : n # m => (Gone(n)' <=> Gone(n))
        /\ \A n : n \in HeldParts' => n \in HeldParts
    BY <1>1, <1>2, HandledFate
  <1>6. ASSUME NEW n \in Messages
        PROVE  \/ Fate'[n] = Fate[n]
               \/ Fate[n] \in {"waiting", "held"} /\ Fate'[n] = "gone"
               \/ Fate[n] = "held" /\ Fate'[n] = "waiting"
    <2>1. CASE mail[n] = "unsent" \/ n \in BroadcastParts
      BY <1>4, <1>5, <2>1, FateOf, FateOfNext
    <2>2. CASE mail[n] # "unsent" /\ n \notin BroadcastParts /\ n \in HeldParts
      BY <1>4, <1>5, <2>2, FateOf, FateOfNext
    <2>3. CASE mail[n] # "unsent" /\ n \notin BroadcastParts /\ n \notin HeldParts
      <3>1. n \notin HeldParts' /\ (Gone(n) => Gone(n)')
        BY <1>5, <2>3
      <3>2. QED
        BY <1>4, <1>5, <2>3, <3>1, FateOf, FateOfNext
    <2>4. QED
      BY <2>1, <2>2, <2>3
  <1>7. QED
    BY <1>3, <1>6, FailStep

(* A step that leaves the buffers, and what is sent and gone, as they are. *)
LEMMA QuietFate ==
  ASSUME casts' = casts, \A u \in Tasks : task'[u].pending = task[u].pending,
         \A n \in Messages : /\ mail'[n] = "unsent" <=> mail[n] = "unsent"
                             /\ Gone(n)' <=> Gone(n)
  PROVE  \A n \in Messages : Fate'[n] = Fate[n]
  <1>1. \A u \in Tasks : PartsOf(u)' = PartsOf(u)
    BY DEF PartsOf
  <1>2. \A n : n \in HeldParts' <=> n \in HeldParts
    BY <1>1, InHeld, InHeldNext
  <1>3. BroadcastParts' = BroadcastParts
    BY SameCasts
  <1>4. QED
    BY <1>2, <1>3, SameFate

LEMMA FaultsNumber ==
  ASSUME ConsumerInv
  PROVE  /\ consumerFaults \in Nat
         /\ ConsumerFault => consumerFaults' > 0
         /\ ~Calm => consumerFaults > 0
  BY ConsumerConstants DEF ConsumerInv, ConsumerTypeOK, ConsumerFault, Calm

LEMMA PublishImplements ==
  ASSUME ConsumerInv, NEW m \in Messages, Publish(m)
  PROVE  Implements
  <1>1. /\ mail[m] = "unsent" /\ mail' = [mail EXCEPT ![m] = "visible"]
        /\ task' = task /\ casts' = casts /\ consumerFaults' = consumerFaults
    BY DEF Publish
  <1>2. mail \in [Messages -> {"unsent", "visible", "inflight", "deleted"}]
    BY DEF ConsumerInv, ConsumerTypeOK
  <1>3. mail'[m] = "visible" /\ \A n \in Messages : n # m => mail'[n] = mail[n]
    BY <1>1, <1>2
  <1>4. BroadcastParts' = BroadcastParts /\ HeldParts' = HeldParts
    BY <1>1 DEF BroadcastParts, HeldParts
  <1>5. \A n \in Messages : n # m => Fate'[n] = Fate[n]
    <2>1. \A n \in Messages : n # m => (Gone(n)' <=> Gone(n))
      BY <1>1, <1>3 DEF Gone
    <2>2. QED
      BY <1>3, <1>4, <2>1, SameFate
  <1>6. m \notin BroadcastParts /\ m \notin HeldParts
    BY <1>1, KnownIsSent DEF ConsumerInv
  <1>7. Fate[m] = "unsent" /\ Fate'[m] = "waiting"
    <2>1. ~Gone(m)'
      BY <1>3 DEF Gone
    <2>2. QED
      BY <1>1, <1>3, <1>4, <1>6, <2>1, FateOf, FateOfNext
  <1>8. Fate' = [n \in Messages |-> IF n \in {m} THEN "waiting" ELSE Fate[n]]
    BY <1>5, <1>7, FateOfNext
  <1>9. m \in Delivery!In("unsent")
    BY <1>7 DEF Delivery!In
  <1>10. Delivery!Move({m}, "waiting")
    BY <1>8 DEF Delivery!Move
  <1>11. (consumerFaults > 0)' = (consumerFaults > 0)
    BY <1>1
  <1>12. Delivery!Send
    BY <1>9, <1>10, <1>11 DEF Delivery!Send
  <1>13. QED
    BY <1>12 DEF Implements, Delivery!DeliveryNext

LEMMA VisibilityTimeoutImplements ==
  ASSUME ConsumerInv, VisibilityTimeout
  PROVE  Implements
  <1>1. /\ mail' = [m \in Messages |-> IF mail[m] = "inflight" THEN "visible" ELSE mail[m]]
        /\ casts' = casts /\ (consumerFaults' = consumerFaults \/ ConsumerFault)
    BY DEF VisibilityTimeout
  <1>2. \A u \in Tasks : task'[u].pending = task[u].pending /\ task'[u].batch = task[u].batch
    BY VisibilityTimeoutTask DEF ConsumerInv
  <1>3. \A n \in Messages : /\ mail'[n] = "unsent" <=> mail[n] = "unsent"
                            /\ mail'[n] = "deleted" <=> mail[n] = "deleted"
    BY <1>1
  <1>4. \A n \in Messages : Gone(n)' <=> Gone(n)
    BY <1>2, <1>3 DEF Gone
  <1>5. \A n \in Messages : Fate'[n] = Fate[n]
    BY <1>1, <1>2, <1>3, <1>4, QuietFate
  <1>6. CASE consumerFaults' = consumerFaults
    BY <1>5, <1>6, FaultsNumber, DiscardStep
  <1>7. CASE ConsumerFault
    BY <1>5, <1>7, FaultsNumber, FailStep
  <1>8. QED
    BY <1>1, <1>6, <1>7

LEMMA ReceiveImplements ==
  ASSUME ConsumerInv, NEW t \in Tasks, Receive(t)
  PROVE  Implements
  <1>1. /\ task[t].pc = "poll"
        /\ mail' = [m \in Messages |-> IF m \in NextBatch THEN "inflight" ELSE mail[m]]
        /\ casts' = casts /\ consumerFaults' = consumerFaults
    BY DEF Receive
  <1> DEFINE B == NextBatch
             new == [task[t] EXCEPT !.pc = "process", !.batch = B, !.acks = {}]
  <1>2. \A m \in B : mail[m] = "visible"
    BY DEF NextBatch, Visible
  <1>3. task \in [Tasks -> TaskState] /\ task[t] \in TaskState
    BY DEF ConsumerInv, ConsumerTypeOK
  <1>4. task' = [task EXCEPT ![t] = new]
    BY <1>3 DEF Receive, TaskState
  <1>5. new.pending = task[t].pending /\ new.batch = B
    BY <1>3 DEF TaskState
  <1>6. task[t].batch = {}
    BY <1>1 DEF ConsumerInv, LoopState
  <1> HIDE DEF new
  <1>7. /\ \A u \in Tasks : task'[u].pending = task[u].pending
        /\ \A u \in Tasks : u # t => task'[u].batch = task[u].batch
        /\ task'[t].batch = B
    BY <1>3, <1>4, <1>5
  <1> HIDE DEF B
  <1>8. \A n \in Messages : /\ mail'[n] = "unsent" <=> mail[n] = "unsent"
                            /\ mail'[n] = "deleted" <=> mail[n] = "deleted"
    BY <1>1, <1>2 DEF B
  <1>9. \A n \in Messages : Gone(n)' <=> Gone(n)
    <2>1. SUFFICES ASSUME NEW n \in Messages, mail[n] = "deleted"
                   PROVE  \A u \in Tasks : n \in task'[u].batch <=> n \in task[u].batch
      BY <1>8 DEF Gone
    <2>2. n \notin B
      BY <1>2, <2>1
    <2>3. QED
      BY <1>6, <1>7, <2>2
  <1>10. \A n \in Messages : Fate'[n] = Fate[n]
    BY <1>1, <1>7, <1>8, <1>9, QuietFate
  <1>11. QED
    BY <1>1, <1>10, FaultsNumber, DiscardStep

(* A task that starts, and one that is told to stop.                       *)
LEMMA StartTaskImplements ==
  ASSUME ConsumerInv, NEW t \in Tasks, StartTask(t)
  PROVE  Implements
  <1> DEFINE new == [Down EXCEPT !.pc = "poll", !.id = starts + 1]
  <1>1. /\ task[t].pc = "down" /\ mail' = mail /\ casts' = casts
        /\ consumerFaults' = consumerFaults /\ task' = [task EXCEPT ![t] = new]
    BY DEF StartTask
  <1>2. new.batch = {} /\ new.pending = NoFrame
    BY DEF Down
  <1>3. task \in [Tasks -> TaskState]
    BY DEF ConsumerInv, ConsumerTypeOK
  <1>4. task[t].batch = {} /\ task[t].pending = NoFrame
    BY <1>1 DEF ConsumerInv, LoopState
  <1> HIDE DEF new
  <1>5. \A u \in Tasks : task'[u].pending = task[u].pending /\ task'[u].batch = task[u].batch
    BY <1>1, <1>2, <1>3, <1>4
  <1>6. \A n \in Messages : Fate'[n] = Fate[n]
    <2>1. \A n \in Messages : Gone(n)' <=> Gone(n)
      BY <1>1, <1>5 DEF Gone
    <2>2. QED
      BY <1>1, <1>5, <2>1, QuietFate
  <1>7. QED
    BY <1>1, <1>6, FaultsNumber, DiscardStep

LEMMA SigtermImplements ==
  ASSUME ConsumerInv, NEW t \in Tasks, Sigterm(t)
  PROVE  Implements
  <1> DEFINE new == [task[t] EXCEPT !.stopping = TRUE]
  <1>1. task \in [Tasks -> TaskState] /\ task[t] \in TaskState
    BY DEF ConsumerInv, ConsumerTypeOK
  <1>2. /\ mail' = mail /\ casts' = casts
        /\ consumerFaults' = consumerFaults /\ task' = [task EXCEPT ![t] = new]
    BY <1>1 DEF Sigterm
  <1>3. new.batch = task[t].batch /\ new.pending = task[t].pending
    BY <1>1 DEF TaskState
  <1> HIDE DEF new
  <1>4. \A u \in Tasks : task'[u].pending = task[u].pending /\ task'[u].batch = task[u].batch
    BY <1>1, <1>2, <1>3
  <1>5. \A n \in Messages : Fate'[n] = Fate[n]
    <2>1. \A n \in Messages : Gone(n)' <=> Gone(n)
      BY <1>2, <1>4 DEF Gone
    <2>2. QED
      BY <1>2, <1>4, <2>1, QuietFate
  <1>6. QED
    BY <1>2, <1>5, FaultsNumber, DiscardStep

(* What is deleted in calm is useless, or held or delivered already.       *)
LEMMA DeleteBatchImplements ==
  ASSUME ConsumerInv, NEW t \in Tasks, DeleteBatch(t)
  PROVE  Implements
  <1> DEFINE valid == IF task[t].expired THEN {} ELSE task[t].acks
             new == [task[t] EXCEPT !.pc = "poll", !.acks = {}, !.expired = FALSE]
  <1>1. PICK done \in SUBSET valid :
          /\ IF done = valid THEN UNCHANGED consumerFaults ELSE ConsumerFault
          /\ mail' = [m \in Messages |-> IF m \in done THEN "deleted" ELSE mail[m]]
    BY DEF DeleteBatch
  <1>2. casts' = casts
    BY DEF DeleteBatch
  <1>3. task \in [Tasks -> TaskState] /\ task[t] \in TaskState
    BY DEF ConsumerInv, ConsumerTypeOK
  <1>4. task' = [task EXCEPT ![t] = new]
    BY <1>3 DEF DeleteBatch, TaskState
  <1>5. new.pending = task[t].pending /\ new.batch = task[t].batch
    BY <1>3 DEF TaskState
  <1>6. done \subseteq task[t].acks
    BY <1>1
  <1>7. consumerFaults' = consumerFaults \/ ConsumerFault
    BY <1>1
  <1> HIDE DEF new, valid
  <1>8. \A u \in Tasks : task'[u].pending = task[u].pending /\ task'[u].batch = task[u].batch
    BY <1>3, <1>4, <1>5
  <1>9. /\ BroadcastParts' = BroadcastParts
        /\ \A n : n \in HeldParts' <=> n \in HeldParts
    <2>1. \A u \in Tasks : PartsOf(u)' = PartsOf(u)
      BY <1>8 DEF PartsOf
    <2>2. QED
      BY <1>2, <2>1, SameCasts, InHeld, InHeldNext
  <1>10. ASSUME NEW n \in Messages, n \notin done PROVE Fate'[n] = Fate[n]
    <2>1. mail'[n] = mail[n]
      BY <1>1, <1>10
    <2>2. Gone(n)' <=> Gone(n)
      BY <1>8, <2>1 DEF Gone
    <2>3. QED
      BY <1>9, <2>1, <2>2, SameFate
  <1>11. ASSUME NEW n \in Messages, n \in done
         PROVE  /\ Fate'[n] = Fate[n] \/ (Fate[n] = "waiting" /\ Fate'[n] = "gone")
                /\ n \in HeldParts \cup BroadcastParts => Fate'[n] = Fate[n]
    <2>1. mail[n] # "unsent" /\ mail'[n] = "deleted"
      BY <1>1, <1>6, <1>11 DEF ConsumerInv, QueueState
    <2>2. Gone(n) => Gone(n)'
      BY <1>8, <2>1 DEF Gone
    <2>3. QED
      BY <1>9, <2>1, <2>2, FateOf, FateOfNext
  <1>12. CASE ConsumerFault
    BY <1>10, <1>11, <1>12, FaultsNumber, FailStep
  <1>13. CASE consumerFaults' = consumerFaults
    <2>1. ASSUME NEW n \in Messages
          PROVE  \/ Fate'[n] = Fate[n]
                 \/ /\ Fate[n] = "waiting" /\ Fate'[n] = "gone"
                    /\ n \in Useless \/ consumerFaults > 0
      <3>1. CASE n \notin done
        BY <1>10, <3>1
      <3>2. CASE ~Calm
        BY <1>10, <1>11, <3>2, FaultsNumber
      <3>3. CASE n \in done /\ Calm
        <4>1. n \in Skipped \cup Late \cup HeldParts \cup BroadcastParts
          BY <1>6, <3>3 DEF ConsumerInv, CalmState, AcksKept
        <4>2. n \in Useless \/ n \in HeldParts \cup BroadcastParts
          BY <4>1 DEF Useless
        <4>3. QED
          BY <1>11, <3>3, <4>2
      <3>4. QED
        BY <3>1, <3>2, <3>3
    <2>2. QED
      BY <1>13, <2>1, FaultsNumber, DiscardStep
  <1>14. QED
    BY <1>7, <1>12, <1>13

(* A task that ends takes its buffer and its batch with it.                *)
LEMMA StoppedTask ==
  ASSUME ConsumerInv, NEW t \in Tasks, task' = [task EXCEPT ![t] = Down], mail' = mail
  PROVE  /\ \A n : n \in HeldParts' <=> \E u \in Tasks : u # t /\ n \in PartsOf(u)
         /\ \A n : n \in HeldParts <=>
              n \in PartsOf(t) \/ \E u \in Tasks : u # t /\ n \in PartsOf(u)
         /\ \A n \in Messages : Gone(n) => Gone(n)'
         /\ task[t].batch = {} => \A n \in Messages : Gone(n)' => Gone(n)
  <1>1. task \in [Tasks -> TaskState] /\ Down.batch = {} /\ Down.pending = NoFrame
    BY DEF ConsumerInv, ConsumerTypeOK, Down
  <1>2. /\ \A u \in Tasks : u # t => task'[u] = task[u]
        /\ task'[t].batch = {} /\ task'[t].pending.parts = <<>>
    BY <1>1 DEF NoFrame
  <1>3. PartsOf(t)' = {} /\ \A u \in Tasks : u # t => PartsOf(u)' = PartsOf(u)
    BY <1>2, NoParts DEF PartsOf
  <1>4. \A n : \A u \in Tasks : n \in task'[u].batch => n \in task[u].batch
    BY <1>2
  <1>5. task[t].batch = {} =>
          \A n : \A u \in Tasks : n \in task[u].batch => n \in task'[u].batch
    BY <1>2
  <1>6. \A n \in Messages : Gone(n) => Gone(n)'
    BY <1>4 DEF Gone
  <1>7. task[t].batch = {} => \A n \in Messages : Gone(n)' => Gone(n)
    BY <1>5 DEF Gone
  <1>8. QED
    BY <1>3, <1>6, <1>7, InHeld, InHeldNext

LEMMA ShutdownImplements ==
  ASSUME ConsumerInv, NEW t \in Tasks, Shutdown(t)
  PROVE  Implements
  <1>1. /\ task[t].pc = "poll" /\ task' = [task EXCEPT ![t] = Down] /\ mail' = mail
        /\ consumerFaults' = consumerFaults
        /\ casts' = IF task[t].pending = NoFrame THEN casts ELSE Cast(t)
    BY DEF Shutdown
  <1>2. task[t].batch = {}
    BY <1>1 DEF ConsumerInv, LoopState
  <1>3. /\ \A n : n \in HeldParts' <=> \E u \in Tasks : u # t /\ n \in PartsOf(u)
        /\ \A n : n \in HeldParts <=>
             n \in PartsOf(t) \/ \E u \in Tasks : u # t /\ n \in PartsOf(u)
        /\ \A n \in Messages : Gone(n)' <=> Gone(n)
    BY <1>1, <1>2, StoppedTask
  <1>4. BroadcastParts' = BroadcastParts \cup PartsOf(t)
    <2>1. CASE task[t].pending = NoFrame
      <3>1. PartsOf(t) = {}
        BY <2>1, NoParts DEF PartsOf, NoFrame
      <3>2. QED
        BY <1>1, <2>1, <3>1, SameCasts
    <2>2. CASE task[t].pending # NoFrame
      <3>1. casts' = Cast(t) /\ task[t].pc # "down"
        BY <1>1, <2>2
      <3>2. QED
        BY <3>1, CastParts DEF ConsumerInv
    <2>3. QED
      BY <2>1, <2>2
  <1>5. ASSUME NEW n \in Messages
        PROVE  Fate'[n] = Fate[n] \/ (Fate[n] = "held" /\ Fate'[n] = "done")
    <2>1. CASE n \in PartsOf(t)
      <3>1. mail[n] # "unsent"
        BY <2>1, <1>3, KnownIsSent DEF ConsumerInv
      <3>2. Fate'[n] = "done"
        BY <1>1, <1>4, <2>1, <3>1, FateOfNext
      <3>3. Fate[n] \in {"done", "held"}
        BY <1>3, <2>1, <3>1, FateOf
      <3>4. QED
        BY <3>2, <3>3
    <2>2. CASE n \notin PartsOf(t)
      BY <1>1, <1>3, <1>4, <2>2, SameFate
    <2>3. QED
      BY <2>1, <2>2
  <1>6. QED
    BY <1>1, <1>5, DeliverStep

LEMMA TaskDiesImplements ==
  ASSUME ConsumerInv, NEW t \in Tasks, TaskDies(t)
  PROVE  Implements
  <1>1. /\ task' = [task EXCEPT ![t] = Down] /\ mail' = mail /\ casts' = casts
        /\ consumerFaults' > 0
    BY FaultsNumber DEF TaskDies
  <1>2. BroadcastParts' = BroadcastParts
    BY <1>1, SameCasts
  <1>3. /\ \A n : n \in HeldParts' => n \in HeldParts
        /\ \A n \in Messages : Gone(n) => Gone(n)'
    BY <1>1, StoppedTask
  <1>4. ASSUME NEW n \in Messages
        PROVE  \/ Fate'[n] = Fate[n]
               \/ Fate[n] \in {"waiting", "held"} /\ Fate'[n] = "gone"
               \/ Fate[n] = "held" /\ Fate'[n] = "waiting"
    <2>1. CASE mail[n] = "unsent" \/ n \in BroadcastParts
      BY <1>1, <1>2, <2>1, FateOf, FateOfNext
    <2>2. CASE mail[n] # "unsent" /\ n \notin BroadcastParts /\ n \in HeldParts
      BY <1>1, <1>2, <2>2, FateOf, FateOfNext
    <2>3. CASE mail[n] # "unsent" /\ n \notin BroadcastParts /\ n \notin HeldParts
      <3>1. n \notin HeldParts' /\ (Gone(n) => Gone(n)')
        BY <1>3, <2>3
      <3>2. QED
        BY <1>1, <1>2, <2>3, <3>1, FateOf, FateOfNext
    <2>4. QED
      BY <2>1, <2>2, <2>3
  <1>5. QED
    BY <1>1, <1>4, FailStep

LEMMA StepImplements ==
  ConsumerInv /\ [ConsumerNext]_consumerVars => Implements
  <1> SUFFICES ASSUME ConsumerInv, [ConsumerNext]_consumerVars PROVE Implements
    OBVIOUS
  <1>1. CASE UNCHANGED consumerVars
    BY <1>1 DEF consumerVars, Implements, Delivery!fateVars, Fate, Gone,
                HeldParts, BroadcastParts
  <1>2. CASE \E m \in Messages : Publish(m)
    BY <1>2, PublishImplements
  <1>3. CASE VisibilityTimeout
    BY <1>3, VisibilityTimeoutImplements
  <1>4. ASSUME NEW t \in Tasks, RunStep(t) PROVE Implements
    <2>1. CASE Receive(t)
      BY <2>1, ReceiveImplements
    <2>2. CASE ProcessStep(t)
      BY <2>2, SkipMessageImplements, BufferFirstImplements, MergeFragmentImplements,
         DropStaleImplements, FlushAndBufferImplements DEF ProcessStep
    <2>3. CASE DeleteBatch(t)
      BY <2>3, DeleteBatchImplements
    <2>4. CASE Shutdown(t)
      BY <2>4, ShutdownImplements
    <2>5. QED
      BY <1>4, <2>1, <2>2, <2>3, <2>4 DEF RunStep
  <1>5. CASE \E t \in Tasks : StartTask(t) \/ Sigterm(t) \/ TaskDies(t)
    BY <1>5, StartTaskImplements, SigtermImplements, TaskDiesImplements
  <1>6. CASE \E t \in Tasks, m \in Messages : FlushRaises(t, m)
    BY <1>6, FlushRaisesImplements
  <1>7. QED
    BY <1>1, <1>2, <1>3, <1>4, <1>5, <1>6 DEF ConsumerNext

(* The consumer is the delivery FrameDelivery specifies, whatever fails,   *)
(* is redelivered or overlaps: consumer.py never takes back a message it   *)
(* has broadcast, takes up none that is discarded, and while nothing has   *)
(* failed discards only what is useless or was published too late.         *)
THEOREM ConsumerIsADelivery == ConsumerSpec => ImplementsDelivery
  <1>1. ConsumerInit => Delivery!DeliveryInit
    <2> SUFFICES ASSUME ConsumerInit PROVE Delivery!DeliveryInit
      OBVIOUS
    <2>1. mail = [m \in Messages |-> "unsent"] /\ consumerFaults = 0
      BY DEF ConsumerInit
    <2>2. \A n \in Messages : Fate[n] = "unsent"
      BY <2>1, FateOf
    <2>3. Fate = [n \in Messages |-> "unsent"]
      BY <2>2, FateOf
    <2>4. QED
      BY <2>1, <2>3 DEF Delivery!DeliveryInit
  <1>2. ConsumerInv /\ [ConsumerNext]_consumerVars
          => [Delivery!DeliveryNext]_(Delivery!fateVars)
    BY StepImplements DEF Implements
  <1>3. QED
    BY <1>1, <1>2, ConsumerInvAlways, PTL DEF ConsumerSpec, ImplementsDelivery, Delivery!DeliverySpec
-----------------------------------------------------------------------------
(* WHAT A FAILURE COSTS                                                    *)
(*                                                                         *)
(* The frames that failures have been charged with are a set E of times:   *)
(* a task that dies adds the time of its buffer, a broadcast that raises   *)
(* that and the time of the message it was about.  Every other message is  *)
(* held, or broadcast, or waits: it is in the queue, and no task has gone  *)
(* past it.                                                                *)

(* The fragments of a frame have one time, as LossBounded is stated of.    *)
OneTimeAFrame ==
  \A l, m \in Usable : Ts[l] # Ts[m] => Ts[l] > Ts[m] + Window \/ Ts[m] > Ts[l] + Window

BufferTimes == \A t \in Tasks : \A l \in PartsOf(t) : Ts[l] = task[t].pending.ts

Waits(m) ==
  /\ mail[m] # "deleted"
  /\ \A t \in Tasks :
       /\ m \notin task[t].acks
       /\ \A l \in PartsOf(t) : l < m
       /\ \A l \in task[t].batch : m < l => m \in task[t].batch

Accounted(E) ==
  \A m \in Usable \ Late : Ts[m] \in E \/ m \in HeldParts \/ m \in BroadcastParts \/ Waits(m)

LossInv ==
  /\ BufferTimes
  /\ \E E : IsFiniteSet(E) /\ Cardinality(E) <= 2 * consumerFaults /\ Accounted(E)

(* A step that costs nothing, and one that costs two frames at most.       *)
LEMMA FreeStep ==
  ASSUME ConsumerInv, LossInv, BufferTimes',
         consumerFaults' = consumerFaults \/ ConsumerFault,
         \A E : Accounted(E) => Accounted(E)'
  PROVE  LossInv'
  <1>1. PICK E : IsFiniteSet(E) /\ Cardinality(E) <= 2 * consumerFaults /\ Accounted(E)
    BY DEF LossInv
  <1>2. consumerFaults \in Nat /\ Cardinality(E) \in Nat
    BY <1>1, FaultsNumber, FS_CardinalityType
  <1>3. Cardinality(E) <= 2 * consumerFaults'
    BY <1>1, <1>2 DEF ConsumerFault
  <1>4. QED
    BY <1>1, <1>3 DEF LossInv

LEMMA CostlyStep ==
  ASSUME ConsumerInv, LossInv, BufferTimes', ConsumerFault, NEW a, NEW b,
         \A E : Accounted(E) => Accounted((E \cup {a}) \cup {b})'
  PROVE  LossInv'
  <1>1. PICK E : IsFiniteSet(E) /\ Cardinality(E) <= 2 * consumerFaults /\ Accounted(E)
    BY DEF LossInv
  <1>2. consumerFaults \in Nat /\ Cardinality(E) \in Nat
    BY <1>1, FaultsNumber, FS_CardinalityType
  <1> DEFINE D == E \cup {a}
             F == D \cup {b}
  <1>3. IsFiniteSet(D) /\ Cardinality(D) \in {Cardinality(E), Cardinality(E) + 1}
    BY <1>1, FS_AddElement
  <1>4. IsFiniteSet(F) /\ Cardinality(F) \in {Cardinality(D), Cardinality(D) + 1}
    <2> HIDE DEF D
    <2>1. QED
      BY <1>3, FS_AddElement
  <1>5. Accounted(F)'
    BY <1>1
  <1> HIDE DEF D, F
  <1>6. consumerFaults' = consumerFaults + 1
    BY DEF ConsumerFault
  <1>7. Cardinality(F) <= 2 * consumerFaults'
    BY <1>1, <1>2, <1>3, <1>4, <1>6
  <1>8. QED
    BY <1>4, <1>5, <1>7 DEF LossInv

(* A step that leaves the buffers as they are.                             *)
LEMMA BuffersStay ==
  ASSUME ConsumerInv, LossInv, casts' = casts,
         \A u \in Tasks : task'[u].pending = task[u].pending,
         consumerFaults' = consumerFaults \/ ConsumerFault,
         \A m \in Usable : Waits(m) => Waits(m)'
  PROVE  LossInv'
  <1>1. \A u \in Tasks : PartsOf(u)' = PartsOf(u)
    BY DEF PartsOf
  <1>2. BufferTimes'
    BY <1>1 DEF BufferTimes, LossInv
  <1>3. BroadcastParts' = BroadcastParts /\ \A n : n \in HeldParts => n \in HeldParts'
    BY <1>1, SameCasts, InHeld, InHeldNext
  <1>4. \A E : Accounted(E) => Accounted(E)'
    BY <1>3 DEF Accounted
  <1>5. QED
    BY <1>2, <1>4, FreeStep

LEMMA PublishLoss ==
  ASSUME ConsumerInv, LossInv, NEW m \in Messages, Publish(m)
  PROVE  LossInv'
  <1>1. /\ mail' = [mail EXCEPT ![m] = "visible"]
        /\ task' = task /\ casts' = casts /\ consumerFaults' = consumerFaults
    BY DEF Publish
  <1>2. mail \in [Messages -> {"unsent", "visible", "inflight", "deleted"}]
    BY DEF ConsumerInv, ConsumerTypeOK
  <1>3. \A n \in Messages : mail'[n] = "deleted" => mail[n] = "deleted"
    BY <1>1, <1>2
  <1>4. \A n \in Usable : Waits(n) => Waits(n)'
    BY <1>1, <1>3 DEF Waits, PartsOf, Usable
  <1>5. QED
    BY <1>1, <1>4, BuffersStay

LEMMA VisibilityTimeoutLoss ==
  ASSUME ConsumerInv, LossInv, VisibilityTimeout
  PROVE  LossInv'
  <1>1. /\ mail' = [m \in Messages |-> IF mail[m] = "inflight" THEN "visible" ELSE mail[m]]
        /\ casts' = casts /\ (consumerFaults' = consumerFaults \/ ConsumerFault)
    BY DEF VisibilityTimeout
  <1>2. \A u \in Tasks : /\ task'[u].pending = task[u].pending
                         /\ task'[u].batch = task[u].batch /\ task'[u].acks = task[u].acks
    BY VisibilityTimeoutTask DEF ConsumerInv
  <1>3. \A n \in Messages : mail'[n] = "deleted" => mail[n] = "deleted"
    BY <1>1
  <1>4. \A n \in Usable : Waits(n) => Waits(n)'
    BY <1>2, <1>3 DEF Waits, PartsOf, Usable
  <1>5. QED
    BY <1>1, <1>2, <1>4, BuffersStay

(* A batch is the front of the queue, so a message that is still in the    *)
(* queue is in the batch that goes past it.                                *)
LEMMA ReceiveLoss ==
  ASSUME ConsumerInv, LossInv, NEW t \in Tasks, Receive(t)
  PROVE  LossInv'
  <1>1. /\ task[t].pc = "poll" /\ \A m \in Messages : mail[m] # "inflight"
        /\ mail' = [m \in Messages |-> IF m \in NextBatch THEN "inflight" ELSE mail[m]]
        /\ casts' = casts /\ consumerFaults' = consumerFaults
    BY DEF Receive
  <1> DEFINE B == NextBatch
             new == [task[t] EXCEPT !.pc = "process", !.batch = B, !.acks = {}]
  <1>2. task \in [Tasks -> TaskState] /\ task[t] \in TaskState
    BY DEF ConsumerInv, ConsumerTypeOK
  <1>3. task' = [task EXCEPT ![t] = new]
    BY <1>2 DEF Receive, TaskState
  <1>4. new.pending = task[t].pending /\ new.batch = B /\ new.acks = {}
    BY <1>2 DEF TaskState
  <1> HIDE DEF new
  <1>5. /\ \A u \in Tasks : task'[u].pending = task[u].pending
        /\ \A u \in Tasks : u # t => task'[u] = task[u]
        /\ task'[t].batch = B /\ task'[t].acks = {}
    BY <1>2, <1>3, <1>4
  <1>6. ASSUME NEW n \in Usable, Waits(n), NEW l \in B, n < l
        PROVE  n \in B
    <2>1. n \in Messages /\ l \in Messages /\ mail[l] = "visible"
      BY DEF Usable, NextBatch, Visible
    <2>2. mail[n] # "unsent"
      BY <1>6, <2>1 DEF ConsumerInv, QueueState
    <2>3. mail[n] = "visible"
      BY <1>1, <1>6, <2>1, <2>2 DEF Waits, ConsumerInv, ConsumerTypeOK
    <2>4. n \in Visible
      BY <2>1, <2>3 DEF Visible
    <2>5. n \notin B => l < n
      BY <2>4, BatchIsFirst
    <2>6. n \in Nat /\ l \in Nat
      BY <2>1, ConsumerConstants
    <2>7. QED
      BY <1>6, <2>5, <2>6
  <1>7. ASSUME NEW n \in Usable, Waits(n)
        PROVE  Waits(n)'
    <2>1. mail'[n] # "deleted"
      BY <1>1, <1>7 DEF Waits, Usable
    <2>2. ASSUME NEW u \in Tasks
          PROVE  /\ n \notin task'[u].acks
                 /\ \A l \in PartsOf(u)' : l < n
                 /\ \A l \in task'[u].batch : n < l => n \in task'[u].batch
      <3>1. PartsOf(u)' = PartsOf(u)
        BY <1>5 DEF PartsOf
      <3>2. CASE u = t
        BY <1>5, <1>6, <1>7, <3>1, <3>2 DEF Waits
      <3>3. CASE u # t
        BY <1>5, <1>7, <3>1, <3>3 DEF Waits
      <3>4. QED
        BY <3>2, <3>3
    <2>3. QED
      BY <2>1, <2>2 DEF Waits
  <1> HIDE DEF B
  <1>8. QED
    BY <1>1, <1>5, <1>7, BuffersStay

LEMMA DeleteBatchLoss ==
  ASSUME ConsumerInv, LossInv, NEW t \in Tasks, DeleteBatch(t)
  PROVE  LossInv'
  <1> DEFINE valid == IF task[t].expired THEN {} ELSE task[t].acks
             new == [task[t] EXCEPT !.pc = "poll", !.acks = {}, !.expired = FALSE]
  <1>1. PICK done \in SUBSET valid :
          /\ IF done = valid THEN UNCHANGED consumerFaults ELSE ConsumerFault
          /\ mail' = [m \in Messages |-> IF m \in done THEN "deleted" ELSE mail[m]]
    BY DEF DeleteBatch
  <1>2. casts' = casts /\ (consumerFaults' = consumerFaults \/ ConsumerFault)
    BY <1>1 DEF DeleteBatch
  <1>3. task \in [Tasks -> TaskState] /\ task[t] \in TaskState
    BY DEF ConsumerInv, ConsumerTypeOK
  <1>4. task' = [task EXCEPT ![t] = new]
    BY <1>3 DEF DeleteBatch, TaskState
  <1>5. new.pending = task[t].pending /\ new.batch = task[t].batch /\ new.acks = {}
    BY <1>3 DEF TaskState
  <1> HIDE DEF new
  <1>6. \A u \in Tasks : /\ task'[u].pending = task[u].pending
                         /\ task'[u].batch = task[u].batch
                         /\ task'[u].acks \subseteq task[u].acks
    BY <1>3, <1>4, <1>5
  <1>7. done \subseteq task[t].acks
    BY <1>1
  <1>8. \A n \in Usable : Waits(n) => mail'[n] # "deleted"
    BY <1>1, <1>7 DEF Waits, Usable
  <1> HIDE DEF valid
  <1>9. \A n \in Usable : Waits(n) => Waits(n)'
    BY <1>6, <1>8 DEF Waits, PartsOf
  <1>10. QED
    BY <1>2, <1>6, <1>9, BuffersStay

LEMMA StartTaskLoss ==
  ASSUME ConsumerInv, LossInv, NEW t \in Tasks, StartTask(t)
  PROVE  LossInv'
  <1> DEFINE new == [Down EXCEPT !.pc = "poll", !.id = starts + 1]
  <1>1. /\ task[t].pc = "down" /\ mail' = mail /\ casts' = casts
        /\ consumerFaults' = consumerFaults /\ task' = [task EXCEPT ![t] = new]
    BY DEF StartTask
  <1>2. new.batch = {} /\ new.acks = {} /\ new.pending = NoFrame
    BY DEF Down
  <1>3. task \in [Tasks -> TaskState]
    BY DEF ConsumerInv, ConsumerTypeOK
  <1>4. task[t].pending = NoFrame
    BY <1>1 DEF ConsumerInv, LoopState
  <1> HIDE DEF new
  <1>5. \A u \in Tasks :
          /\ task'[u].pending = task[u].pending
          /\ \/ task'[u].batch = {} /\ task'[u].acks = {}
             \/ task'[u].batch = task[u].batch /\ task'[u].acks = task[u].acks
    BY <1>1, <1>2, <1>3, <1>4
  <1>6. \A n \in Usable : Waits(n) => Waits(n)'
    BY <1>1, <1>5 DEF Waits, PartsOf
  <1>7. QED
    BY <1>1, <1>5, <1>6, BuffersStay

LEMMA SigtermLoss ==
  ASSUME ConsumerInv, LossInv, NEW t \in Tasks, Sigterm(t)
  PROVE  LossInv'
  <1> DEFINE new == [task[t] EXCEPT !.stopping = TRUE]
  <1>1. task \in [Tasks -> TaskState] /\ task[t] \in TaskState
    BY DEF ConsumerInv, ConsumerTypeOK
  <1>2. /\ mail' = mail /\ casts' = casts
        /\ consumerFaults' = consumerFaults /\ task' = [task EXCEPT ![t] = new]
    BY <1>1 DEF Sigterm
  <1>3. /\ new.batch = task[t].batch /\ new.acks = task[t].acks
        /\ new.pending = task[t].pending
    BY <1>1 DEF TaskState
  <1> HIDE DEF new
  <1>4. \A u \in Tasks : /\ task'[u].pending = task[u].pending
                         /\ task'[u].batch = task[u].batch /\ task'[u].acks = task[u].acks
    BY <1>1, <1>2, <1>3
  <1>5. \A n \in Usable : Waits(n) => Waits(n)'
    BY <1>2, <1>4 DEF Waits, PartsOf
  <1>6. QED
    BY <1>2, <1>4, <1>5, BuffersStay

(* A task ends: its buffer was broadcast, or is charged to its death.      *)
LEMMA StopCounts ==
  ASSUME ConsumerInv, LossInv, NEW t \in Tasks, task' = [task EXCEPT ![t] = Down],
         mail' = mail, NEW C,
         \A n : n \in BroadcastParts => n \in BroadcastParts',
         \A n \in PartsOf(t) : n \in BroadcastParts' \/ Ts[n] \in C
  PROVE  BufferTimes' /\ \A E : Accounted(E) => Accounted(E \cup C)'
  <1>1. task \in [Tasks -> TaskState] /\ Down.batch = {} /\ Down.acks = {} /\ Down.pending = NoFrame
    BY DEF ConsumerInv, ConsumerTypeOK, Down
  <1>2. /\ \A u \in Tasks : u # t => task'[u] = task[u]
        /\ task'[t].batch = {} /\ task'[t].acks = {} /\ task'[t].pending.parts = <<>>
    BY <1>1 DEF NoFrame
  <1>3. PartsOf(t)' = {} /\ \A u \in Tasks : u # t => PartsOf(u)' = PartsOf(u)
    BY <1>2, NoParts DEF PartsOf
  <1>4. BufferTimes'
    BY <1>2, <1>3 DEF BufferTimes, LossInv
  <1>5. \A n \in Usable : Waits(n) => Waits(n)'
    BY <1>2, <1>3 DEF Waits
  <1>6. \A n : n \in HeldParts => n \in PartsOf(t) \/ n \in HeldParts'
    BY StoppedTask
  <1>7. \A E : Accounted(E) => Accounted(E \cup C)'
    BY <1>5, <1>6 DEF Accounted
  <1>8. QED
    BY <1>4, <1>7

LEMMA ShutdownLoss ==
  ASSUME ConsumerInv, LossInv, NEW t \in Tasks, Shutdown(t)
  PROVE  LossInv'
  <1>1. /\ task[t].pc = "poll" /\ task' = [task EXCEPT ![t] = Down] /\ mail' = mail
        /\ consumerFaults' = consumerFaults
        /\ casts' = IF task[t].pending = NoFrame THEN casts ELSE Cast(t)
    BY DEF Shutdown
  <1>2. BroadcastParts' = BroadcastParts \cup PartsOf(t)
    <2>1. CASE task[t].pending = NoFrame
      <3>1. PartsOf(t) = {}
        BY <2>1, NoParts DEF PartsOf, NoFrame
      <3>2. QED
        BY <1>1, <2>1, <3>1, SameCasts
    <2>2. CASE task[t].pending # NoFrame
      <3>1. casts' = Cast(t) /\ task[t].pc # "down"
        BY <1>1, <2>2
      <3>2. QED
        BY <3>1, CastParts DEF ConsumerInv
    <2>3. QED
      BY <2>1, <2>2
  <1>3. BufferTimes' /\ \A E : Accounted(E) => Accounted(E \cup {})'
    BY <1>1, <1>2, StopCounts
  <1>4. \A E : E \cup {} = E
    OBVIOUS
  <1>5. QED
    BY <1>1, <1>3, <1>4, FreeStep

LEMMA TaskDiesLoss ==
  ASSUME ConsumerInv, LossInv, NEW t \in Tasks, TaskDies(t)
  PROVE  LossInv'
  <1>1. task' = [task EXCEPT ![t] = Down] /\ mail' = mail /\ casts' = casts /\ ConsumerFault
    BY DEF TaskDies
  <1>2. PICK a : a = task[t].pending.ts
    OBVIOUS
  <1>3. BroadcastParts' = BroadcastParts
    BY <1>1, SameCasts
  <1>4. \A n \in PartsOf(t) : Ts[n] \in {a}
    BY <1>2 DEF LossInv, BufferTimes
  <1>5. BufferTimes' /\ \A E : Accounted(E) => Accounted(E \cup {a})'
    BY <1>1, <1>3, <1>4, StopCounts
  <1>6. \A E : (E \cup {a}) \cup {a} = E \cup {a}
    OBVIOUS
  <1>7. QED
    BY <1>1, <1>5, <1>6, CostlyStep

(* Processing message m, with the times C charged.  A message that waits   *)
(* and is another is behind m in every batch m is in.                      *)
LEMMA HandledWaits ==
  ASSUME ConsumerInv, NEW t \in Tasks, NEW m \in Messages, NEW p \in Frame, NEW done,
         Handled(t, m, p, done), NEW n \in Usable, n # m, Waits(n)
  PROVE  Waits(n)'
  <1>1. /\ m \in task[t].batch /\ \A l \in task[t].batch : m <= l
        /\ mail' = mail /\ \A u \in Tasks : u # t => task'[u] = task[u]
        /\ task'[t].batch = task[t].batch \ {m}
        /\ task'[t].acks = task[t].acks \cup done /\ done \subseteq {m}
    BY HandledTask DEF ConsumerInv
  <1>2. /\ PartsOf(t)' = ToSet(p.parts) /\ ToSet(p.parts) \subseteq PartsOf(t) \cup {m}
        /\ \A u \in Tasks : u # t => PartsOf(u)' = PartsOf(u)
    BY HandledFate DEF Handled
  <1>3. m < n
    <2>1. m \in Nat /\ n \in Nat
      BY ConsumerConstants DEF Usable
    <2>2. ~(n < m)
      <3>1. n < m => n \in task[t].batch
        BY <1>1 DEF Waits
      <3>2. n \in task[t].batch => m <= n
        BY <1>1
      <3>3. QED
        BY <2>1, <3>1, <3>2
    <2>3. QED
      BY <2>1, <2>2
  <1>4. ASSUME NEW u \in Tasks
        PROVE  /\ n \notin task'[u].acks
               /\ \A l \in PartsOf(u)' : l < n
               /\ \A l \in task'[u].batch : n < l => n \in task'[u].batch
    <2>1. CASE u = t
      <3>1. n \notin task'[u].acks /\ \A l \in PartsOf(u)' : l < n
        BY <1>1, <1>2, <1>3, <2>1 DEF Waits
      <3>2. \A l \in task'[u].batch : n < l => n \in task'[u].batch
        BY <1>1, <2>1 DEF Waits
      <3>3. QED
        BY <3>1, <3>2
    <2>2. CASE u # t
      BY <1>1, <1>2, <2>2 DEF Waits
    <2>3. QED
      BY <2>1, <2>2
  <1>5. QED
    BY <1>1, <1>4 DEF Waits

LEMMA HandledCounts ==
  ASSUME ConsumerInv, LossInv, NEW t \in Tasks, NEW m \in Messages, NEW p \in Frame,
         NEW done, Handled(t, m, p, done), NEW C,
         \A l \in ToSet(p.parts) : Ts[l] = p.ts,
         \A n \in PartsOf(t) : n \in ToSet(p.parts) \/ n \in BroadcastParts' \/ Ts[n] \in C,
         m \in Usable \ Late => m \in ToSet(p.parts) \/ Ts[m] \in C \/ ~Waits(m)
  PROVE  BufferTimes' /\ \A E : Accounted(E) => Accounted(E \cup C)'
  <1>1. /\ task[t].pc = "process" /\ task'[t].pending = p
        /\ \A u \in Tasks : u # t => task'[u] = task[u]
    BY HandledTask DEF ConsumerInv
  <1>2. /\ PartsOf(t)' = ToSet(p.parts)
        /\ \A u \in Tasks : u # t => PartsOf(u)' = PartsOf(u)
        /\ \A n : n \in HeldParts' <=>
             n \in ToSet(p.parts) \/ \E u \in Tasks : u # t /\ n \in PartsOf(u)
        /\ \A n : n \in HeldParts <=>
             n \in PartsOf(t) \/ \E u \in Tasks : u # t /\ n \in PartsOf(u)
    BY HandledFate
  <1>3. BufferTimes'
    BY <1>1, <1>2 DEF BufferTimes, LossInv
  <1>4. BroadcastParts \subseteq BroadcastParts'
    <2>1. CASE casts' = casts
      BY <2>1, SameCasts
    <2>2. CASE casts' = Cast(t)
      BY <1>1, <2>2, CastParts DEF ConsumerInv
    <2>3. QED
      BY <2>1, <2>2 DEF Handled
  <1>5. \A n : n \in HeldParts => n \in HeldParts' \/ n \in BroadcastParts' \/ Ts[n] \in C
    BY <1>2
  <1>6. ASSUME NEW E, Accounted(E), NEW n \in Usable \ Late
        PROVE  \/ Ts[n] \in E \cup C \/ n \in HeldParts' \/ n \in BroadcastParts'
               \/ Waits(n)'
    <2>1. Ts[n] \in E \/ n \in HeldParts \/ n \in BroadcastParts \/ Waits(n)
      BY <1>6 DEF Accounted
    <2>2. CASE Waits(n)
      <3>1. CASE n = m
        BY <1>2, <2>2, <3>1
      <3>2. CASE n # m
        BY <2>2, <3>2, HandledWaits
      <3>3. QED
        BY <3>1, <3>2
    <2>3. QED
      BY <1>4, <1>5, <2>1, <2>2
  <1>7. \A E : Accounted(E) => Accounted(E \cup C)'
    BY <1>6 DEF Accounted
  <1>8. QED
    BY <1>3, <1>7

(* A message that is processed at no cost.                                 *)
LEMMA HandledLoss ==
  ASSUME ConsumerInv, LossInv, NEW t \in Tasks, NEW m \in Messages, NEW p \in Frame,
         NEW done, Handled(t, m, p, done), consumerFaults' = consumerFaults,
         \A l \in ToSet(p.parts) : Ts[l] = p.ts,
         \A n \in PartsOf(t) : n \in ToSet(p.parts) \/ n \in BroadcastParts',
         m \in Usable \ Late => m \in ToSet(p.parts) \/ ~Waits(m)
  PROVE  LossInv'
  <1>1. BufferTimes' /\ \A E : Accounted(E) => Accounted(E \cup {})'
    BY HandledCounts
  <1>2. \A E : E \cup {} = E
    OBVIOUS
  <1>3. QED
    BY <1>1, <1>2, FreeStep

LEMMA SkipMessageLoss ==
  ASSUME ConsumerInv, LossInv, NEW t \in Tasks, NEW m \in Messages, SkipMessage(t, m)
  PROVE  LossInv'
  <1>1. task[t].pending \in Frame /\ PartsOf(t) = ToSet(task[t].pending.parts)
    BY TypedTask DEF ConsumerInv, PartsOf
  <1>2. m \notin Usable /\ consumerFaults' = consumerFaults
    BY DEF SkipMessage, Usable
  <1>3. \A l \in PartsOf(t) : Ts[l] = task[t].pending.ts
    BY DEF LossInv, BufferTimes
  <1>4. QED
    BY <1>1, <1>2, <1>3, SkipIsHandled, HandledLoss

LEMMA BufferFirstLoss ==
  ASSUME ConsumerInv, LossInv, NEW t \in Tasks, NEW m \in Messages, BufferFirst(t, m)
  PROVE  LossInv'
  <1>1. /\ Fragment(m) \in Frame /\ Fragment(m).ts = Ts[m]
        /\ ToSet(Fragment(m).parts) = {m}
    BY FragmentFrame
  <1>2. task[t].pending = NoFrame /\ consumerFaults' = consumerFaults
    BY DEF BufferFirst, IntoEmpty
  <1>3. PartsOf(t) = {}
    BY <1>2, NoParts DEF PartsOf, NoFrame
  <1>4. QED
    BY <1>1, <1>2, <1>3, BufferIsHandled, HandledLoss

LEMMA MergeFragmentLoss ==
  ASSUME OneTimeAFrame, ConsumerInv, LossInv,
         NEW t \in Tasks, NEW m \in Messages, MergeFragment(t, m)
  PROVE  LossInv'
  <1> DEFINE q == task[t].pending
             p == Merged(task[t].pending, m)
  <1>1. q \in Frame /\ PartsOf(t) = ToSet(q.parts)
    BY TypedTask DEF ConsumerInv, PartsOf
  <1>2. /\ p \in Frame /\ p.ts \in {Ts[m], q.ts}
        /\ ToSet(p.parts) = ToSet(q.parts) \cup {m}
    BY <1>1, MergedFrame
  <1>3. Handled(t, m, p, {m}) /\ consumerFaults' = consumerFaults
    BY MergeIsHandled DEF MergeFragment
  <1>4. \A l \in PartsOf(t) : Ts[l] = q.ts
    BY DEF LossInv, BufferTimes
  <1>5. Ts[m] = q.ts
    <2>1. PICK l \in PartsOf(t) : q.ts = Ts[l]
      BY DEF ConsumerInv, BufferState, MergeFragment, AgainstBuffer
    <2>2. l \in Usable /\ m \in Usable
      BY <2>1 DEF ConsumerInv, QueueState, MergeFragment, AgainstBuffer
    <2>3. Ts[l] \in Nat /\ Ts[m] \in Nat /\ Window \in Nat
      BY <2>2, ConsumerConstants DEF Usable
    <2>4. Ts[m] - Ts[l] <= Window /\ -(Ts[m] - Ts[l]) <= Window
      BY <2>1 DEF MergeFragment, Diff
    <2>5. ~(Ts[l] > Ts[m] + Window) /\ ~(Ts[m] > Ts[l] + Window)
      BY <2>3, <2>4
    <2>6. QED
      BY <2>1, <2>2, <2>5 DEF OneTimeAFrame
  <1> HIDE DEF p, q
  <1>6. QED
    BY <1>1, <1>2, <1>3, <1>4, <1>5, HandledLoss

(* A message is dropped as older than what is buffered only if it came     *)
(* late, or the task has gone past it, so that it was accounted for.       *)
LEMMA DropStaleLoss ==
  ASSUME ConsumerInv, LossInv, NEW t \in Tasks, NEW m \in Messages, DropStale(t, m)
  PROVE  LossInv'
  <1>1. task[t].pending \in Frame /\ PartsOf(t) = ToSet(task[t].pending.parts)
    BY TypedTask DEF ConsumerInv, PartsOf
  <1>2. consumerFaults' = consumerFaults /\ \A l \in PartsOf(t) : Ts[l] = task[t].pending.ts
    BY DEF LossInv, BufferTimes, DropStale
  <1>3. Waits(m) => m \in Late
    <2>1. PICK l \in PartsOf(t) : task[t].pending.ts = Ts[l]
      BY DEF ConsumerInv, BufferState, DropStale, AgainstBuffer
    <2>2. l \in Usable /\ m \in Usable
      BY <2>1 DEF ConsumerInv, QueueState, DropStale, AgainstBuffer
    <2>3. Ts[l] \in Nat /\ Ts[m] \in Nat /\ Window \in Nat
      BY <2>2, ConsumerConstants DEF Usable
    <2>4. Ts[m] - Ts[l] < -Window
      BY <2>1 DEF DropStale, Diff
    <2>5. Ts[l] > Ts[m] + Window
      BY <2>3, <2>4
    <2>6. Waits(m) => l < m
      BY <2>1 DEF Waits
    <2>7. QED
      BY <2>2, <2>5, <2>6 DEF Late
  <1>4. QED
    BY <1>1, <1>2, <1>3, DropIsHandled, HandledLoss

LEMMA FlushAndBufferLoss ==
  ASSUME ConsumerInv, LossInv, NEW t \in Tasks, NEW m \in Messages, FlushAndBuffer(t, m)
  PROVE  LossInv'
  <1>1. /\ Fragment(m) \in Frame /\ Fragment(m).ts = Ts[m]
        /\ ToSet(Fragment(m).parts) = {m}
    BY FragmentFrame
  <1>2. casts' = Cast(t) /\ consumerFaults' = consumerFaults /\ task[t].pc # "down"
    BY DEF FlushAndBuffer, AgainstBuffer, InTurn
  <1>3. PartsOf(t) \subseteq BroadcastParts'
    BY <1>2, CastParts DEF ConsumerInv
  <1>4. QED
    BY <1>1, <1>2, <1>3, FlushIsHandled, HandledLoss

LEMMA FlushRaisesLoss ==
  ASSUME ConsumerInv, LossInv, NEW t \in Tasks, NEW m \in Messages, FlushRaises(t, m)
  PROVE  LossInv'
  <1>1. NoFrame \in Frame /\ ToSet(NoFrame.parts) = {}
    BY NoFrameIsAFrame, NoParts DEF NoFrame
  <1>2. PICK a : a = task[t].pending.ts
    OBVIOUS
  <1>3. \A n \in PartsOf(t) : Ts[n] \in {a} \cup {Ts[m]}
    BY <1>2 DEF LossInv, BufferTimes
  <1>4. BufferTimes' /\ \A E : Accounted(E) => Accounted(E \cup ({a} \cup {Ts[m]}))'
    BY <1>1, <1>3, RaiseIsHandled, HandledCounts
  <1>5. \A E : E \cup ({a} \cup {Ts[m]}) = (E \cup {a}) \cup {Ts[m]}
    OBVIOUS
  <1>6. ConsumerFault
    BY DEF FlushRaises
  <1>7. QED
    BY <1>4, <1>5, <1>6, CostlyStep

LEMMA LossInvInit ==
  ASSUME ConsumerInit
  PROVE  LossInv
  <1>1. \A u \in Tasks : /\ PartsOf(u) = {} /\ task[u].batch = {} /\ task[u].acks = {}
    BY NoParts DEF ConsumerInit, Down, NoFrame, PartsOf
  <1>2. \A m \in Messages : mail[m] = "unsent"
    BY DEF ConsumerInit
  <1>3. BufferTimes /\ Accounted({})
    BY <1>1, <1>2 DEF BufferTimes, Accounted, Waits, Usable
  <1>4. IsFiniteSet({}) /\ Cardinality({}) = 0 /\ consumerFaults = 0
    BY FS_EmptySet DEF ConsumerInit
  <1>5. Cardinality({}) <= 2 * consumerFaults
    BY <1>4
  <1>6. QED
    BY <1>3, <1>4, <1>5 DEF LossInv

LEMMA LossInvStep ==
  ASSUME OneTimeAFrame, ConsumerInv, LossInv, [ConsumerNext]_consumerVars
  PROVE  LossInv'
  <1>1. CASE UNCHANGED consumerVars
    BY <1>1 DEF consumerVars, LossInv, BufferTimes, Accounted, Waits, PartsOf,
                HeldParts, BroadcastParts
  <1>2. CASE \E m \in Messages : Publish(m)
    BY <1>2, PublishLoss
  <1>3. CASE VisibilityTimeout
    BY <1>3, VisibilityTimeoutLoss
  <1>4. ASSUME NEW t \in Tasks, RunStep(t)
        PROVE  LossInv'
    <2>1. CASE Receive(t)
      BY <2>1, ReceiveLoss
    <2>2. CASE ProcessStep(t)
      BY <2>2, SkipMessageLoss, BufferFirstLoss, MergeFragmentLoss, DropStaleLoss,
         FlushAndBufferLoss DEF ProcessStep
    <2>3. CASE DeleteBatch(t)
      BY <2>3, DeleteBatchLoss
    <2>4. CASE Shutdown(t)
      BY <2>4, ShutdownLoss
    <2>5. QED
      BY <1>4, <2>1, <2>2, <2>3, <2>4 DEF RunStep
  <1>5. CASE \E t \in Tasks : StartTask(t) \/ Sigterm(t) \/ TaskDies(t)
    BY <1>5, StartTaskLoss, SigtermLoss, TaskDiesLoss
  <1>6. CASE \E t \in Tasks, m \in Messages : FlushRaises(t, m)
    BY <1>6, FlushRaisesLoss
  <1>7. QED
    BY <1>1, <1>2, <1>3, <1>4, <1>5, <1>6 DEF ConsumerNext

(* The frames lost are among those charged to a failure.                   *)
LEMMA LostAreCharged ==
  ASSUME ConsumerInv, LossInv
  PROVE  LossBounded
  <1>1. PICK E : IsFiniteSet(E) /\ Cardinality(E) <= 2 * consumerFaults /\ Accounted(E)
    BY DEF LossInv
  <1>2. ASSUME NEW m \in Lost
        PROVE  Ts[m] \in E
    <2>1. m \in Usable \ Late /\ m \in Messages /\ Fate[m] = "gone"
      BY DEF Lost, Usable
    <2>2. m \notin HeldParts /\ m \notin BroadcastParts /\ Gone(m)
      BY <2>1, FateOf
    <2>3. ~Waits(m)
      BY <2>2 DEF Gone, Waits
    <2>4. QED
      BY <1>1, <2>1, <2>2, <2>3 DEF Accounted
  <1>3. FramesOf(Lost) \in SUBSET E
    BY <1>2 DEF FramesOf
  <1>4. IsFiniteSet(FramesOf(Lost)) /\ Cardinality(FramesOf(Lost)) <= Cardinality(E)
    BY <1>1, <1>3, FS_Subset
  <1>5. /\ Cardinality(FramesOf(Lost)) \in Nat /\ Cardinality(E) \in Nat
        /\ consumerFaults \in Nat
    BY <1>1, <1>4, FaultsNumber, FS_CardinalityType
  <1>6. QED
    BY <1>1, <1>4, <1>5 DEF LossBounded

(* However long the stream, the batches and the run of failures, and with  *)
(* any number of tasks: each failure - a broadcast that raises, a task     *)
(* that dies, a receipt that times out, a delete that fails - costs two    *)
(* frames at most, where the fragments of a frame have one time.           *)
THEOREM FailuresCostTwoFrames ==
  ASSUME OneTimeAFrame
  PROVE  ConsumerSpec => []LossBounded
  <1>1. ConsumerInit => ConsumerInv /\ LossInv
    BY ConsumerInvInit, LossInvInit
  <1>2. ConsumerInv /\ LossInv /\ [ConsumerNext]_consumerVars => ConsumerInv' /\ LossInv'
    BY ConsumerInvStep, LossInvStep
  <1>3. ConsumerInv /\ LossInv => LossBounded
    BY LostAreCharged
  <1>4. QED
    BY <1>1, <1>2, <1>3, PTL DEF ConsumerSpec
=============================================================================
