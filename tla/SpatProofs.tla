------------------------------ MODULE SpatProofs ------------------------------
(***************************************************************************)
(* Proofs about the consumers of a signal's messages, for every value of   *)
(* their constants: what the critical one holds back is known              *)
(* (CriticalSpat), the other passes two messages a second (SpatRateLimit), *)
(* and the configuration both load is old by no more than its tiers allow  *)
(* (ConfigTiers).                                                          *)
(***************************************************************************)
EXTENDS CriticalSpat, SpatRateLimit, ConfigTiers, FiniteSetTheorems, TLAPS

-----------------------------------------------------------------------------
(* THE CRITICAL CONSUMER.  For any number of containers, any set of phases, *)
(* any hour, threshold and window.                                         *)
(*                                                                         *)
(* While messages are handled one at a time and nothing fails, what Valkey *)
(* remembers is what the vehicles were told, but for the message that is   *)
(* about to be sent.                                                       *)

Sending(i) == invocation[i].pc = "send"

OneAtATime ==
  ~overlapped => \A i, j \in Invocations :
    (invocation[i] # Waiting /\ invocation[j] # Waiting) => i = j

RememberedWasSent ==
  (~overlapped /\ spatFaults = 0) =>
    /\ (\A i \in Invocations : ~Sending(i)) => prev \in {NoEffect, displayed}
    /\ \A i \in Invocations : Sending(i) => prev \in {NoEffect, invocation[i].spat}

SpatInv == SpatTypeOK /\ OneAtATime /\ RememberedWasSent

(* An invocation, as the leaves need it.                                   *)
LEMMA InvocationType ==
  ASSUME SpatTypeOK, NEW i \in Invocations
  PROVE  /\ invocation[i] = Waiting \/ invocation[i].pc \in {"get", "set", "send"}
         /\ invocation[i].pc \in {"get", "set", "send"} =>
              invocation[i] # Waiting /\ invocation[i].spat \in States
         /\ invocation[i].pc = "get" => invocation[i].at \in 0..(Hour - 1)
         /\ Waiting.pc = "idle"
BY DEF SpatTypeOK, Waiting

LEMMA SpatInitially == SpatInit => SpatInv
<1> SUFFICES ASSUME SpatInit PROVE SpatInv
  OBVIOUS
<1>1. 0 \in 0..(Hour - 1) /\ 0 \in 0..SignalChanges /\ 0 \in 0..SpatFaults
  BY SpatConstants
<1>2. SpatTypeOK
  BY <1>1 DEF SpatInit, SpatTypeOK
<1>3. OneAtATime /\ RememberedWasSent
  BY DEF SpatInit, OneAtATime, RememberedWasSent, Sending, Waiting
<1> QED
  BY <1>2, <1>3 DEF SpatInv

LEMMA DeliverKeeps ==
  ASSUME SpatInv, NEW i \in Invocations, Deliver(i)
  PROVE  SpatInv'
<1> DEFINE new == [pc |-> "get", spat |-> signal, at |-> clock]
<1>1. invocation' = [invocation EXCEPT ![i] = new] /\ invocation[i] = Waiting
  BY DEF Deliver, Moves
<1>2. new \in [pc : {"get"}, spat : States, at : 0..(Hour - 1)]
  BY DEF SpatInv, SpatTypeOK
<1>3. SpatTypeOK'
  BY <1>1, <1>2 DEF SpatInv, SpatTypeOK, Deliver
<1>4. \A j \in Invocations : j # i => invocation'[j] = invocation[j]
  BY <1>1 DEF SpatInv, SpatTypeOK
<1>5. invocation'[i].pc = "get" /\ invocation[i].pc = "idle"
  BY <1>1 DEF SpatInv, SpatTypeOK, Waiting
<1>6. OneAtATime'
  BY <1>4 DEF SpatInv, OneAtATime, Deliver
<1>7. RememberedWasSent'
  BY <1>4, <1>5 DEF SpatInv, RememberedWasSent, Sending, Deliver
<1> QED
  BY <1>3, <1>6, <1>7 DEF SpatInv

LEMMA GetKeeps ==
  ASSUME SpatInv, NEW i \in Invocations, GetPrev(i)
  PROVE  SpatInv'
<1>1. invocation[i].pc = "get" /\ invocation[i].spat \in States
  BY InvocationType DEF SpatInv, GetPrev, At
<1>2. PICK new \in {SetPrevNext(i), Waiting} : invocation' = [invocation EXCEPT ![i] = new]
  BY DEF GetPrev, Moves
<1>3. SetPrevNext(i) \in [pc : {"set", "send"}, spat : States]
  BY <1>1 DEF SetPrevNext
<1>4. UNCHANGED <<signal, clock, prev, displayed, signalChanges, overlapped>>
  BY DEF GetPrev
<1>5. spatFaults' \in 0..SpatFaults /\ (spatFaults' = 0 => spatFaults = 0)
  BY SpatConstants DEF SpatInv, SpatTypeOK, GetPrev, SpatFault
<1>6. SpatTypeOK'
  BY <1>2, <1>3, <1>4, <1>5 DEF SpatInv, SpatTypeOK
<1>7. \A j \in Invocations : j # i => invocation'[j] = invocation[j]
  BY <1>2 DEF SpatInv, SpatTypeOK
<1>8. invocation'[i].pc \in {"set", "idle"} /\ invocation[i] # Waiting
  BY <1>1, <1>2 DEF SpatInv, SpatTypeOK, SetPrevNext, Waiting
<1>9. OneAtATime'
  BY <1>4, <1>7, <1>8 DEF SpatInv, OneAtATime
<1>10. RememberedWasSent'
  BY <1>1, <1>4, <1>5, <1>7, <1>8 DEF SpatInv, RememberedWasSent, Sending
<1> QED
  BY <1>6, <1>9, <1>10 DEF SpatInv

LEMMA SetKeeps ==
  ASSUME SpatInv, NEW i \in Invocations, SetPrev(i)
  PROVE  SpatInv'
<1> DEFINE new == [invocation[i] EXCEPT !.pc = "send"]
<1>1. invocation[i].pc = "set" /\ invocation[i] # Waiting
  BY InvocationType DEF SpatInv, SetPrev, At
<1>2. invocation[i] \in [pc : {"set", "send"}, spat : States]
  BY <1>1 DEF SpatInv, SpatTypeOK, Waiting
<1>3. new \in [pc : {"set", "send"}, spat : States] /\ new.pc = "send"
      /\ new.spat = invocation[i].spat
  BY <1>2
<1>4. invocation' = [invocation EXCEPT ![i] = new]
  BY DEF SetPrev, Moves
<1>5. spatFaults' \in 0..SpatFaults
      /\ (spatFaults' = 0 => spatFaults = 0 /\ prev' = invocation[i].spat)
      /\ (prev' = prev \/ prev' = invocation[i].spat)
  BY SpatConstants DEF SpatInv, SpatTypeOK, SetPrev, SpatFault
<1>6. UNCHANGED <<signal, clock, displayed, signalChanges, overlapped>>
  BY DEF SetPrev
<1>7. SpatTypeOK'
  BY <1>2, <1>3, <1>4, <1>5, <1>6 DEF SpatInv, SpatTypeOK
<1>8. \A j \in Invocations : j # i => invocation'[j] = invocation[j]
  BY <1>4 DEF SpatInv, SpatTypeOK
<1>9. invocation'[i] = new
  BY <1>4 DEF SpatInv, SpatTypeOK
<1> HIDE DEF new
<1>10. OneAtATime'
  BY <1>1, <1>6, <1>8 DEF SpatInv, OneAtATime
<1>11. ~overlapped => \A j \in Invocations : j # i => ~Sending(j)
  BY <1>1, InvocationType DEF SpatInv, OneAtATime, Sending
<1>12. RememberedWasSent'
  BY <1>3, <1>5, <1>6, <1>8, <1>9, <1>11 DEF SpatInv, RememberedWasSent, Sending
<1> QED
  BY <1>7, <1>10, <1>12 DEF SpatInv

LEMMA BroadcastKeeps ==
  ASSUME SpatInv, NEW i \in Invocations, Broadcast(i)
  PROVE  SpatInv'
<1>1. invocation[i].pc = "send" /\ invocation[i] # Waiting /\ invocation[i].spat \in States
  BY InvocationType DEF SpatInv, Broadcast, At
<1>2. invocation' = [invocation EXCEPT ![i] = Waiting]
  BY DEF Broadcast, Moves
<1>3. UNCHANGED <<signal, clock, prev, signalChanges, overlapped>>
  BY DEF Broadcast
<1>4. spatFaults' \in 0..SpatFaults
      /\ (spatFaults' = 0 => spatFaults = 0 /\ displayed' = invocation[i].spat)
      /\ (displayed' = displayed \/ displayed' = invocation[i].spat)
  BY SpatConstants DEF SpatInv, SpatTypeOK, Broadcast, SpatFault
<1>5. SpatTypeOK'
  BY <1>1, <1>2, <1>3, <1>4 DEF SpatInv, SpatTypeOK
<1>6. \A j \in Invocations : j # i => invocation'[j] = invocation[j]
  BY <1>2 DEF SpatInv, SpatTypeOK
<1>7. invocation'[i].pc = "idle" /\ invocation'[i] = Waiting
  BY <1>2 DEF SpatInv, SpatTypeOK, Waiting
<1>8. OneAtATime'
  BY <1>3, <1>6, <1>7 DEF SpatInv, OneAtATime
<1>9. ~overlapped => \A j \in Invocations : ~Sending(j)'
  BY <1>1, <1>6, <1>7, InvocationType DEF SpatInv, OneAtATime, Sending
<1>10. RememberedWasSent'
  BY <1>1, <1>3, <1>4, <1>9 DEF SpatInv, RememberedWasSent, Sending
<1> QED
  BY <1>5, <1>8, <1>10 DEF SpatInv

(* The signal, the clock and the expiry of the key.                        *)
LEMMA WorldKeeps ==
  ASSUME SpatInv, ChangeSignal \/ Pass \/ Expire \/ UNCHANGED spatVars
  PROVE  SpatInv'
<1>1. clock' \in 0..(Hour - 1)
  BY SpatConstants DEF SpatInv, SpatTypeOK, ChangeSignal, Pass, Expire, spatVars
<1>2. signalChanges' \in 0..SignalChanges /\ signal' \in States
  BY SpatConstants DEF SpatInv, SpatTypeOK, ChangeSignal, Pass, Expire, spatVars
<1>3. UNCHANGED <<invocation, displayed, spatFaults, overlapped>> /\ prev' \in {prev, NoEffect}
  BY DEF ChangeSignal, Pass, Expire, spatVars
<1>4. SpatTypeOK'
  BY <1>1, <1>2, <1>3 DEF SpatInv, SpatTypeOK
<1>5. OneAtATime' /\ RememberedWasSent'
  BY <1>3 DEF SpatInv, OneAtATime, RememberedWasSent, Sending
<1> QED
  BY <1>4, <1>5 DEF SpatInv

(* A GET that ends the invocation found the last message near enough, and  *)
(* the vehicles have that one.                                             *)
LEMMA HeldBack ==
  ASSUME SpatInv, NEW i \in Invocations, GetPrev(i), invocation'[i] = Waiting,
         ~overlapped, spatFaults = 0
  PROVE  /\ displayed # NoEffect /\ displayed.phase = invocation[i].spat.phase
         /\ EndsSoon(invocation[i].spat, invocation[i].at) => Close(displayed, invocation[i].spat)
<1> DEFINE spat == invocation[i].spat
           at == invocation[i].at
<1>1. invocation[i].pc = "get" /\ spat \in States /\ at \in 0..(Hour - 1)
      /\ invocation[i] # Waiting
  BY InvocationType DEF SpatInv, GetPrev, At
<1>2. invocation'[i] # SetPrevNext(i)
  BY DEF SetPrevNext, Waiting
<1>3. ~Critical(i)
  BY <1>2 DEF GetPrev, Moves, SpatInv, SpatTypeOK
<1>4. prev # NoEffect /\ prev.phase = spat.phase /\ ~TimingShift(prev, spat, at)
  BY <1>3 DEF Critical, Significant
<1>5. \A j \in Invocations : ~Sending(j)
  BY <1>1, InvocationType DEF SpatInv, OneAtATime, Sending
<1>6. displayed = prev /\ prev \in States
  BY <1>4, <1>5 DEF SpatInv, SpatTypeOK, RememberedWasSent
<1>7. spat.end \in Int /\ prev.end \in Int /\ at \in Int
  BY <1>1, <1>6, SpatConstants DEF States
<1>8. Apart(spat.end, prev.end) = Apart(prev.end, spat.end)
  BY <1>7 DEF Apart
<1>9. EndsSoon(spat, at) => Apart(prev.end, spat.end) <= Threshold
  BY <1>4, <1>7, <1>8, SpatConstants DEF EndsSoon, TimingShift, Remaining, Apart
<1> QED
  BY <1>4, <1>6, <1>9 DEF Close

(* Messages are held back only from vehicles that know as much, to within  *)
(* the threshold: shifts below it do not add up, since each is compared    *)
(* with what was broadcast (critical-spat-sns-consumer, _has_significant_change). *)
THEOREM HeldBackOnlyIfKnown == SpatSpec => HeldBackIsKnown
<1>1. SpatInv /\ [SpatNext]_spatVars => SpatInv'
  BY DeliverKeeps, GetKeeps, SetKeeps, BroadcastKeeps, WorldKeeps DEF SpatNext, Handle
<1>2. SpatInv =>
        [\A i \in Invocations :
           (GetPrev(i) /\ invocation'[i] = Waiting /\ ~overlapped /\ spatFaults = 0) =>
             LET spat == invocation[i].spat
             IN /\ displayed # NoEffect /\ displayed.phase = spat.phase
                /\ EndsSoon(spat, invocation[i].at) => Close(displayed, spat)]_spatVars
  BY HeldBack
<1> QED
  BY <1>1, <1>2, SpatInitially, PTL DEF SpatSpec, HeldBackIsKnown
-----------------------------------------------------------------------------
(* THE RATE LIMIT.  For any interval, any lateness the key outlives and any *)
(* number of faults.                                                       *)
(*                                                                         *)
(* The key is compared with, and runs out; what makes both safe is that    *)
(* everything that passed is as old as the key or older (PassedBefore), and *)
(* that a key which has run out was longer ago than a message can be late  *)
(* and the interval together (RateConstants).                              *)

Known == last # NoTime

(* The age of the key, of the time in it, and of the last broadcast.       *)
KeyAge == TsTtl - ttl

PassedBefore ==
  (rateFaults = 0 /\ jumps = 0) =>
    \A p \in passed : IF Known THEN p <= last /\ (p <= -KeyAge \/ p <= Oldest) ELSE p <= Oldest

(* Silence is not older than the key, nor than the time in it, unless that *)
(* is so old that every message passes.                                    *)
SilenceKnown ==
  Known => /\ silence <= KeyAge
           /\ jumps = 0 => last <= 0 /\ (silence <= -last \/ last = Oldest)

RateInv == RateSafety /\ PassedBefore /\ SilenceKnown

(* The constants, as the leaves need them.                                 *)
LEMMA RateNumbers ==
  /\ MinInterval \in Nat /\ TsTtl \in Nat /\ Lateness \in Nat /\ ClockJump \in Nat
  /\ Jumps \in Nat /\ RateFaults \in Nat
  /\ MinInterval > 0 /\ Lateness + MinInterval <= TsTtl
BY RateConstants

(* The script, by itself.                                                  *)
LEMMA ShouldPassType ==
  ASSUME RateTypeOK, NEW ts \in -Lateness..ClockJump, ShouldPass(ts)
  PROVE  /\ last' \in NoTime..ClockJump /\ ttl' \in 0..TsTtl
         /\ last' = NoTime <=> ttl' = 0
         /\ passed' \subseteq Oldest..ClockJump /\ silence' \in 0..MaxWait
<1> USE RateNumbers DEF Oldest, NoTime, MaxWait
<1>1. CASE last = NoTime \/ ts - last >= MinInterval
  <2>1. last' = ts /\ ttl' = TsTtl /\ passed' = passed \cup {ts} /\ silence' = 0
    BY <1>1 DEF ShouldPass
  <2> QED
    BY <2>1 DEF RateTypeOK
<1>2. CASE ~(last = NoTime \/ ts - last >= MinInterval)
  BY <1>2 DEF ShouldPass, RateTypeOK
<1> QED
  BY <1>1, <1>2

LEMMA RateInitially == RateInit => RateInv
<1> SUFFICES ASSUME RateInit PROVE RateInv
  OBVIOUS
<1> USE RateNumbers DEF RateInit, Oldest, NoTime, MaxWait
<1>1. RateTypeOK
  <2>1. heard \in BOOLEAN
    OBVIOUS
  <2> QED
    BY <2>1 DEF RateTypeOK
<1>2. TwoHertz /\ SilenceEnds /\ PassedBefore /\ SilenceKnown
  BY DEF TwoHertz, SilenceEnds, PassedBefore, SilenceKnown, Known
<1> QED
  BY <1>1, <1>2 DEF RateInv, RateSafety

(* A message of now or a late one, compared by the script.                 *)
LEMMA DeliverSpatKeeps ==
  ASSUME RateInv, NEW ts \in -Lateness..0, DeliverSpat(ts)
  PROVE  RateInv'
<1> USE RateNumbers DEF RateInv, RateSafety, Oldest, NoTime
<1>1. RateTypeOK'
  <2>1. heard' \in BOOLEAN
    BY DEF DeliverSpat
  <2>2. ShouldPass(ts) /\ UNCHANGED <<jumps, rateFaults>> /\ ts \in -Lateness..ClockJump
    BY DEF DeliverSpat
  <2> QED
    BY <2>1, <2>2, ShouldPassType DEF RateTypeOK
<1>2. TwoHertz' /\ PassedBefore'
  <2>1. UNCHANGED <<jumps, rateFaults>>
    BY DEF DeliverSpat
  <2>2. CASE last = NoTime \/ ts - last >= MinInterval
    <3>1. last' = ts /\ ttl' = TsTtl /\ passed' = passed \cup {ts}
      BY <2>2 DEF DeliverSpat, ShouldPass
    <3>2. SUFFICES ASSUME rateFaults = 0, jumps = 0
                   PROVE  TwoHertz' /\ PassedBefore'
      BY <2>1 DEF TwoHertz, PassedBefore
    <3>3. \A p \in passed : p \in Int /\ ts - p >= MinInterval
      BY <2>2, <3>2 DEF RateTypeOK, PassedBefore, Known
    <3>4. TwoHertz'
      BY <3>1, <3>3, <3>2 DEF TwoHertz, RateTypeOK
    <3>5. PassedBefore'
      BY <3>1, <3>3, <2>1, <3>2 DEF PassedBefore, Known, KeyAge, RateTypeOK
    <3> QED
      BY <3>4, <3>5
  <2>3. CASE ~(last = NoTime \/ ts - last >= MinInterval)
    <3>1. UNCHANGED <<last, ttl, passed>>
      BY <2>3 DEF DeliverSpat, ShouldPass
    <3> QED
      BY <2>1, <3>1 DEF TwoHertz, PassedBefore, Known, KeyAge
  <2> QED
    BY <2>2, <2>3
<1>3. SilenceEnds' /\ SilenceKnown'
  BY DEF DeliverSpat, ShouldPass, RateTypeOK, MaxWait, SilenceEnds, SilenceKnown, Known, KeyAge
<1> QED
  BY <1>1, <1>2, <1>3

(* A message ahead of its time ends what is said of the order.             *)
LEMMA JumpKeeps ==
  ASSUME RateInv, DeliverJump
  PROVE  RateInv'
<1> USE RateNumbers DEF RateInv, RateSafety, Oldest, NoTime
<1>1. RateTypeOK'
  <2>1. ShouldPass(ClockJump) /\ jumps' \in 0..Jumps /\ UNCHANGED <<heard, rateFaults>>
    BY DEF DeliverJump, RateTypeOK
  <2>2. ClockJump \in -Lateness..ClockJump
    OBVIOUS
  <2> QED
    BY <2>1, <2>2, ShouldPassType DEF RateTypeOK
<1>2. jumps' # 0
  BY DEF DeliverJump, RateTypeOK
<1>3. SilenceEnds' /\ SilenceKnown'
  BY <1>2 DEF DeliverJump, ShouldPass, RateTypeOK, MaxWait, SilenceEnds, SilenceKnown, Known, KeyAge
<1> QED
  BY <1>1, <1>2, <1>3 DEF TwoHertz, PassedBefore

LEMMA FailKeeps ==
  ASSUME RateInv, NEW ts \in -Lateness..0, RateCheckFails(ts)
  PROVE  RateInv'
<1> USE RateNumbers DEF RateInv, RateSafety, Oldest, NoTime
<1>1. RateTypeOK'
  BY DEF RateCheckFails, RateTypeOK, MaxWait
<1>2. rateFaults' # 0
  BY DEF RateCheckFails, RateTypeOK
<1>3. SilenceEnds' /\ SilenceKnown'
  BY DEF RateCheckFails, RateTypeOK, MaxWait, SilenceEnds, SilenceKnown, Known, KeyAge
<1> QED
  BY <1>1, <1>2, <1>3 DEF TwoHertz, PassedBefore

(* Time passes: all that is remembered grows older together.               *)
LEMMA RateTickKeeps ==
  ASSUME RateInv, RateTick
  PROVE  RateInv'
<1> USE RateNumbers DEF RateInv, RateSafety, Oldest, NoTime
<1>1. RateTypeOK'
  <2>1. heard' \in BOOLEAN
    BY DEF RateTick
  <2>2. passed' \subseteq Oldest..ClockJump
    BY DEF RateTick
  <2>3. /\ last' \in NoTime..ClockJump /\ ttl' \in 0..TsTtl /\ (last' = NoTime <=> ttl' = 0)
        /\ silence' \in 0..MaxWait
    BY DEF RateTick, RateTypeOK, MaxWait
  <2> QED
    BY <2>1, <2>2, <2>3 DEF RateTick, RateTypeOK
<1>2. TwoHertz'
  BY DEF RateTick, RateTypeOK, TwoHertz
<1>3. PassedBefore'
  BY DEF RateTick, RateTypeOK, PassedBefore, Known, KeyAge
<1>4. SilenceEnds' /\ SilenceKnown'
  BY DEF RateTick, RateTypeOK, MaxWait, SilenceEnds, SilenceKnown, Known, KeyAge
<1> QED
  BY <1>1, <1>2, <1>3, <1>4

(* However late, doubled, ahead or unchecked messages come: two a second   *)
(* while the script answers and clocks are right, and never silent for     *)
(* longer than the key lives (spat-sns-consumer/handler.py 3-5).           *)
THEOREM TwoASecond == RateSpec => []RateSafety
<1>1. RateInv /\ [RateNext]_rateVars => RateInv'
  <2> SUFFICES ASSUME RateInv, [RateNext]_rateVars PROVE RateInv'
    OBVIOUS
  <2>1. CASE UNCHANGED rateVars
    BY <2>1
    DEF rateVars, RateInv, RateSafety, RateTypeOK, TwoHertz, SilenceEnds, PassedBefore,
        SilenceKnown, Known, KeyAge
  <2> QED
    BY <2>1, DeliverSpatKeeps, JumpKeeps, FailKeeps, RateTickKeeps DEF RateNext
<1>2. RateInv => RateSafety
  BY DEF RateInv
<1> QED
  BY <1>1, <1>2, RateInitially, PTL DEF RateSpec

-----------------------------------------------------------------------------
(* THE CONFIGURATION THEY LOAD.  How old what is served can be, for any    *)
(* number of containers, names, edits and failures and any times the tiers *)
(* are set to.                                                             *)
(*                                                                         *)
(* Each place a value can be in bounds how long ago it was replaced: a     *)
(* load by the time it has taken, Valkey by that and the life the value    *)
(* has used up there, memory by both and the life used up in memory.  The  *)
(* bounds grow with time as the values do, and a copy starts within the    *)
(* bound of the place it goes to.                                          *)

Steps == {"idle", "apps", "claimApps", "centers", "claimCenters", "query",
          "writeApps", "writeCenters", "release", "serve"}

Load == [pc : Steps, took : 0..LoadTime, names : SUBSET Names, apps : NoValue..Edits,
         queryApps : BOOLEAN, todo : SUBSET Names, row : NoValue..Edits,
         won : [Caches -> 0..LockTtl], why : SUBSET (Caches \cup {"absent"})]

(* How long ago a value that has just come to memory was replaced, and one *)
(* at the end of its life there.                                           *)
Taken == LoadTime + HardTtl
Kept  == Taken + MaxDelay + MaxStale

TypesOK ==
  /\ edition \in 0..Edits /\ since \in [0..Edits -> 0..SinceCap]
  /\ memory \in [Containers -> [Keys -> Entry]] /\ shared \in [Keys -> Entry]
  /\ claim \in [Caches -> 0..LockTtl] /\ load \in [Containers -> Load]
  /\ tierFaults \in 0..TierFaults

(* An edition that has not been replaced.                                  *)
CurrentIsNew == \A e \in edition..Edits : since[e] = 0

MemoryAge == \A c \in Containers, k \in Keys :
               Lag(memory[c][k].value) <= Kept - memory[c][k].left
SharedAge == \A k \in Keys : Lag(shared[k].value) <= Taken - shared[k].left

LoadAge(l) ==
  /\ Lag(l.row) <= l.took /\ Lag(l.apps) <= Kept + l.took
  /\ l.pc = "idle" => l = Idle

LoadsAge == \A c \in Containers : LoadAge(load[c])

(* A centre found fresh will last until the load ends.                     *)
Lasts(c, n) == memory[c][n].left > MaxStale - load[c].took

AtHand(c) ==
  /\ load[c].pc \in {"centers", "query", "writeApps", "writeCenters"} =>
       \A n \in load[c].names \ load[c].todo : Lasts(c, n)
  /\ load[c].pc \in {"claimCenters", "serve"} => \A n \in load[c].names : Lasts(c, n)
  /\ load[c].pc # "release"

AllAtHand == tierFaults = 0 => \A c \in Containers : AtHand(c)

(* Whoever has won the claim to a cache holds it, and alone.               *)
WonIsHeld ==
  tierFaults = 0 => \A n \in Caches :
    /\ \A c \in Containers : load[c].won[n] <= claim[n]
    /\ \A c, d \in Containers : (load[c].won[n] > 0 /\ load[d].won[n] > 0) => c = d

(* A load that is to ask Aurora knows why, from where it decides to.       *)
Decided(l) ==
  /\ l.pc = "query" => l.why # {}
  /\ (l.pc \in {"centers", "claimCenters"} /\ l.queryApps) => l.why # {}
  /\ l.pc \in {"apps", "claimApps"} => l.todo = {}

LoadsDecided == \A c \in Containers : Decided(load[c])

TiersInv ==
  /\ TypesOK /\ CurrentIsNew /\ MemoryAge /\ SharedAge /\ LoadsAge /\ AllAtHand
  /\ WonIsHeld /\ LoadsDecided

-----------------------------------------------------------------------------
LEMMA TierNumbers ==
  /\ MaxStale \in Nat \ {0} /\ SharedTtl \in Nat \ {0} /\ HardTtl \in Nat \ {0}
  /\ LockTtl \in Nat \ {0} /\ LoadTime \in Nat \ {0} /\ LoadTime <= MaxStale
  /\ Edits \in Nat /\ TierFaults \in Nat
BY TierConstants

LEMMA LongestDelay ==
  /\ MaxDelay \in Nat \ {0} /\ MaxDelay \in RefreshDelays
  /\ \A d \in RefreshDelays : d \in Nat \ {0} /\ d <= MaxDelay
BY TierConstants DEF MaxDelay

LEMMA Bounds ==
  /\ Taken \in Nat /\ Kept \in Nat /\ ServedBound \in Nat /\ SinceCap \in Nat
  /\ Kept = Taken + MaxDelay + MaxStale /\ ServedBound = Kept + LoadTime /\ Taken <= Kept
BY TierNumbers, LongestDelay DEF Taken, Kept, ServedBound, SinceCap

(* A lag is a time, and none for an absent value.                          *)
LEMMA LagType ==
  ASSUME TypesOK
  PROVE  /\ \A v \in NoValue..Edits : Lag(v) \in Nat
         /\ Lag(NoValue) = 0 /\ \A v \in 0..Edits : Lag(v) = since[v]
<1>1. Lag(NoValue) = 0
  BY DEF Lag
<1>2. \A v \in 0..Edits : Lag(v) = since[v] /\ since[v] \in Nat
  BY Bounds DEF Lag, NoValue, TypesOK
<1>3. \A v \in NoValue..Edits : v = NoValue \/ v \in 0..Edits
  BY TierNumbers DEF NoValue
<1> QED
  BY <1>1, <1>2, <1>3

LEMMA KeyNames ==
  /\ "apps" \in Keys /\ Names \subseteq Keys /\ Caches = {"app_ids", "map_centers"}
BY DEF Keys, Caches

LEMMA IdleType == Idle \in Load /\ Gone \in Entry /\ Cold \in [Keys -> Entry]
<1>1. 0 \in 0..LoadTime /\ 0 \in 0..LockTtl /\ NoValue \in NoValue..Edits
      /\ 0 \in 0..(HardTtl + MaxDelay + MaxStale)
  BY TierNumbers, LongestDelay DEF NoValue
<1>2. Gone \in Entry
  BY <1>1 DEF Gone, Entry
<1> QED
  BY <1>1, <1>2 DEF Idle, NoneWon, Load, Steps, Cold

-----------------------------------------------------------------------------
(* The invariant is strong enough, and holds at first                      *)

LEMMA InvIsSafe == TiersInv => TiersSafety
<1> SUFFICES ASSUME TiersInv PROVE TiersSafety
  OBVIOUS
<1> USE DEF TiersInv
<1>1. TiersTypeOK
  BY DEF TypesOK, TiersTypeOK, Load, Steps
<1>2. ServedBounded
  <2> SUFFICES ASSUME NEW c \in Containers, NEW v \in ServedValues(c)
               PROVE  Lag(v) <= ServedBound
    BY DEF ServedBounded
  <2>1. load[c] \in Load /\ load[c].took \in 0..LoadTime
    BY DEF TypesOK, Load
  <2>2. CASE v = load[c].apps
    <3>1. Lag(v) <= Kept + load[c].took /\ Lag(v) \in Nat
      BY <2>1, <2>2, LagType DEF LoadsAge, LoadAge, Load
    <3> QED
      BY <2>1, <3>1, Bounds, TierNumbers
  <2>3. ASSUME NEW n \in Names, v = memory[c][n].value PROVE Lag(v) <= ServedBound
    <3>1. memory[c][n] \in Entry /\ n \in Keys
      BY KeyNames DEF TypesOK
    <3>2. Lag(v) <= Kept - memory[c][n].left /\ Lag(v) \in Nat /\ memory[c][n].left \in Nat
      BY <2>3, <3>1, LagType, TierNumbers, LongestDelay DEF MemoryAge, Entry
    <3> QED
      BY <3>2, Bounds, TierNumbers
  <2> QED
    BY <2>1, <2>2, <2>3 DEF ServedValues, Load
<1>3. CentersAtHand
  <2> SUFFICES ASSUME NEW c \in Containers, load[c].pc = "serve", tierFaults = 0,
                      NEW n \in load[c].names
               PROVE  Usable(c, n)
    BY DEF CentersAtHand
  <2>1. load[c].took \in 0..LoadTime /\ memory[c][n].left \in Nat
    <3>1. load[c] \in Load /\ n \in Names
      BY DEF TypesOK, Load
    <3>2. memory[c][n] \in Entry
      BY <3>1, KeyNames DEF TypesOK
    <3> QED
      BY <3>1, <3>2, TierNumbers, LongestDelay DEF Load, Entry
  <2>2. Lasts(c, n)
    BY DEF AllAtHand, AtHand
  <2> QED
    BY <2>1, <2>2, TierNumbers DEF Lasts, Usable
<1>4. ReloadsAreClaimed
  <2>1. \A c \in Containers : load[c].pc = "query" => load[c].why # {}
    BY DEF LoadsDecided, Decided
  <2> SUFFICES ASSUME tierFaults = 0, NEW n \in Caches
               PROVE  Cardinality({c \in Containers : load[c].won[n] > 0}) <= 1
    BY <2>1 DEF ReloadsAreClaimed
  <2> DEFINE winners == {c \in Containers : load[c].won[n] > 0}
  <2>2. CASE winners = {}
    <3>1. Cardinality(winners) = 0
      BY <2>2, FS_EmptySet, Zenon
    <3> QED
      BY <3>1
  <2>3. ASSUME NEW c \in winners PROVE Cardinality(winners) <= 1
    <3>1. winners = {c}
      BY <2>3 DEF WonIsHeld
    <3>2. Cardinality({c}) = 1
      BY FS_Singleton
    <3> QED
      BY <3>1, <3>2
  <2> QED
    BY <2>2, <2>3
<1> QED
  BY <1>1, <1>2, <1>3, <1>4 DEF TiersSafety

LEMMA TiersInitially == TiersInit => TiersInv
<1> SUFFICES ASSUME TiersInit PROVE TiersInv
  OBVIOUS
<1>1. TypesOK
  <2>1. 0 \in 0..Edits /\ 0 \in 0..SinceCap /\ 0 \in 0..LockTtl /\ 0 \in 0..TierFaults
    BY TierNumbers, Bounds
  <2> QED
    BY <2>1, IdleType DEF TiersInit, TypesOK
<1>2. CurrentIsNew
  BY TierNumbers DEF TiersInit, CurrentIsNew
<1>3. Lag(NoValue) = 0
  BY <1>1, LagType
<1>4. MemoryAge /\ SharedAge
  BY <1>3, Bounds DEF TiersInit, MemoryAge, SharedAge, Cold, Gone
<1>5. LoadsAge
  BY <1>3, Bounds DEF TiersInit, LoadsAge, LoadAge, Idle
<1>6. AllAtHand
  BY DEF TiersInit, AllAtHand, AtHand, Idle
<1>7. WonIsHeld
  BY DEF TiersInit, WonIsHeld, Idle, NoneWon
<1>8. LoadsDecided
  BY DEF TiersInit, LoadsDecided, Decided, Idle
<1> QED
  BY <1>1, <1>2, <1>4, <1>5, <1>6, <1>7, <1>8 DEF TiersInv

-----------------------------------------------------------------------------
(* What the helpers of _load_config return                                 *)

(* The part of a load that says where it goes from the Valkey reads.       *)
SameLoad(l, m) ==
  /\ m.took = l.took /\ m.names = l.names /\ m.apps = l.apps /\ m.row = l.row
  /\ m.won = l.won /\ m.queryApps = l.queryApps

(* What a load needs to know before it may go on to Aurora.                *)
Reasoned(l) == (l.queryApps \/ l.todo # {}) => l.why # {}

LEMMA OnwardIs ==
  ASSUME NEW l \in Load
  PROVE  /\ Onward(l) \in Load /\ SameLoad(l, Onward(l)) /\ Onward(l).todo = l.todo
         /\ Onward(l).pc \in {"query", "serve"} /\ (Onward(l).pc = "serve" => l.todo = {})
         /\ Reasoned(l) => Decided(Onward(l))
BY DEF Onward, Load, Steps, SameLoad, Reasoned, Decided

(* A claim that is granted changes nothing else about a load.              *)
LEMMA GrantedIs ==
  ASSUME NEW l \in Load, NEW n \in Caches
  PROVE  LET g == Granted(l, n) IN
         /\ g \in Load /\ g.pc = l.pc /\ g.took = l.took /\ g.names = l.names
         /\ g.apps = l.apps /\ g.row = l.row /\ g.todo = l.todo /\ g.why # {}
         /\ g.won[n] = LockTtl /\ \A k \in Caches : k # n => g.won[k] = l.won[k]
<1> DEFINE w == [l.won EXCEPT ![n] = LockTtl]
           y == l.why \cup {n}
<1>1. LockTtl \in 0..LockTtl /\ l.won \in [Caches -> 0..LockTtl]
  BY TierNumbers DEF Load
<1>2. w \in [Caches -> 0..LockTtl] /\ w[n] = LockTtl /\ \A k \in Caches : k # n => w[k] = l.won[k]
  BY <1>1
<1>3. y \in SUBSET (Caches \cup {"absent"}) /\ y # {}
  BY DEF Load
<1>4. Granted(l, n) = [l EXCEPT !.won = w, !.why = y]
  BY DEF Granted, Load
<1> HIDE DEF w, y
<1> QED
  BY <1>2, <1>3, <1>4 DEF Load

LEMMA ToCentersIs ==
  ASSUME NEW c, NEW l \in Load
  PROVE  /\ ToCenters(c, l) \in Load /\ SameLoad(l, ToCenters(c, l))
         /\ ToCenters(c, l).pc \in {"query", "serve", "centers"}
         /\ \A n \in l.names : Fresh(c, n) \/ n \in ToCenters(c, l).todo
         /\ ToCenters(c, l).pc = "serve" => \A n \in l.names : Fresh(c, n)
         /\ Reasoned(l) /\ l.todo = {} => Decided(ToCenters(c, l))
<1> DEFINE missing == {n \in l.names : ~Fresh(c, n)}
<1>1. missing \subseteq Names
  BY DEF Load
<1>2. CASE missing = {}
  <2>1. ToCenters(c, l) = Onward(l)
    BY <1>2 DEF ToCenters
  <2>2. \A n \in l.names : Fresh(c, n)
    BY <1>2
  <2> QED
    BY <2>1, <2>2, OnwardIs
<1>3. CASE missing # {}
  <2>1. ToCenters(c, l) = [l EXCEPT !.pc = "centers", !.todo = missing]
    BY <1>3 DEF ToCenters
  <2>2. \A n \in l.names : Fresh(c, n) \/ n \in missing
    OBVIOUS
  <2> HIDE DEF missing
  <2> QED
    BY <1>1, <2>1, <2>2 DEF Load, Steps, SameLoad, Reasoned, Decided
<1> QED
  BY <1>2, <1>3

(* Values put to memory are fresh there, and what was there stays.         *)
LEMMA PutIs ==
  ASSUME TypesOK, NEW c \in Containers, NEW vals, Put(c, vals),
         \A k \in DOMAIN vals : vals[k] \in NoValue..Edits /\ Lag(vals[k]) <= Taken,
         MemoryAge, UNCHANGED since
  PROVE  /\ memory' \in [Containers -> [Keys -> Entry]] /\ MemoryAge'
         /\ \A d \in Containers : d # c => memory'[d] = memory[d]
         /\ \A k \in Keys : IF k \in DOMAIN vals THEN memory'[c][k].left > MaxStale
                           ELSE memory'[c][k] = memory[c][k]
<1>1. PICK delay \in [DOMAIN vals -> RefreshDelays] :
        memory' = [memory EXCEPT ![c] = [k \in Keys |->
          IF k \in DOMAIN vals THEN [value |-> vals[k], left |-> delay[k] + MaxStale] ELSE @[k]]]
  BY DEF Put
<1>2. ASSUME NEW k \in Keys, k \in DOMAIN vals
      PROVE  /\ memory'[c][k].value = vals[k] /\ memory'[c][k].left = delay[k] + MaxStale
             /\ memory'[c][k] \in Entry /\ memory'[c][k].left > MaxStale
             /\ Lag(vals[k]) <= Kept - memory'[c][k].left
  <2>1. delay[k] \in Nat \ {0} /\ delay[k] <= MaxDelay
    BY <1>1, <1>2, LongestDelay
  <2>2. memory'[c][k] = [value |-> vals[k], left |-> delay[k] + MaxStale]
    BY <1>1, <1>2 DEF TypesOK
  <2>3. delay[k] + MaxStale \in 0..(HardTtl + MaxDelay + MaxStale) /\ delay[k] + MaxStale > MaxStale
    BY <2>1, TierNumbers, LongestDelay
  <2>4. vals[k] \in NoValue..Edits /\ Lag(vals[k]) <= Taken /\ Lag(vals[k]) \in Nat
    BY <1>2, LagType
  <2>5. Lag(vals[k]) <= Kept - (delay[k] + MaxStale)
    BY <2>1, <2>4, Bounds, TierNumbers, LongestDelay
  <2> QED
    BY <2>2, <2>3, <2>4, <2>5 DEF Entry
<1>3. \A k \in Keys : k \notin DOMAIN vals => memory'[c][k] = memory[c][k]
  BY <1>1 DEF TypesOK
<1>4. \A d \in Containers : d # c => memory'[d] = memory[d]
  BY <1>1 DEF TypesOK
<1>5. memory' \in [Containers -> [Keys -> Entry]]
  <2>1. \A k \in Keys : memory'[c][k] \in Entry
    BY <1>2, <1>3 DEF TypesOK
  <2>2. memory'[c] = [k \in Keys |-> memory'[c][k]] /\ memory' = [memory EXCEPT ![c] = memory'[c]]
    BY <1>1 DEF TypesOK
  <2>3. memory'[c] \in [Keys -> Entry]
    BY <2>1, <2>2
  <2> QED
    BY <2>2, <2>3 DEF TypesOK
<1>6. \A v : Lag(v)' = Lag(v)
  BY DEF Lag
<1>7. MemoryAge'
  BY <1>2, <1>3, <1>4, <1>6 DEF MemoryAge
<1> QED
  BY <1>2, <1>3, <1>4, <1>5, <1>7

(* A step of the load of one container, of which it is known what it did   *)
(* to the two tiers, keeps the invariant.                                  *)
LEMMA LoadStepKeeps ==
  ASSUME TiersInv, NEW c \in Containers, NEW l \in Load, Set(c, l), UNCHANGED <<edition, since>>,
         LoadAge(l), memory' \in [Containers -> [Keys -> Entry]], MemoryAge',
         \A d \in Containers : d # c => memory'[d] = memory[d],
         shared' \in [Keys -> Entry], SharedAge', claim' \in [Caches -> 0..LockTtl],
         tierFaults' \in 0..TierFaults, tierFaults' = 0 => tierFaults = 0,
         tierFaults' = 0 => AtHand(c)',
         tierFaults' = 0 => \A n \in Caches :
           \/ l.won[n] \in {0, load[c].won[n]} /\ claim'[n] = claim[n]
           \/ claim[n] = 0 /\ claim'[n] = l.won[n],
         Decided(l)
  PROVE  TiersInv'
<1> USE DEF TiersInv
<1>1. /\ load' \in [Containers -> Load] /\ load'[c] = l
      /\ \A d \in Containers : d # c => load'[d] = load[d]
  BY DEF TypesOK, Set
<1>2. TypesOK'
  BY <1>1 DEF TypesOK
<1>3. CurrentIsNew'
  BY DEF CurrentIsNew
<1>4. \A v : Lag(v)' = Lag(v)
  BY DEF Lag
<1>5. LoadsAge'
  BY <1>1, <1>4 DEF LoadsAge, LoadAge
<1>6. AllAtHand'
  <2>1. \A d \in Containers : (d # c /\ AtHand(d)) => AtHand(d)'
    BY <1>1 DEF AtHand, Lasts
  <2> QED
    BY <2>1 DEF AllAtHand
<1>7. WonIsHeld'
  <2> SUFFICES ASSUME tierFaults' = 0, NEW n \in Caches
               PROVE  /\ \A d \in Containers : load'[d].won[n] <= claim'[n]
                      /\ \A d, e \in Containers :
                           (load'[d].won[n] > 0 /\ load'[e].won[n] > 0) => d = e
    BY DEF WonIsHeld
  <2>1. /\ \A d \in Containers : load[d].won[n] <= claim[n] /\ load[d].won[n] \in Nat
        /\ \A d, e \in Containers : (load[d].won[n] > 0 /\ load[e].won[n] > 0) => d = e
        /\ claim[n] \in Nat /\ l.won[n] \in Nat
    BY TierNumbers DEF WonIsHeld, TypesOK, Load
  <2>2. CASE l.won[n] \in {0, load[c].won[n]} /\ claim'[n] = claim[n]
    <3>1. \A d \in Containers : load'[d].won[n] \in {0, load[d].won[n]}
      BY <1>1, <2>2
    <3>2. \A d \in Containers : load'[d].won[n] > 0 => load[d].won[n] > 0
      BY <2>1, <3>1
    <3>3. \A d \in Containers : load'[d].won[n] <= claim'[n]
      BY <2>1, <2>2, <3>1
    <3> QED
      BY <2>1, <3>2, <3>3
  <2>3. CASE claim[n] = 0 /\ claim'[n] = l.won[n]
    BY <1>1, <2>1, <2>3
  <2> QED
    BY <2>2, <2>3
<1>8. LoadsDecided'
  BY <1>1 DEF LoadsDecided, Decided
<1> QED
  BY <1>2, <1>3, <1>5, <1>6, <1>7, <1>8

-----------------------------------------------------------------------------
(* The steps of a load                                                     *)

(* Tiers that are left alone are as old as they were.                      *)
LEMMA TiersLeftAlone ==
  ASSUME TiersInv, UNCHANGED since
  PROVE  /\ UNCHANGED memory => MemoryAge' /\ memory' \in [Containers -> [Keys -> Entry]]
         /\ UNCHANGED shared => SharedAge' /\ shared' \in [Keys -> Entry]
         /\ UNCHANGED claim => claim' \in [Caches -> 0..LockTtl]
         /\ TierFault => tierFaults' \in 0..TierFaults /\ tierFaults' # 0
         /\ UNCHANGED tierFaults => tierFaults' \in 0..TierFaults
<1>1. \A v : Lag(v)' = Lag(v)
  BY DEF Lag
<1>2. TierFault => tierFaults' \in 0..TierFaults /\ tierFaults' # 0
  BY TierNumbers DEF TiersInv, TypesOK, TierFault
<1> QED
  BY <1>1, <1>2 DEF TiersInv, TypesOK, MemoryAge, SharedAge

(* A load goes on from one that was as young, with the same values.        *)
LEMMA SameAge ==
  ASSUME NEW l, NEW m, LoadAge(l), SameLoad(l, m), m.pc # "idle"
  PROVE  LoadAge(m)
BY DEF LoadAge, SameLoad

LEMMA LoadOf ==
  ASSUME TiersInv, NEW c \in Containers
  PROVE  /\ load[c] \in Load /\ LoadAge(load[c]) /\ load[c].took \in Nat
         /\ load[c].took <= LoadTime /\ (tierFaults = 0 => AtHand(c)) /\ Decided(load[c])
         /\ \A l : Set(c, l) => load'[c] = l
BY TierNumbers DEF TiersInv, TypesOK, LoadsAge, AllAtHand, LoadsDecided, Load, Set

(* The memory tier, as the leaves need it.                                 *)
LEMMA MemoryOf ==
  ASSUME TiersInv, NEW c \in Containers, NEW k \in Keys
  PROVE  /\ memory[c][k].value \in NoValue..Edits /\ memory[c][k].left \in Nat
         /\ Lag(memory[c][k].value) \in Nat
         /\ Lag(memory[c][k].value) <= Kept - memory[c][k].left
         /\ shared[k].value \in NoValue..Edits /\ shared[k].left \in Nat
         /\ Lag(shared[k].value) \in Nat /\ Lag(shared[k].value) <= Taken
<1>1. memory[c][k] \in Entry /\ shared[k] \in Entry
  BY DEF TiersInv, TypesOK
<1>2. /\ memory[c][k].value \in NoValue..Edits /\ memory[c][k].left \in Nat
      /\ shared[k].value \in NoValue..Edits /\ shared[k].left \in Nat
  BY <1>1, TierNumbers, LongestDelay DEF Entry
<1>3. Lag(memory[c][k].value) \in Nat /\ Lag(shared[k].value) \in Nat
  BY <1>2, LagType DEF TiersInv
<1>4. Lag(shared[k].value) <= Taken - shared[k].left
  BY DEF TiersInv, SharedAge
<1>5. Lag(shared[k].value) <= Taken
  BY <1>2, <1>3, <1>4, Bounds
<1> QED
  BY <1>2, <1>3, <1>5 DEF TiersInv, MemoryAge

LEMMA BeginKeeps ==
  ASSUME TiersInv, NEW c \in Containers, Begin(c)
  PROVE  TiersInv'
<1>1. PICK names \in SUBSET Names \ {{}} :
        LET start == [Idle EXCEPT !.names = names]
        IN Set(c, IF Fresh(c, "apps")
                  THEN ToCenters(c, [start EXCEPT !.apps = memory[c]["apps"].value])
                  ELSE [start EXCEPT !.pc = "apps", !.queryApps = TRUE])
  BY DEF Begin
<1>2. UNCHANGED <<edition, since, memory, shared, claim, tierFaults>>
  BY DEF Begin
<1> DEFINE start == [Idle EXCEPT !.names = names]
           l     == [start EXCEPT !.apps = memory[c]["apps"].value]
           m     == [start EXCEPT !.pc = "apps", !.queryApps = TRUE]
<1>3. Lag(NoValue) = 0 /\ 0 <= Kept
  BY LagType, Bounds DEF TiersInv
<1>4. CASE Fresh(c, "apps")
  <2>1. /\ memory[c]["apps"].value \in NoValue..Edits
        /\ Lag(memory[c]["apps"].value) <= Kept
    BY MemoryOf, KeyNames, Bounds
  <2>2. /\ l \in Load /\ l.todo = {} /\ l.took = 0 /\ l.row = NoValue /\ l.won = NoneWon
        /\ l.queryApps = FALSE /\ l.apps = memory[c]["apps"].value /\ l.names = names
    BY <2>1, IdleType DEF Load, Idle
  <2> HIDE DEF l
  <2> DEFINE n == ToCenters(c, l)
  <2>3. /\ n \in Load /\ SameLoad(l, n) /\ n.pc \in {"query", "serve", "centers"}
        /\ \A k \in l.names : Fresh(c, k) \/ k \in n.todo
        /\ n.pc = "serve" => \A k \in l.names : Fresh(c, k)
        /\ Decided(n)
    BY <2>2, ToCentersIs DEF Reasoned
  <2> HIDE DEF n
  <2>4. Set(c, n)
    BY <1>1, <1>4 DEF n, l
  <2>5. LoadAge(n)
    BY <1>3, <2>1, <2>2, <2>3, Bounds DEF LoadAge, SameLoad
  <2>6. AtHand(c)'
    <3>1. load'[c] = n /\ n.took = 0 /\ n.names = l.names
      BY <2>2, <2>3, <2>4, LoadOf DEF SameLoad
    <3>2. \A k \in l.names : Fresh(c, k) => memory'[c][k].left > MaxStale - 0
      BY <1>2, TierNumbers DEF Fresh
    <3> QED
      BY <2>3, <3>1, <3>2 DEF AtHand, Lasts
  <2>7. \A k \in Caches : n.won[k] = 0
    BY <2>2, <2>3 DEF SameLoad, NoneWon
  <2> QED
    BY <1>2, <2>3, <2>4, <2>5, <2>6, <2>7, TiersLeftAlone, LoadStepKeeps
<1>5. CASE ~Fresh(c, "apps")
  <2>1. /\ m \in Load /\ m.todo = {} /\ m.took = 0 /\ m.row = NoValue
        /\ m.won = NoneWon /\ m.apps = NoValue /\ m.pc = "apps"
    BY IdleType DEF Load, Idle, Steps
  <2>2. Set(c, m)
    BY <1>1, <1>5
  <2> HIDE DEF m
  <2>3. LoadAge(m)
    BY <1>3, <2>1, Bounds DEF LoadAge
  <2>4. AtHand(c)'
    BY <2>1, <2>2, LoadOf DEF AtHand
  <2>5. Decided(m) /\ \A k \in Caches : m.won[k] = 0
    BY <2>1 DEF Decided, NoneWon
  <2> QED
    BY <1>2, <2>1, <2>2, <2>3, <2>4, <2>5, TiersLeftAlone, LoadStepKeeps
<1> QED
  BY <1>4, <1>5

(* A load that turns to the centres, with all it found in memory.          *)
LEMMA ToCentersKeeps ==
  ASSUME TiersInv, NEW c \in Containers, NEW l \in Load, LoadAge(l), Set(c, ToCenters(c, l)),
         Reasoned(l), l.todo = {}, memory' \in [Containers -> [Keys -> Entry]],
         \A n \in Names : memory'[c][n].left > MaxStale \/ memory'[c][n] = memory[c][n]
  PROVE  /\ ToCenters(c, l) \in Load /\ LoadAge(ToCenters(c, l))
         /\ ToCenters(c, l).won = l.won /\ AtHand(c)' /\ Decided(ToCenters(c, l))
<1> DEFINE m == ToCenters(c, l)
<1>1. /\ m \in Load /\ SameLoad(l, m) /\ m.pc \in {"query", "serve", "centers"}
      /\ \A n \in l.names : Fresh(c, n) \/ n \in m.todo
      /\ m.pc = "serve" => \A n \in l.names : Fresh(c, n)
      /\ Decided(m)
  BY ToCentersIs
<1>2. load'[c] = m
  BY LoadOf
<1> HIDE DEF m
<1>3. LoadAge(m) /\ m.won = l.won
  BY <1>1, SameAge DEF SameLoad
<1>4. m.names = l.names /\ l.names \subseteq Names /\ m.took \in Nat
  BY <1>1, TierNumbers DEF SameLoad, Load
<1>5. \A n \in l.names : Fresh(c, n) => memory'[c][n].left > MaxStale
  BY <1>4 DEF Fresh
<1>6. \A n \in l.names : memory'[c][n].left > MaxStale => memory'[c][n].left > MaxStale - m.took
  <2> SUFFICES ASSUME NEW n \in l.names, memory'[c][n].left > MaxStale
               PROVE  memory'[c][n].left > MaxStale - m.took
    OBVIOUS
  <2>1. memory'[c][n] \in Entry
    BY <1>4, KeyNames
  <2>2. memory'[c][n].left \in Nat
    BY <2>1, TierNumbers, LongestDelay DEF Entry
  <2> QED
    BY <1>4, <2>2, TierNumbers
<1>7. AtHand(c)'
  BY <1>1, <1>2, <1>4, <1>5, <1>6 DEF AtHand, Lasts
<1> QED
  BY <1>1, <1>3, <1>7 DEF m

LEMMA ReadAppsKeeps ==
  ASSUME TiersInv, NEW c \in Containers, ReadSharedApps(c)
  PROVE  TiersInv'
<1> DEFINE l == load[c]
           v == shared["apps"].value
<1>1. l \in Load /\ LoadAge(l) /\ l.took \in Nat /\ l.pc = "apps" /\ l.todo = {}
  BY LoadOf DEF ReadSharedApps, Decided
<1>2. UNCHANGED <<edition, since, shared, claim>>
  BY DEF ReadSharedApps
<1>3. v \in NoValue..Edits /\ Lag(v) <= Taken /\ Lag(v) \in Nat
  BY MemoryOf, KeyNames
<1> HIDE DEF v, l
<1>4. ASSUME Put(c, [k \in {"apps"} |-> v])
      PROVE  /\ memory' \in [Containers -> [Keys -> Entry]] /\ MemoryAge'
             /\ \A d \in Containers : d # c => memory'[d] = memory[d]
             /\ \A n \in Names : memory'[c][n].left > MaxStale \/ memory'[c][n] = memory[c][n]
  <2> DEFINE vals == [k \in {"apps"} |-> v]
  <2>1. \A k \in DOMAIN vals : vals[k] \in NoValue..Edits /\ Lag(vals[k]) <= Taken
    BY <1>3
  <2>2. Put(c, vals)
    BY <1>4
  <2> HIDE DEF vals
  <2> QED
    BY <1>2, <2>1, <2>2, PutIs, KeyNames DEF TiersInv
<1>5. CASE /\ SharedFresh("apps") /\ Put(c, [k \in {"apps"} |-> v]) /\ UNCHANGED tierFaults
           /\ Set(c, ToCenters(c, [l EXCEPT !.apps = v, !.queryApps = FALSE]))
  <2> DEFINE m == [l EXCEPT !.apps = v, !.queryApps = FALSE]
  <2>1. /\ m \in Load /\ m.won = l.won /\ m.pc = l.pc /\ m.took = l.took
        /\ m.row = l.row /\ m.apps = v /\ m.todo = {} /\ Reasoned(m)
    BY <1>1, <1>3 DEF Load, Reasoned
  <2> HIDE DEF m
  <2>2. LoadAge(m)
    BY <1>1, <1>3, <2>1, Bounds DEF LoadAge
  <2>3. Set(c, ToCenters(c, m))
    BY <1>5 DEF m
  <2>4. /\ ToCenters(c, m) \in Load /\ LoadAge(ToCenters(c, m))
        /\ ToCenters(c, m).won = l.won /\ AtHand(c)' /\ Decided(ToCenters(c, m))
    BY <1>4, <1>5, <2>1, <2>2, <2>3, ToCentersKeeps
  <2> QED
    BY <1>2, <1>4, <1>5, <2>3, <2>4, TiersLeftAlone, LoadStepKeeps DEF l
<1>6. CASE /\ Put(c, [k \in {"apps"} |-> v]) /\ UNCHANGED tierFaults
           /\ Set(c, [l EXCEPT !.pc = "claimApps", !.apps = v])
  <2> DEFINE m == [l EXCEPT !.pc = "claimApps", !.apps = v]
  <2>1. /\ m \in Load /\ m.won = l.won /\ m.pc = "claimApps" /\ m.took = l.took
        /\ m.row = l.row /\ m.apps = v /\ m.todo = {}
    BY <1>1, <1>3 DEF Load, Steps
  <2>2. Set(c, m)
    BY <1>6
  <2> HIDE DEF m
  <2>3. LoadAge(m)
    BY <1>1, <1>3, <2>1, Bounds DEF LoadAge
  <2>4. AtHand(c)'
    BY <2>1, <2>2, LoadOf DEF AtHand
  <2>5. Decided(m)
    BY <2>1 DEF Decided
  <2> QED
    BY <1>2, <1>4, <1>6, <2>1, <2>2, <2>3, <2>4, <2>5, TiersLeftAlone, LoadStepKeeps DEF l
<1>7. CASE /\ IF shared["apps"].left = 0 THEN UNCHANGED tierFaults ELSE TierFault
           /\ Set(c, ToCenters(c, [l EXCEPT !.why = {"absent"}])) /\ UNCHANGED memory
  <2> DEFINE m == [l EXCEPT !.why = {"absent"}]
  <2>1. /\ m \in Load /\ SameLoad(l, m) /\ m.pc # "idle" /\ m.todo = {}
        /\ m.won = l.won /\ Reasoned(m)
    BY <1>1 DEF Load, SameLoad, Reasoned
  <2>2. Set(c, ToCenters(c, m))
    BY <1>7
  <2> HIDE DEF m
  <2>3. LoadAge(m)
    BY <1>1, <2>1, SameAge
  <2>4. /\ ToCenters(c, m) \in Load /\ LoadAge(ToCenters(c, m))
        /\ ToCenters(c, m).won = l.won /\ AtHand(c)' /\ Decided(ToCenters(c, m))
    BY <1>2, <1>7, <2>1, <2>2, <2>3, TiersLeftAlone, ToCentersKeeps
  <2>5. tierFaults' \in 0..TierFaults /\ (tierFaults' = 0 => tierFaults = 0)
    BY <1>2, <1>7, TiersLeftAlone
  <2> QED
    BY <1>2, <1>7, <2>2, <2>4, <2>5, TiersLeftAlone, LoadStepKeeps DEF l
<1> QED
  BY <1>5, <1>6, <1>7 DEF ReadSharedApps, l, v

(* What claim_refresh does to the claims, granted or not.                  *)
LEMMA ClaimIs ==
  ASSUME TiersInv, NEW n \in Caches, NEW won \in BOOLEAN, Claim(n, won), UNCHANGED since
  PROVE  /\ claim' \in [Caches -> 0..LockTtl] /\ \A k \in Caches : k # n => claim'[k] = claim[k]
         /\ tierFaults' \in 0..TierFaults /\ (tierFaults' = 0 => tierFaults = 0)
         /\ ~won => claim' = claim
         /\ tierFaults' = 0 /\ won => claim[n] = 0 /\ claim'[n] = LockTtl
<1>1. CASE won /\ claim[n] = 0 /\ claim' = [claim EXCEPT ![n] = LockTtl] /\ UNCHANGED tierFaults
  BY <1>1, TierNumbers, TiersLeftAlone DEF TiersInv, TypesOK
<1>2. CASE ~won /\ UNCHANGED <<claim, tierFaults>>
  BY <1>2, TiersLeftAlone
<1>3. CASE won /\ TierFault /\ UNCHANGED claim
  BY <1>3, TiersLeftAlone
<1> QED
  BY <1>1, <1>2, <1>3 DEF Claim

LEMMA ClaimAppsKeeps ==
  ASSUME TiersInv, NEW c \in Containers, ClaimApps(c)
  PROVE  TiersInv'
<1> DEFINE g == Granted(load[c], "app_ids")
           d == [load[c] EXCEPT !.queryApps = FALSE]
<1>1. PICK won \in BOOLEAN : Claim("app_ids", won) /\ Set(c, ToCenters(c, IF won THEN g ELSE d))
  BY DEF ClaimApps
<1>2. /\ UNCHANGED <<edition, since, memory, shared>> /\ load[c].pc = "claimApps"
      /\ load[c].todo = {}
  BY LoadOf DEF ClaimApps, Decided
<1>3. /\ claim' \in [Caches -> 0..LockTtl] /\ claim'["map_centers"] = claim["map_centers"]
      /\ tierFaults' \in 0..TierFaults /\ (tierFaults' = 0 => tierFaults = 0)
      /\ ~won => claim' = claim
      /\ tierFaults' = 0 /\ won => claim["app_ids"] = 0 /\ claim'["app_ids"] = LockTtl
  BY <1>1, <1>2, KeyNames, ClaimIs
<1>4. CASE won
  <2>1. /\ g \in Load /\ g.pc = "claimApps" /\ g.took = load[c].took /\ g.apps = load[c].apps
        /\ g.row = load[c].row /\ g.todo = {} /\ g.why # {} /\ g.won["app_ids"] = LockTtl
        /\ g.won["map_centers"] = load[c].won["map_centers"]
    BY <1>2, LoadOf, GrantedIs, KeyNames
  <2>2. Set(c, ToCenters(c, g))
    BY <1>1, <1>4
  <2> HIDE DEF g
  <2>3. LoadAge(g) /\ Reasoned(g)
    BY <2>1, LoadOf DEF LoadAge, Reasoned
  <2>4. /\ ToCenters(c, g) \in Load /\ LoadAge(ToCenters(c, g))
        /\ ToCenters(c, g).won = g.won /\ AtHand(c)' /\ Decided(ToCenters(c, g))
    BY <1>2, <2>1, <2>2, <2>3, TiersLeftAlone, ToCentersKeeps
  <2> QED
    BY <1>2, <1>3, <1>4, <2>1, <2>2, <2>4, KeyNames, TiersLeftAlone, LoadStepKeeps
<1>5. CASE ~won
  <2>1. /\ d \in Load /\ d.pc = "claimApps" /\ d.took = load[c].took /\ d.apps = load[c].apps
        /\ d.row = load[c].row /\ d.todo = {} /\ d.queryApps = FALSE /\ d.won = load[c].won
    BY <1>2, LoadOf DEF Load
  <2>2. Set(c, ToCenters(c, d))
    BY <1>1, <1>5
  <2> HIDE DEF d
  <2>3. LoadAge(d) /\ Reasoned(d)
    BY <2>1, LoadOf DEF LoadAge, Reasoned
  <2>4. /\ ToCenters(c, d) \in Load /\ LoadAge(ToCenters(c, d))
        /\ ToCenters(c, d).won = d.won /\ AtHand(c)' /\ Decided(ToCenters(c, d))
    BY <1>2, <2>1, <2>2, <2>3, TiersLeftAlone, ToCentersKeeps
  <2> QED
    BY <1>2, <1>3, <1>5, <2>1, <2>2, <2>4, TiersLeftAlone, LoadStepKeeps
<1> QED
  BY <1>4, <1>5

LEMMA ReadCentersKeeps ==
  ASSUME TiersInv, NEW c \in Containers, ReadSharedCenters(c)
  PROVE  TiersInv'
<1> DEFINE l == load[c]
<1>1. /\ l \in Load /\ LoadAge(l) /\ l.took \in Nat /\ l.pc = "centers"
      /\ tierFaults = 0 => \A n \in l.names \ l.todo : Lasts(c, n)
      /\ l.queryApps => l.why # {}
  BY LoadOf DEF ReadSharedCenters, AtHand, Decided
<1>2. UNCHANGED <<edition, since, shared, claim>>
  BY DEF ReadSharedCenters
<1>3. PICK reached \in BOOLEAN :
        LET found == IF reached THEN {n \in l.todo : shared[n].left > 0} ELSE {}
            stale == {n \in found : SharedStale(n)}
        IN /\ IF reached THEN UNCHANGED tierFaults ELSE TierFault
           /\ Put(c, [n \in found |-> shared[n].value])
           /\ Set(c, IF stale # {} /\ found = l.todo
                     THEN [l EXCEPT !.pc = "claimCenters", !.todo = stale]
                     ELSE Onward([l EXCEPT !.todo = (l.todo \ found) \cup stale,
                                           !.why = IF found = l.todo THEN @
                                                   ELSE @ \cup {"absent"}]))
  BY DEF ReadSharedCenters
<1> DEFINE found == IF reached THEN {n \in l.todo : shared[n].left > 0} ELSE {}
           stale == {n \in found : SharedStale(n)}
           vals  == [n \in found |-> shared[n].value]
           rest  == (l.todo \ found) \cup stale
           why   == IF found = l.todo THEN l.why ELSE l.why \cup {"absent"}
           m     == [l EXCEPT !.pc = "claimCenters", !.todo = stale]
           o     == [l EXCEPT !.todo = rest, !.why = why]
<1>4. /\ Put(c, vals) /\ found \subseteq l.todo /\ stale \subseteq found
      /\ Set(c, IF stale # {} /\ found = l.todo THEN m ELSE Onward(o))
      /\ tierFaults' \in 0..TierFaults /\ (tierFaults' = 0 => tierFaults = 0)
  BY <1>2, <1>3, TiersLeftAlone
<1>5. l.todo \subseteq Names /\ l.names \subseteq Names
  BY <1>1 DEF Load
<1>6. DOMAIN vals = found /\ \A n \in found : vals[n] = shared[n].value
  OBVIOUS
<1> HIDE DEF found, stale, vals, l
<1>7. /\ memory' \in [Containers -> [Keys -> Entry]] /\ MemoryAge'
      /\ \A d \in Containers : d # c => memory'[d] = memory[d]
      /\ \A n \in found : memory'[c][n].left > MaxStale
      /\ \A n \in Names \ found : memory'[c][n] = memory[c][n]
  <2>1. \A n \in found : vals[n] \in NoValue..Edits /\ Lag(vals[n]) <= Taken
    BY <1>4, <1>5, <1>6, KeyNames, MemoryOf
  <2> QED
    BY <1>2, <1>4, <1>5, <1>6, <2>1, PutIs, KeyNames DEF TiersInv
<1>8. ASSUME tierFaults = 0, NEW n \in l.names, n \notin l.todo \/ n \in found
      PROVE  memory'[c][n].left > MaxStale - l.took
  <2>1. CASE n \in found
    <3>1. memory'[c][n] \in Entry
      BY <1>5, <1>7, KeyNames
    <3>2. memory'[c][n].left \in Nat
      BY <3>1, TierNumbers, LongestDelay DEF Entry
    <3> QED
      BY <1>1, <1>7, <2>1, <3>2, TierNumbers
  <2>2. CASE n \notin found
    BY <1>1, <1>4, <1>5, <1>7, <1>8, <2>2 DEF Lasts, l
  <2> QED
    BY <2>1, <2>2
<1>9. CASE stale # {} /\ found = l.todo
  <2>1. Set(c, m)
    BY <1>4, <1>9
  <2>2. m \in Load /\ SameLoad(l, m) /\ m.pc = "claimCenters" /\ Decided(m)
    BY <1>1, <1>4, <1>5 DEF Load, Steps, SameLoad, Decided
  <2> HIDE DEF m
  <2>3. load'[c] = m
    BY <2>1, LoadOf
  <2>4. m.names = l.names /\ m.took = l.took /\ m.won = l.won
    BY <2>2 DEF SameLoad
  <2>5. tierFaults' = 0 => AtHand(c)'
    BY <1>4, <1>8, <1>9, <2>2, <2>3, <2>4 DEF AtHand, Lasts
  <2>6. LoadAge(m)
    BY <1>1, <2>2, SameAge
  <2> QED
    BY <1>2, <1>4, <1>7, <2>1, <2>2, <2>4, <2>5, <2>6, TiersLeftAlone, LoadStepKeeps DEF l
<1>10. CASE ~(stale # {} /\ found = l.todo)
  <2>1. Set(c, Onward(o))
    BY <1>4, <1>10
  <2>2. rest \subseteq Names
    BY <1>4, <1>5
  <2>3. \A n \in l.names : n \in rest \/ n \notin l.todo \/ n \in found
    OBVIOUS
  <2>4. rest = {} => \A n \in l.names : n \notin l.todo \/ n \in found
    OBVIOUS
  <2>11. /\ why \in SUBSET (Caches \cup {"absent"})
         /\ (l.queryApps \/ rest # {}) => why # {}
    BY <1>1, <1>4, <1>10 DEF Load
  <2> HIDE DEF rest, why
  <2>5. o \in Load /\ SameLoad(l, o) /\ o.todo = rest /\ Reasoned(o)
    BY <1>1, <2>2, <2>11 DEF Load, SameLoad, Reasoned
  <2> DEFINE p == Onward(o)
  <2>6. /\ p \in Load /\ SameLoad(o, p) /\ p.todo = rest /\ p.pc \in {"query", "serve"}
        /\ (p.pc = "serve" => rest = {}) /\ Decided(p)
    BY <2>5, OnwardIs
  <2> HIDE DEF o, p
  <2>7. load'[c] = p /\ Set(c, p)
    BY <2>1, LoadOf DEF p
  <2>8. SameLoad(l, p) /\ p.names = l.names /\ p.took = l.took /\ p.won = l.won
    BY <2>5, <2>6 DEF SameLoad
  <2>9. tierFaults' = 0 => AtHand(c)'
    BY <1>4, <1>8, <2>3, <2>4, <2>6, <2>7, <2>8 DEF AtHand, Lasts
  <2>10. LoadAge(p)
    BY <1>1, <2>6, <2>8, SameAge
  <2> QED
    BY <1>2, <1>4, <1>7, <2>6, <2>7, <2>8, <2>9, <2>10, TiersLeftAlone, LoadStepKeeps DEF l
<1> QED
  BY <1>9, <1>10

LEMMA ClaimCentersKeeps ==
  ASSUME TiersInv, NEW c \in Containers, ClaimCenters(c)
  PROVE  TiersInv'
<1> DEFINE g == Granted(load[c], "map_centers")
           d == [load[c] EXCEPT !.todo = {}]
<1>1. PICK won \in BOOLEAN : Claim("map_centers", won) /\ Set(c, Onward(IF won THEN g ELSE d))
  BY DEF ClaimCenters
<1>2. /\ UNCHANGED <<edition, since, memory, shared>> /\ load[c].pc = "claimCenters"
      /\ load[c].queryApps => load[c].why # {}
  BY LoadOf DEF ClaimCenters, Decided
<1>3. /\ claim' \in [Caches -> 0..LockTtl] /\ claim'["app_ids"] = claim["app_ids"]
      /\ tierFaults' \in 0..TierFaults /\ (tierFaults' = 0 => tierFaults = 0)
      /\ ~won => claim' = claim
      /\ tierFaults' = 0 /\ won => claim["map_centers"] = 0 /\ claim'["map_centers"] = LockTtl
  BY <1>1, <1>2, KeyNames, ClaimIs
<1>4. ASSUME NEW o \in Load, o.took = load[c].took, o.names = load[c].names,
             o.apps = load[c].apps, o.row = load[c].row, Reasoned(o), Set(c, Onward(o))
      PROVE  /\ Onward(o) \in Load /\ LoadAge(Onward(o)) /\ Decided(Onward(o))
             /\ Onward(o).won = o.won /\ (tierFaults = 0 => AtHand(c)')
  <2> DEFINE p == Onward(o)
  <2>1. p \in Load /\ SameLoad(o, p) /\ p.pc \in {"query", "serve"} /\ Decided(p)
    BY <1>4, OnwardIs
  <2>2. load'[c] = p
    BY <1>4, LoadOf
  <2> HIDE DEF p
  <2>3. /\ p.took = load[c].took /\ p.names = load[c].names /\ p.apps = load[c].apps
        /\ p.row = load[c].row /\ p.won = o.won
    BY <1>4, <2>1 DEF SameLoad
  <2>4. LoadAge(p)
    BY <2>1, <2>3, LoadOf DEF LoadAge
  <2>5. tierFaults = 0 => AtHand(c)'
    BY <1>2, <2>1, <2>2, <2>3, LoadOf DEF AtHand, Lasts
  <2> QED
    BY <2>1, <2>3, <2>4, <2>5 DEF p
<1>5. CASE won
  <2>1. /\ g \in Load /\ g.took = load[c].took /\ g.names = load[c].names
        /\ g.apps = load[c].apps /\ g.row = load[c].row /\ g.why # {}
        /\ g.won["map_centers"] = LockTtl /\ g.won["app_ids"] = load[c].won["app_ids"]
    BY LoadOf, GrantedIs, KeyNames
  <2>2. Set(c, Onward(g)) /\ Reasoned(g)
    BY <1>1, <1>5, <2>1 DEF Reasoned
  <2> HIDE DEF g
  <2> QED
    BY <1>2, <1>3, <1>4, <1>5, <2>1, <2>2, KeyNames, TiersLeftAlone, LoadStepKeeps
<1>6. CASE ~won
  <2>1. /\ d \in Load /\ d.took = load[c].took /\ d.names = load[c].names
        /\ d.apps = load[c].apps /\ d.row = load[c].row /\ d.won = load[c].won
        /\ d.todo = {} /\ d.why = load[c].why /\ d.queryApps = load[c].queryApps
    BY LoadOf DEF Load
  <2>2. Set(c, Onward(d)) /\ Reasoned(d)
    BY <1>1, <1>2, <1>6, <2>1 DEF Reasoned
  <2> HIDE DEF d
  <2> QED
    BY <1>2, <1>3, <1>4, <1>6, <2>1, <2>2, TiersLeftAlone, LoadStepKeeps
<1> QED
  BY <1>5, <1>6

LEMMA QueryKeeps ==
  ASSUME TiersInv, NEW c \in Containers, Query(c)
  PROVE  TiersInv'
<1> DEFINE vals == [k \in {"apps"} |-> edition]
           m    == [load[c] EXCEPT !.pc = "writeApps", !.row = edition, !.apps = edition]
<1>1. /\ Put(c, vals) /\ Set(c, m) /\ load[c].pc = "query"
      /\ UNCHANGED <<edition, since, shared, claim, tierFaults>>
  BY DEF Query
<1>2. edition \in NoValue..Edits /\ Lag(edition) = 0
  <2>1. edition \in 0..Edits /\ edition \in edition..Edits
    BY TierNumbers DEF TiersInv, TypesOK
  <2> QED
    BY <2>1, LagType DEF TiersInv, CurrentIsNew, NoValue
<1>3. \A k \in DOMAIN vals : vals[k] \in NoValue..Edits /\ Lag(vals[k]) <= Taken
  BY <1>2, Bounds
<1>4. DOMAIN vals = {"apps"}
  OBVIOUS
<1> HIDE DEF vals
<1>5. /\ memory' \in [Containers -> [Keys -> Entry]] /\ MemoryAge'
      /\ \A d \in Containers : d # c => memory'[d] = memory[d]
      /\ \A k \in Keys : IF k = "apps" THEN memory'[c][k].left > MaxStale
                         ELSE memory'[c][k] = memory[c][k]
  BY <1>1, <1>3, <1>4, PutIs DEF TiersInv
<1>6. /\ m \in Load /\ m.pc = "writeApps" /\ m.row = edition /\ m.apps = edition
      /\ m.took = load[c].took /\ m.names = load[c].names /\ m.todo = load[c].todo
      /\ m.won = load[c].won /\ Decided(m)
  BY <1>2, LoadOf DEF Load, Steps, Decided
<1> HIDE DEF m
<1>7. LoadAge(m)
  BY <1>2, <1>6, LoadOf, Bounds DEF LoadAge
<1>8. tierFaults' = 0 => AtHand(c)'
  <2> SUFFICES ASSUME tierFaults = 0, NEW n \in load[c].names \ load[c].todo
               PROVE  memory'[c][n].left > MaxStale - load[c].took
    BY <1>1, <1>6, LoadOf DEF AtHand, Lasts
  <2>1. n \in Keys
    BY KeyNames, LoadOf DEF Load
  <2>2. memory[c][n].left > MaxStale - load[c].took
    BY <1>1, LoadOf DEF AtHand, Lasts
  <2>3. CASE n = "apps"
    <3>1. memory'[c][n] \in Entry
      BY <1>5, <2>1
    <3>2. memory'[c][n].left \in Nat
      BY <3>1, TierNumbers, LongestDelay DEF Entry
    <3> QED
      BY <1>5, <2>1, <2>3, <3>2, LoadOf, TierNumbers
  <2> QED
    BY <1>5, <2>1, <2>2, <2>3
<1> QED
  BY <1>1, <1>5, <1>6, <1>7, <1>8, TiersLeftAlone, LoadStepKeeps

LEMMA QueryFailsKeeps ==
  ASSUME TiersInv, NEW c \in Containers, QueryFails(c)
  PROVE  TiersInv'
<1> DEFINE m == [load[c] EXCEPT !.pc = "release"]
<1>1. Set(c, m) /\ TierFault /\ UNCHANGED <<edition, since, memory, shared, claim>>
  BY DEF QueryFails
<1>2. m \in Load /\ SameLoad(load[c], m) /\ m.pc # "idle" /\ Decided(m)
  BY LoadOf DEF Load, Steps, SameLoad, Decided
<1> HIDE DEF m
<1>3. LoadAge(m)
  BY <1>2, LoadOf, SameAge
<1> QED
  BY <1>1, <1>2, <1>3, TiersLeftAlone, LoadStepKeeps

(* What a load writes to Valkey was right when the load began, or later.   *)
LEMMA WriteSharedIs ==
  ASSUME TiersInv, NEW c \in Containers, NEW ks \in SUBSET Keys, WriteShared(c, ks), UNCHANGED since
  PROVE  /\ shared' \in [Keys -> Entry] /\ SharedAge'
         /\ tierFaults' \in 0..TierFaults /\ (tierFaults' = 0 => tierFaults = 0)
<1>1. /\ load[c].row \in NoValue..Edits /\ Lag(load[c].row) <= load[c].took
      /\ load[c].took \in Nat /\ load[c].took <= LoadTime
  BY LoadOf DEF LoadAge, Load
<1>2. Lag(load[c].row) \in Nat
  BY <1>1, LagType DEF TiersInv
<1>3. CASE /\ shared' = [k \in Keys |-> IF k \in ks THEN [value |-> load[c].row, left |-> HardTtl]
                                       ELSE shared[k]]
           /\ UNCHANGED tierFaults
  <2>1. HardTtl \in 0..(HardTtl + MaxDelay + MaxStale)
    BY TierNumbers, LongestDelay
  <2>2. [value |-> load[c].row, left |-> HardTtl] \in Entry
    BY <1>1, <2>1 DEF Entry
  <2>3. \A k \in Keys : shared[k] \in Entry
    BY DEF TiersInv, TypesOK
  <2>4. shared' \in [Keys -> Entry]
    BY <1>3, <2>2, <2>3
  <2>5. Lag(load[c].row) <= Taken - HardTtl
    BY <1>1, <1>2, TierNumbers DEF Taken
  <2>6. \A v : Lag(v)' = Lag(v)
    BY DEF Lag
  <2>7. SharedAge'
    BY <1>3, <2>5, <2>6 DEF SharedAge, TiersInv
  <2> QED
    BY <1>3, <2>4, <2>7, TiersLeftAlone
<1>4. CASE TierFault /\ UNCHANGED shared
  BY <1>4, TiersLeftAlone
<1> QED
  BY <1>3, <1>4 DEF WriteShared

LEMMA WriteAppsKeeps ==
  ASSUME TiersInv, NEW c \in Containers, WriteSharedApps(c)
  PROVE  TiersInv'
<1> DEFINE m == [load[c] EXCEPT !.pc = "writeCenters"]
<1>1. /\ WriteShared(c, {"apps"}) /\ Set(c, m) /\ load[c].pc = "writeApps"
      /\ UNCHANGED <<edition, since, memory, claim>>
  BY DEF WriteSharedApps
<1>2. /\ m \in Load /\ SameLoad(load[c], m) /\ m.pc = "writeCenters"
      /\ m.todo = load[c].todo /\ m.names = load[c].names /\ m.took = load[c].took
      /\ m.won = load[c].won /\ Decided(m)
  BY LoadOf DEF Load, Steps, SameLoad, Decided
<1> HIDE DEF m
<1>3. LoadAge(m)
  BY <1>2, LoadOf, SameAge
<1>4. tierFaults = 0 => AtHand(c)'
  BY <1>1, <1>2, LoadOf DEF AtHand, Lasts
<1>5. /\ shared' \in [Keys -> Entry] /\ SharedAge'
      /\ tierFaults' \in 0..TierFaults /\ (tierFaults' = 0 => tierFaults = 0)
  <2>1. {"apps"} \in SUBSET Keys
    BY KeyNames
  <2> QED
    BY <1>1, <2>1, WriteSharedIs
<1> QED
  BY <1>1, <1>2, <1>3, <1>4, <1>5, TiersLeftAlone, LoadStepKeeps

LEMMA WriteCentersKeeps ==
  ASSUME TiersInv, NEW c \in Containers, WriteSharedCenters(c)
  PROVE  TiersInv'
<1> DEFINE m    == [load[c] EXCEPT !.pc = "serve"]
           vals == [n \in load[c].todo |-> load[c].row]
<1>1. /\ Put(c, vals) /\ WriteShared(c, load[c].todo) /\ Set(c, m)
      /\ load[c].pc = "writeCenters" /\ UNCHANGED <<edition, since, claim>>
  BY DEF WriteSharedCenters
<1>2. /\ m \in Load /\ SameLoad(load[c], m) /\ m.pc = "serve"
      /\ m.names = load[c].names /\ m.took = load[c].took /\ m.won = load[c].won
      /\ Decided(m)
  BY LoadOf DEF Load, Steps, SameLoad, Decided
<1> HIDE DEF m
<1>3. LoadAge(m)
  BY <1>2, LoadOf, SameAge
<1>4. /\ load[c].todo \subseteq Names /\ load[c].names \subseteq Names
      /\ load[c].took \in Nat /\ load[c].took <= LoadTime
      /\ load[c].row \in NoValue..Edits /\ Lag(load[c].row) <= load[c].took
  BY LoadOf DEF Load, LoadAge
<1>5. Lag(load[c].row) <= Taken
  <2>1. Lag(load[c].row) \in Nat
    BY <1>4, LagType DEF TiersInv
  <2> QED
    BY <1>4, <2>1, TierNumbers DEF Taken
<1>6. DOMAIN vals = load[c].todo /\ \A k \in DOMAIN vals : vals[k] = load[c].row
  OBVIOUS
<1> HIDE DEF vals
<1>7. /\ memory' \in [Containers -> [Keys -> Entry]] /\ MemoryAge'
      /\ \A d \in Containers : d # c => memory'[d] = memory[d]
      /\ \A k \in Keys : IF k \in load[c].todo THEN memory'[c][k].left > MaxStale
                         ELSE memory'[c][k] = memory[c][k]
  BY <1>1, <1>4, <1>5, <1>6, PutIs DEF TiersInv
<1>8. /\ shared' \in [Keys -> Entry] /\ SharedAge'
      /\ tierFaults' \in 0..TierFaults /\ (tierFaults' = 0 => tierFaults = 0)
  <2>1. load[c].todo \in SUBSET Keys
    BY <1>4, KeyNames
  <2> QED
    BY <1>1, <2>1, WriteSharedIs
<1>9. tierFaults = 0 => AtHand(c)'
  <2> SUFFICES ASSUME tierFaults = 0, NEW n \in load[c].names
               PROVE  memory'[c][n].left > MaxStale - load[c].took
    BY <1>2, <1>1, LoadOf DEF AtHand, Lasts
  <2>1. n \in Keys
    BY <1>4, KeyNames
  <2>2. CASE n \in load[c].todo
    <3>1. memory'[c][n] \in Entry
      BY <1>7, <2>1
    <3>2. memory'[c][n].left \in Nat
      BY <3>1, TierNumbers, LongestDelay DEF Entry
    <3> QED
      BY <1>4, <1>7, <2>1, <2>2, <3>2, TierNumbers
  <2>3. CASE n \notin load[c].todo
    <3>1. memory[c][n].left > MaxStale - load[c].took
      BY <1>1, <2>3, LoadOf DEF AtHand, Lasts
    <3> QED
      BY <1>7, <2>1, <2>3, <3>1
  <2> QED
    BY <2>2, <2>3
<1> QED
  BY <1>1, <1>2, <1>3, <1>7, <1>8, <1>9, TiersLeftAlone, LoadStepKeeps

LEMMA IdleAge ==
  ASSUME TiersInv
  PROVE  LoadAge(Idle) /\ Decided(Idle) /\ \A n \in Caches : Idle.won[n] = 0
BY LagType, Bounds DEF TiersInv, LoadAge, Decided, Idle, NoneWon

(* The claims go only after a failure.                                     *)
LEMMA ReleaseKeeps ==
  ASSUME TiersInv, NEW c \in Containers, ReleaseClaims(c)
  PROVE  TiersInv'
<1> DEFINE m == [load[c] EXCEPT !.pc = "serve"]
           u == [load[c] EXCEPT !.pc = "serve", !.apps = memory[c]["apps"].value]
<1>1. /\ claim' = [n \in Caches |-> 0] /\ load[c].pc = "release"
      /\ UNCHANGED <<edition, since, memory, shared, tierFaults>>
      /\ Set(c, m) \/ Set(c, u) \/ Set(c, Idle)
  BY DEF ReleaseClaims
<1>2. tierFaults # 0
  BY <1>1, LoadOf DEF AtHand
<1>3. claim' \in [Caches -> 0..LockTtl]
  <2>1. 0 \in 0..LockTtl
    BY TierNumbers
  <2> QED
    BY <1>1, <2>1
<1>4. m \in Load /\ LoadAge(m) /\ Decided(m)
  <2>1. m \in Load /\ SameLoad(load[c], m) /\ m.pc # "idle" /\ Decided(m)
    BY LoadOf DEF Load, Steps, SameLoad, Decided
  <2> HIDE DEF m
  <2> QED
    BY <2>1, LoadOf, SameAge
<1>5. u \in Load /\ LoadAge(u) /\ Decided(u)
  <2>1. memory[c]["apps"].value \in NoValue..Edits /\ Lag(memory[c]["apps"].value) <= Kept
        /\ Lag(memory[c]["apps"].value) \in Nat
    BY KeyNames, MemoryOf, Bounds
  <2>2. /\ u \in Load /\ u.apps = memory[c]["apps"].value /\ u.row = load[c].row
        /\ u.took = load[c].took /\ u.pc = "serve"
    BY <2>1, LoadOf DEF Load, Steps
  <2> HIDE DEF u
  <2> QED
    BY <2>1, <2>2, LoadOf, Bounds DEF LoadAge, Decided
<1> HIDE DEF m, u
<1>6. ASSUME NEW l \in Load, LoadAge(l), Decided(l), Set(c, l) PROVE TiersInv'
  BY <1>1, <1>2, <1>3, <1>6, TiersLeftAlone, LoadStepKeeps
<1> QED
  BY <1>1, <1>4, <1>5, <1>6, IdleType, IdleAge

LEMMA ServeKeeps ==
  ASSUME TiersInv, NEW c \in Containers, Serve(c)
  PROVE  TiersInv'
<1>1. Set(c, Idle) /\ UNCHANGED <<edition, since, memory, shared, claim, tierFaults>>
  BY DEF Serve
<1>2. /\ load'[c] = Idle /\ Idle \in Load /\ LoadAge(Idle) /\ Decided(Idle)
      /\ \A n \in Caches : Idle.won[n] = 0
  BY <1>1, LoadOf, IdleType, IdleAge
<1>3. AtHand(c)'
  BY <1>2 DEF AtHand, Idle
<1> QED
  BY <1>1, <1>2, <1>3, TiersLeftAlone, LoadStepKeeps

LEMMA RecycleKeeps ==
  ASSUME TiersInv, NEW c \in Containers, Recycle(c)
  PROVE  TiersInv'
<1>1. /\ TierFault /\ memory' = [memory EXCEPT ![c] = Cold] /\ Set(c, Idle)
      /\ UNCHANGED <<edition, since, shared, claim>>
  BY DEF Recycle
<1>2. /\ memory' \in [Containers -> [Keys -> Entry]] /\ memory'[c] = Cold
      /\ \A d \in Containers : d # c => memory'[d] = memory[d]
  BY <1>1, IdleType DEF TiersInv, TypesOK
<1>3. MemoryAge'
  <2>1. \A v : Lag(v)' = Lag(v)
    BY <1>1 DEF Lag
  <2>2. Lag(NoValue) = 0
    BY LagType DEF TiersInv
  <2> QED
    BY <1>2, <2>1, <2>2, Bounds DEF TiersInv, MemoryAge, Cold, Gone
<1> QED
  BY <1>1, <1>2, <1>3, IdleType, IdleAge, TiersLeftAlone, LoadStepKeeps

-----------------------------------------------------------------------------
(* The world                                                               *)

LEMMA EditKeeps ==
  ASSUME TiersInv, EditConfig
  PROVE  TiersInv'
<1>1. /\ edition \in 0..Edits /\ edition < Edits /\ edition' = edition + 1
      /\ UNCHANGED <<since, memory, shared, claim, load, tierFaults>>
  BY DEF EditConfig, TiersInv, TypesOK
<1>2. edition' \in 0..Edits /\ edition'..Edits \subseteq edition..Edits
  BY <1>1, TierNumbers
<1>3. TypesOK' /\ CurrentIsNew'
  BY <1>1, <1>2 DEF TiersInv, TypesOK, CurrentIsNew
<1>4. \A v : Lag(v)' = Lag(v)
  BY <1>1 DEF Lag
<1>5. /\ MemoryAge' /\ SharedAge' /\ LoadsAge' /\ AllAtHand' /\ WonIsHeld'
      /\ LoadsDecided'
  BY <1>1, <1>4 DEF TiersInv, MemoryAge, SharedAge, LoadsAge, LoadAge, AllAtHand, AtHand,
                    Lasts, WonIsHeld, LoadsDecided, Decided
<1> QED
  BY <1>3, <1>5 DEF TiersInv

(* Lag at a given state of the clocks.                                     *)
LagAt(clocks, v) == IF v = NoValue THEN 0 ELSE clocks[v]

(* A tick ages what the tiers hold, or drops it.                           *)
LEMMA AgedIs ==
  ASSUME TypesOK, NEW e \in Entry, NEW bound \in Nat, Lag(e.value) <= bound - e.left,
         \A v \in NoValue..Edits : LagAt(since', v) <= Lag(v) + 1 /\ LagAt(since', v) \in Nat
  PROVE  Aged(e) \in Entry /\ LagAt(since', Aged(e).value) <= bound - Aged(e).left
<1>1. /\ e.left \in 0..(HardTtl + MaxDelay + MaxStale) /\ e.value \in NoValue..Edits
      /\ e.left \in Nat /\ Lag(e.value) \in Nat
  BY TierNumbers, LongestDelay, LagType DEF Entry
<1>2. CASE e.left <= 1
  BY <1>2, IdleType DEF Aged, Gone, LagAt
<1>3. CASE ~(e.left <= 1)
  <2> DEFINE a == [e EXCEPT !.left = @ - 1]
  <2>1. e.left - 1 \in 0..(HardTtl + MaxDelay + MaxStale)
    BY <1>1, <1>3, TierNumbers, LongestDelay
  <2>2. a \in Entry /\ a.value = e.value /\ a.left = e.left - 1
    BY <2>1 DEF Entry
  <2>3. Aged(e) = a
    BY <1>3 DEF Aged
  <2> HIDE DEF a
  <2>4. LagAt(since', e.value) <= Lag(e.value) + 1 /\ LagAt(since', e.value) \in Nat
    BY <1>1
  <2>5. LagAt(since', e.value) <= bound - (e.left - 1)
    BY <1>1, <2>4
  <2> QED
    BY <2>2, <2>3, <2>5
<1> QED
  BY <1>2, <1>3

LEMMA TierTickKeeps ==
  ASSUME TiersInv, Tick
  PROVE  TiersInv'
<1> USE DEF TiersInv
<1>1. /\ \A c \in Containers : load[c].pc # "idle" => load[c].took < LoadTime
      /\ since' = [e \in 0..Edits |-> IF e < edition /\ since[e] < SinceCap THEN since[e] + 1
                                      ELSE since[e]]
      /\ memory' = [c \in Containers |-> [k \in Keys |-> Aged(memory[c][k])]]
      /\ shared' = [k \in Keys |-> Aged(shared[k])]
      /\ claim' = [n \in Caches |-> Down1(claim[n])]
      /\ load' = [c \in Containers |-> IF load[c].pc = "idle" THEN load[c]
                    ELSE [load[c] EXCEPT !.took = @ + 1,
                                         !.won = [n \in Caches |-> Down1(@[n])]]]
      /\ UNCHANGED <<edition, tierFaults>>
  BY DEF Tick
<1>2. \A e \in 0..Edits : /\ since[e] \in 0..SinceCap /\ since'[e] \in 0..SinceCap
                          /\ since'[e] <= since[e] + 1 /\ (e >= edition => since'[e] = since[e])
  <2> SUFFICES ASSUME NEW e \in 0..Edits
               PROVE  /\ since[e] \in 0..SinceCap /\ since'[e] \in 0..SinceCap
                      /\ since'[e] <= since[e] + 1 /\ (e >= edition => since'[e] = since[e])
    OBVIOUS
  <2>1. since[e] \in 0..SinceCap /\ edition \in Nat /\ e \in Nat
    BY TierNumbers DEF TypesOK
  <2>2. since'[e] = IF e < edition /\ since[e] < SinceCap THEN since[e] + 1 ELSE since[e]
    BY <1>1
  <2> QED
    BY <2>1, <2>2, Bounds
<1>3. since' \in [0..Edits -> 0..SinceCap]
  <2>1. \A e \in 0..Edits : since'[e] \in 0..SinceCap
    BY <1>2
  <2>2. since' = [e \in 0..Edits |-> since'[e]]
    BY <1>1
  <2> QED
    BY <2>1, <2>2
<1>4. CurrentIsNew'
  <2>1. \A e \in edition..Edits : e \in 0..Edits /\ e >= edition
    BY TierNumbers DEF TypesOK
  <2> QED
    BY <1>1, <1>2, <2>1 DEF CurrentIsNew
<1>5. \A v \in NoValue..Edits : LagAt(since', v) <= Lag(v) + 1 /\ LagAt(since', v) \in Nat
  <2>1. LagAt(since', NoValue) = 0 /\ Lag(NoValue) = 0
    BY DEF Lag, LagAt
  <2>2. \A v \in 0..Edits : LagAt(since', v) = since'[v] /\ Lag(v) = since[v]
    BY TierNumbers DEF Lag, LagAt, NoValue
  <2>3. \A v \in 0..Edits : LagAt(since', v) <= Lag(v) + 1 /\ LagAt(since', v) \in Nat
    BY <1>2, <2>2, Bounds
  <2>4. \A v \in NoValue..Edits : v = NoValue \/ v \in 0..Edits
    BY TierNumbers DEF NoValue
  <2> QED
    BY <2>1, <2>3, <2>4
<1>6. \A c \in Containers, k \in Keys :
        /\ Aged(memory[c][k]) \in Entry
        /\ LagAt(since', Aged(memory[c][k]).value) <= Kept - Aged(memory[c][k]).left
  <2>1. \A c \in Containers, k \in Keys :
          memory[c][k] \in Entry /\ Lag(memory[c][k].value) <= Kept - memory[c][k].left
    BY DEF MemoryAge, TypesOK
  <2> QED
    BY <1>5, <2>1, AgedIs, Bounds
<1>7. \A k \in Keys : /\ Aged(shared[k]) \in Entry
                      /\ LagAt(since', Aged(shared[k]).value) <= Taken - Aged(shared[k]).left
  <2>1. \A k \in Keys : shared[k] \in Entry /\ Lag(shared[k].value) <= Taken - shared[k].left
    BY DEF SharedAge, TypesOK
  <2> QED
    BY <1>5, <2>1, AgedIs, Bounds
<1>8. \A v : Lag(v)' = LagAt(since', v)
  BY DEF Lag, LagAt
<1>9. /\ memory' \in [Containers -> [Keys -> Entry]] /\ MemoryAge'
      /\ shared' \in [Keys -> Entry] /\ SharedAge'
  BY <1>1, <1>6, <1>7, <1>8 DEF MemoryAge, SharedAge
<1>10. \A n \in Nat : Down1(n) \in Nat /\ Down1(n) <= n /\ (n > 0 => Down1(n) = n - 1)
                     /\ (n = 0 => Down1(n) = 0)
  BY DEF Down1
<1>11. claim' \in [Caches -> 0..LockTtl]
  <2>1. \A n \in Caches : claim[n] \in Nat /\ claim[n] <= LockTtl
    BY TierNumbers DEF TypesOK
  <2>2. \A n \in Caches : Down1(claim[n]) \in 0..LockTtl
    BY <1>10, <2>1, TierNumbers
  <2> QED
    BY <1>1, <2>2
<1>12. \A c \in Containers :
         /\ load'[c] \in Load /\ LoadAge(load[c])'
         /\ load'[c].pc = load[c].pc /\ load'[c].names = load[c].names
         /\ load'[c].todo = load[c].todo
         /\ load'[c].queryApps = load[c].queryApps /\ load'[c].why = load[c].why
         /\ \A n \in Caches :
              \/ load'[c].won[n] = Down1(load[c].won[n])
              \/ load[c].pc = "idle" /\ load'[c].won[n] = load[c].won[n]
         /\ load[c].pc # "idle" => load'[c].took = load[c].took + 1
  <2> SUFFICES ASSUME NEW c \in Containers
      PROVE
         /\ load'[c] \in Load /\ LoadAge(load[c])'
         /\ load'[c].pc = load[c].pc /\ load'[c].names = load[c].names
         /\ load'[c].todo = load[c].todo
         /\ load'[c].queryApps = load[c].queryApps /\ load'[c].why = load[c].why
         /\ \A n \in Caches :
              \/ load'[c].won[n] = Down1(load[c].won[n])
              \/ load[c].pc = "idle" /\ load'[c].won[n] = load[c].won[n]
         /\ load[c].pc # "idle" => load'[c].took = load[c].took + 1
    OBVIOUS
  <2>1. /\ load[c] \in Load /\ LoadAge(load[c])
        /\ load[c].row \in NoValue..Edits /\ load[c].apps \in NoValue..Edits
        /\ load[c].took \in Nat /\ \A n \in Caches : load[c].won[n] \in 0..LockTtl
    BY TierNumbers DEF TypesOK, LoadsAge, Load
  <2>2. CASE load[c].pc = "idle"
    <3>1. load'[c] = load[c] /\ load[c] = Idle
      BY <1>1, <2>1, <2>2 DEF LoadAge
    <3>2. LoadAge(load[c])'
      BY <3>1, Bounds DEF LoadAge, Idle, Lag
    <3> QED
      BY <2>1, <2>2, <3>1, <3>2
  <2>3. CASE load[c].pc # "idle"
    <3> DEFINE w == [n \in Caches |-> Down1(load[c].won[n])]
    <3>1. load[c].took + 1 \in 0..LoadTime /\ w \in [Caches -> 0..LockTtl]
      <4>1. load[c].took < LoadTime
        BY <1>1, <2>3
      <4>2. \A n \in Caches : Down1(load[c].won[n]) \in 0..LockTtl
        BY <2>1, TierNumbers DEF Down1
      <4> QED
        BY <2>1, <4>1, <4>2, TierNumbers
    <3>2. load'[c] = [load[c] EXCEPT !.took = @ + 1, !.won = w]
      BY <1>1, <2>1, <2>3
    <3>8. \A n \in Caches : w[n] = Down1(load[c].won[n])
      OBVIOUS
    <3> HIDE DEF w
    <3>3. /\ load'[c] \in Load /\ load'[c].took = load[c].took + 1 /\ load'[c].won = w
          /\ load'[c].queryApps = load[c].queryApps /\ load'[c].why = load[c].why
          /\ load'[c].pc = load[c].pc /\ load'[c].names = load[c].names
          /\ load'[c].todo = load[c].todo /\ load'[c].row = load[c].row
          /\ load'[c].apps = load[c].apps
      BY <2>1, <3>1, <3>2 DEF Load
    <3>4. /\ Lag(load[c].row) \in Nat /\ Lag(load[c].row) <= load[c].took
          /\ Lag(load[c].apps) \in Nat /\ Lag(load[c].apps) <= Kept + load[c].took
      BY <2>1, LagType DEF LoadAge
    <3>5. /\ LagAt(since', load[c].row) <= Lag(load[c].row) + 1
          /\ LagAt(since', load[c].apps) <= Lag(load[c].apps) + 1
          /\ LagAt(since', load[c].row) \in Nat /\ LagAt(since', load[c].apps) \in Nat
      BY <1>5, <2>1
    <3>6. /\ LagAt(since', load[c].row) <= load[c].took + 1
          /\ LagAt(since', load[c].apps) <= Kept + (load[c].took + 1)
      BY <2>1, <3>4, <3>5, Bounds
    <3>7. LoadAge(load[c])'
      BY <1>8, <2>3, <3>3, <3>6 DEF LoadAge
    <3> QED
      BY <3>3, <3>7, <3>8
  <2> QED
    BY <2>2, <2>3
<1>13. TypesOK'
  <2>1. load' \in [Containers -> Load]
    BY <1>1, <1>12
  <2> QED
    BY <1>1, <1>3, <1>9, <1>11, <2>1 DEF TypesOK
<1>14. LoadsAge'
  BY <1>12 DEF LoadsAge
<1>15. AllAtHand'
  <2> SUFFICES ASSUME tierFaults = 0, NEW c \in Containers
               PROVE  AtHand(c)'
    BY <1>1 DEF AllAtHand
  <2>1. AtHand(c)
    BY DEF AllAtHand
  <2>2. \A n \in load[c].names : (Lasts(c, n) /\ load[c].pc # "idle") => Lasts(c, n)'
    <3> SUFFICES ASSUME NEW n \in load[c].names, Lasts(c, n), load[c].pc # "idle"
                 PROVE  memory'[c][n].left > MaxStale - load'[c].took
      BY DEF Lasts
    <3>1. n \in Keys /\ load[c].took \in Nat /\ load[c].took < LoadTime
      <4>1. load[c] \in Load
        BY DEF TypesOK
      <4>2. n \in Keys /\ load[c].took \in Nat
        BY <4>1, KeyNames, TierNumbers DEF Load
      <4> QED
        BY <1>1, <4>2
    <3>2. memory[c][n] \in Entry /\ memory[c][n].left \in Nat
      BY <3>1, MemoryOf DEF TypesOK
    <3>3. memory[c][n].left > MaxStale - load[c].took
      BY DEF Lasts
    <3>4. memory'[c][n].left = IF memory[c][n].left <= 1 THEN 0 ELSE memory[c][n].left - 1
      BY <1>1, <3>1, <3>2 DEF Aged, Gone, Entry
    <3>5. load'[c].took = load[c].took + 1
      BY <1>12
    <3> QED
      BY <3>1, <3>2, <3>3, <3>4, <3>5, TierNumbers
  <2> QED
    BY <1>12, <2>1, <2>2 DEF AtHand
<1>16. WonIsHeld'
  <2> SUFFICES ASSUME tierFaults = 0, NEW n \in Caches
               PROVE  /\ \A c \in Containers : load'[c].won[n] <= claim'[n]
                      /\ \A c, d \in Containers :
                           (load'[c].won[n] > 0 /\ load'[d].won[n] > 0) => c = d
    BY <1>1 DEF WonIsHeld
  <2>1. \A c \in Containers : /\ load[c].won[n] \in Nat /\ load[c].won[n] <= claim[n]
                              /\ load'[c].won[n] = Down1(load[c].won[n])
    <3> SUFFICES ASSUME NEW c \in Containers
                 PROVE  /\ load[c].won[n] \in Nat /\ load[c].won[n] <= claim[n]
                        /\ load'[c].won[n] = Down1(load[c].won[n])
      OBVIOUS
    <3>1. load[c].won[n] \in Nat /\ load[c].won[n] <= claim[n]
      BY TierNumbers DEF WonIsHeld, TypesOK, Load
    <3>2. load[c].pc = "idle" => load[c].won[n] = 0
      BY DEF LoadsAge, LoadAge, Idle, NoneWon
    <3> QED
      BY <1>10, <1>12, <3>1, <3>2
  <2>2. claim[n] \in Nat /\ claim'[n] = Down1(claim[n])
    <3>1. claim[n] \in 0..LockTtl
      BY DEF TypesOK
    <3>2. claim'[n] = Down1(claim[n])
      BY <1>1
    <3> QED
      BY <3>1, <3>2, TierNumbers
  <2>3. \A c \in Containers : load'[c].won[n] <= claim'[n]
    BY <2>1, <2>2 DEF Down1
  <2>4. \A c \in Containers : load'[c].won[n] > 0 => load[c].won[n] > 0
    BY <2>1 DEF Down1
  <2> QED
    BY <2>3, <2>4 DEF WonIsHeld
<1>17. LoadsDecided'
  BY <1>12 DEF LoadsDecided, Decided
<1> QED
  BY <1>4, <1>9, <1>13, <1>14, <1>15, <1>16, <1>17

-----------------------------------------------------------------------------
LEMMA TiersStep == TiersInv /\ [TiersNext]_tierVars => TiersInv'
<1> SUFFICES ASSUME TiersInv, [TiersNext]_tierVars PROVE TiersInv'
  OBVIOUS
<1>1. ASSUME NEW c \in Containers, LoadStep(c) PROVE TiersInv'
  BY <1>1, ReadAppsKeeps, ClaimAppsKeeps, ReadCentersKeeps, ClaimCentersKeeps, QueryKeeps,
     WriteAppsKeeps, WriteCentersKeeps, ReleaseKeeps, ServeKeeps DEF LoadStep
<1>2. ASSUME NEW c \in Containers, Begin(c) \/ QueryFails(c) \/ Recycle(c) PROVE TiersInv'
  BY <1>2, BeginKeeps, QueryFailsKeeps, RecycleKeeps
<1>3. ASSUME EditConfig \/ Tick PROVE TiersInv'
  BY <1>3, EditKeeps, TierTickKeeps
<1>4. ASSUME UNCHANGED tierVars PROVE TiersInv'
  <2>1. \A v : Lag(v)' = Lag(v)
    BY <1>4 DEF Lag, tierVars
  <2> QED
    BY <1>4, <2>1 DEF tierVars, TiersInv, TypesOK, CurrentIsNew, MemoryAge, SharedAge, LoadsAge,
                      LoadAge, AllAtHand, AtHand, Lasts, WonIsHeld, LoadsDecided, Decided
<1> QED
  BY <1>1, <1>2, <1>3, <1>4 DEF TiersNext

(* No value is served later than ServedBound after it was replaced,        *)
(* whatever fails and however the loads of the containers overlap.         *)
(* Aurora is asked only for what Valkey lacks or a claim was granted for;  *)
(* while nothing fails no message lacks a centre and no two containers     *)
(* hold a claim to one cache: _load_config on ConfigCache and              *)
(* ValkeyConfigCache.                                                      *)
THEOREM OldValuesEnd == TiersSpec => []TiersSafety
<1>1. TiersInit => TiersInv
  BY TiersInitially
<1>2. TiersInv /\ [TiersNext]_tierVars => TiersInv'
  BY TiersStep
<1>3. TiersInv => TiersSafety
  BY InvIsSafe
<1> QED
  BY <1>1, <1>2, <1>3, PTL DEF TiersSpec
=============================================================================
