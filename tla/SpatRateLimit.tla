----------------------------- MODULE SpatRateLimit -----------------------------
(***************************************************************************)
(* functions/spat-sns-consumer: of the SPaT messages of a sensor (10 Hz),  *)
(* two a second are broadcast.  The capture time of the last that passed   *)
(* is in Valkey; one Lua script compares with it and replaces it.          *)
(*                                                                         *)
(* A tick is a message period (100 ms).  Times are relative to now.        *)
(***************************************************************************)
EXTENDS Integers

CONSTANTS
  MinInterval,   \* _SPAT_MIN_INTERVAL_S
  TsTtl,         \* _SPAT_TS_TTL_SECONDS
  Lateness,      \* how late SNS may deliver a message
  ClockJump,     \* how far ahead a sensor's clock may be
  Jumps,         \* bound: messages with a wrong time
  RateFaults     \* bound: failing scripts

ASSUME RateConstants ==
  /\ {MinInterval, TsTtl, Lateness, ClockJump, Jumps, RateFaults} \subseteq Nat
  /\ MinInterval > 0 /\ Lateness + MinInterval <= TsTtl

VARIABLES
  last,      \* Valkey: the capture time of the message that passed last
  ttl,       \* and how long that will be kept
  passed,    \* history: capture times that passed, as long as they matter
  silence,   \* history: time since a message has passed
  heard,     \* the message of this tick has been handled
  jumps, rateFaults

rateVars == <<last, ttl, passed, silence, heard, jumps, rateFaults>>

Oldest  == -(Lateness + MinInterval)
NoTime  == Oldest - 1
MaxWait == TsTtl + 1

RateTypeOK ==
  /\ last \in NoTime..ClockJump /\ ttl \in 0..TsTtl /\ (last = NoTime <=> ttl = 0)
  /\ passed \subseteq Oldest..ClockJump /\ silence \in 0..MaxWait /\ heard \in BOOLEAN
  /\ jumps \in 0..Jumps /\ rateFaults \in 0..RateFaults

RateInit ==
  /\ last = NoTime /\ ttl = 0 /\ passed = {} /\ silence = 0 /\ heard = FALSE
  /\ jumps = 0 /\ rateFaults = 0

(* Mutant: a message that is held back starts the interval anew.           *)
MutShouldPass(ts) ==
  /\ last' = ts /\ ttl' = TsTtl
  /\ IF last = NoTime \/ ts - last >= MinInterval
     THEN passed' = passed \cup {ts} /\ silence' = 0
     ELSE UNCHANGED <<passed, silence>>

(* _should_pass: the script is atomic.                                     *)
ShouldPass(ts) ==
  IF last = NoTime \/ ts - last >= MinInterval
  THEN last' = ts /\ ttl' = TsTtl /\ passed' = passed \cup {ts} /\ silence' = 0
  ELSE UNCHANGED <<last, ttl, passed, silence>>

(* The message of this tick, or a late one; SNS may deliver it twice.      *)
DeliverSpat(ts) ==
  /\ ShouldPass(ts)
  /\ heard' = (heard \/ ts = 0)
  /\ UNCHANGED <<jumps, rateFaults>>

(* A sensor whose clock is ahead.                                          *)
DeliverJump ==
  /\ jumps < Jumps /\ jumps' = jumps + 1
  /\ ShouldPass(ClockJump)
  /\ UNCHANGED <<heard, rateFaults>>

(* An error lets the message pass, and remembers nothing.                  *)
RateCheckFails(ts) ==
  /\ rateFaults < RateFaults /\ rateFaults' = rateFaults + 1
  /\ passed' = passed \cup {ts} /\ silence' = 0
  /\ heard' = (heard \/ ts = 0)
  /\ UNCHANGED <<last, ttl, jumps>>

(* Time passes once the message of the tick has been handled.              *)
RateTick ==
  /\ heard /\ heard' = FALSE
  /\ IF ttl <= 1 THEN last' = NoTime /\ ttl' = 0
     ELSE last' = (IF last = Oldest THEN Oldest ELSE last - 1) /\ ttl' = ttl - 1
  /\ passed' = {p - 1 : p \in passed} \cap Oldest..ClockJump
  /\ silence' = IF silence = MaxWait THEN MaxWait ELSE silence + 1
  /\ UNCHANGED <<jumps, rateFaults>>

RateNext ==
  \/ \E ts \in -Lateness..0 : DeliverSpat(ts) \/ RateCheckFails(ts)
  \/ DeliverJump
  \/ RateTick

RateSpec == RateInit /\ [][RateNext]_rateVars
-----------------------------------------------------------------------------
(* PROPERTIES                                                              *)

(* No two broadcasts of a sensor show it less than the interval apart, in  *)
(* whatever order messages come, and however often (handler.py 3-5).       *)
TwoHertz ==
  (rateFaults = 0 /\ jumps = 0) =>
    \A p, q \in passed : p # q => (p - q >= MinInterval \/ q - p >= MinInterval)

(* The filter goes on: a late message or a clock that was ahead holds the  *)
(* stream back no longer than its key lives, and otherwise the sensor is   *)
(* shown every interval.                                                   *)
SilenceEnds ==
  /\ heard => silence <= TsTtl
  /\ (heard /\ jumps = 0) => silence < MinInterval

(* Two a second, no more and no fewer.                                     *)
RateSafety == RateTypeOK /\ TwoHertz /\ SilenceEnds
=============================================================================
