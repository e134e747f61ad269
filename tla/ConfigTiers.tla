------------------------------ MODULE ConfigTiers ------------------------------
(***************************************************************************)
(* The configuration behind the two SPaT consumers: which apps want SPaT   *)
(* (one value) and where the intersections are (one value per name).       *)
(* _load_config looks in the container's own memory (ConfigCache), then in *)
(* Valkey, shared by the containers (ValkeyConfigCache), then in Aurora.   *)
(*                                                                         *)
(* A value is the number of the edit of the tables it was read after, so a *)
(* value is old when there has been a later edit; "since" is the time that *)
(* has passed since.  Clocks are countdowns, moved by Tick.                *)
(***************************************************************************)
EXTENDS Integers, FiniteSets

CONSTANTS
  Containers,     \* warm containers of one function
  Names,          \* intersections
  RefreshDelays,  \* ttl_s * [1 - jitter, 1 + jitter]
  MaxStale,       \* grace of the memory tier (ttl_s)
  SharedTtl,      \* ttl_s of the Valkey tier
  HardTtl,        \* what Valkey keeps a value for
  LockTtl,        \* what a claim lasts
  LoadTime,       \* what a message may take (the Lambda's timeout)
  Edits,          \* bound: edits of apps and maps
  TierFaults      \* bound: failing calls and containers recycled

ASSUME TierConstants ==
  /\ RefreshDelays \subseteq Nat \ {0}
  /\ \E d \in RefreshDelays : \A e \in RefreshDelays : e <= d
  /\ {MaxStale, SharedTtl, HardTtl, LockTtl, LoadTime} \subseteq Nat \ {0}
  /\ SharedTtl <= HardTtl /\ LoadTime <= MaxStale
  /\ Edits \in Nat /\ TierFaults \in Nat /\ IsFiniteSet(Names)

VARIABLES
  edition,    \* edits so far
  since,      \* since[e]: time since edition e was replaced, up to SinceCap
  memory,     \* each container's ConfigCaches
  shared,     \* the values in Valkey
  claim,      \* the refresh locks: time left
  load,       \* what each container is doing
  tierFaults

tierVars == <<edition, since, memory, shared, claim, load, tierFaults>>

NoValue == -1
Caches  == {"app_ids", "map_centers"}
Keys    == {"apps"} \cup Names
CacheOf(k) == IF k = "apps" THEN "app_ids" ELSE "map_centers"

MaxDelay == CHOOSE d \in RefreshDelays : \A e \in RefreshDelays : e <= d

(* The longest a replaced value can still be served: read at the end of    *)
(* its life in Valkey, kept in memory until the end of the grace, and used *)
(* by a load that began just before.                                       *)
ServedBound == LoadTime + HardTtl + MaxDelay + MaxStale + LoadTime
SinceCap    == ServedBound + 1

Entry  == [value : NoValue..Edits, left : 0..(HardTtl + MaxDelay + MaxStale)]
Gone   == [value |-> NoValue, left |-> 0]
Cold   == [k \in Keys |-> Gone]
NoneWon == [n \in Caches |-> 0]

(* won: what is left of the claims the load was granted; why: what it asks *)
(* Aurora for, a cache it claimed or something "absent" from Valkey.       *)
Idle   == [pc |-> "idle", took |-> 0, names |-> {}, apps |-> NoValue, queryApps |-> FALSE,
           todo |-> {}, row |-> NoValue, won |-> NoneWon, why |-> {}]

TiersTypeOK ==
  /\ edition \in 0..Edits /\ since \in [0..Edits -> 0..SinceCap]
  /\ memory \in [Containers -> [Keys -> Entry]] /\ shared \in [Keys -> Entry]
  /\ claim \in [Caches -> 0..LockTtl]
  /\ \A c \in Containers :
       /\ load[c].pc \in {"idle", "apps", "claimApps", "centers", "claimCenters", "query",
                          "writeApps", "writeCenters", "release", "serve"}
       /\ load[c].took \in 0..LoadTime /\ load[c].names \subseteq Names
       /\ load[c].todo \subseteq Names /\ load[c].won \in [Caches -> 0..LockTtl]
       /\ load[c].why \subseteq Caches \cup {"absent"}
  /\ tierFaults \in 0..TierFaults

TiersInit ==
  /\ edition = 0 /\ since = [e \in 0..Edits |-> 0]
  /\ memory = [c \in Containers |-> Cold] /\ shared = Cold
  /\ claim = [n \in Caches |-> 0]
  /\ load = [c \in Containers |-> Idle] /\ tierFaults = 0

TierFault == tierFaults < TierFaults /\ tierFaults' = tierFaults + 1

-----------------------------------------------------------------------------
(* ConfigCache                                                             *)

Fresh(c, k)  == memory[c][k].left > MaxStale
Usable(c, k) == memory[c][k].left > 0

(* put_many: each value draws its own refresh point.                       *)
Put(c, vals) ==
  \E delay \in [DOMAIN vals -> RefreshDelays] :
    memory' = [memory EXCEPT ![c] = [k \in Keys |->
      IF k \in DOMAIN vals THEN [value |-> vals[k], left |-> delay[k] + MaxStale] ELSE @[k]]]

(* ValkeyConfigCache: read_one and read_many                               *)
SharedFresh(k) == shared[k].left > HardTtl - SharedTtl
SharedStale(k) == shared[k].left > 0 /\ ~SharedFresh(k)

-----------------------------------------------------------------------------
(* _load_config                                                            *)

(* Where a load goes once the two Valkey reads are behind it.              *)
Onward(l) == [l EXCEPT !.pc = IF l.queryApps \/ l.todo # {} THEN "query" ELSE "serve"]

(* ... and once the app list is.                                           *)
ToCenters(c, l) ==
  LET missing == {n \in l.names : ~Fresh(c, n)}
  IN IF missing = {} THEN Onward(l) ELSE [l EXCEPT !.pc = "centers", !.todo = missing]

Set(c, l) == load' = [load EXCEPT ![c] = l]

Begin(c) ==
  /\ load[c].pc = "idle"
  /\ \E names \in SUBSET Names \ {{}} :
       LET start == [Idle EXCEPT !.names = names]
       IN Set(c, IF Fresh(c, "apps")
                 THEN ToCenters(c, [start EXCEPT !.apps = memory[c]["apps"].value])
                 ELSE [start EXCEPT !.pc = "apps", !.queryApps = TRUE])
  /\ UNCHANGED <<edition, since, memory, shared, claim, tierFaults>>

(* read_one: fresh is used, stale is used and triggers a claim.            *)
ReadSharedApps(c) ==
  /\ load[c].pc = "apps"
  /\ LET l == load[c]  v == shared["apps"].value IN
     \/ /\ SharedFresh("apps") \/ SharedStale("apps")
        /\ Put(c, [k \in {"apps"} |-> v])
        /\ Set(c, IF SharedFresh("apps")
                  THEN ToCenters(c, [l EXCEPT !.apps = v, !.queryApps = FALSE])
                  ELSE [l EXCEPT !.pc = "claimApps", !.apps = v])
        /\ UNCHANGED tierFaults
     \/ /\ IF shared["apps"].left = 0 THEN UNCHANGED tierFaults ELSE TierFault
        /\ Set(c, ToCenters(c, [l EXCEPT !.why = {"absent"}])) /\ UNCHANGED memory
  /\ UNCHANGED <<edition, since, shared, claim>>

(* Mutant: no NX.                                                          *)
MutClaim(n, won) == won /\ claim' = [claim EXCEPT ![n] = LockTtl] /\ UNCHANGED tierFaults

(* claim_refresh: SET NX EX, and open when Valkey does not answer.         *)
Claim(n, won) ==
  \/ won /\ claim[n] = 0 /\ claim' = [claim EXCEPT ![n] = LockTtl] /\ UNCHANGED tierFaults
  \/ ~won /\ claim[n] > 0 /\ UNCHANGED <<claim, tierFaults>>
  \/ won /\ TierFault /\ UNCHANGED claim

Granted(l, n) == [l EXCEPT !.won[n] = LockTtl, !.why = @ \cup {n}]

ClaimApps(c) ==
  /\ load[c].pc = "claimApps"
  /\ \E won \in BOOLEAN :
       /\ Claim("app_ids", won)
       /\ Set(c, ToCenters(c, IF won THEN Granted(load[c], "app_ids")
                              ELSE [load[c] EXCEPT !.queryApps = FALSE]))
  /\ UNCHANGED <<edition, since, memory, shared>>

(* read_many: what Valkey has goes to memory, stale or not.  What is stale *)
(* is queried with what is absent, or by whoever wins the claim.           *)
ReadSharedCenters(c) ==
  /\ load[c].pc = "centers"
  /\ LET l == load[c] IN
     \E reached \in BOOLEAN :
       LET found == IF reached THEN {n \in l.todo : shared[n].left > 0} ELSE {}
           stale == {n \in found : SharedStale(n)}
       IN /\ IF reached THEN UNCHANGED tierFaults ELSE TierFault
          /\ Put(c, [n \in found |-> shared[n].value])
          /\ Set(c, IF stale # {} /\ found = l.todo
                    THEN [l EXCEPT !.pc = "claimCenters", !.todo = stale]
                    ELSE Onward([l EXCEPT !.todo = (l.todo \ found) \cup stale,
                                          !.why = IF found = l.todo THEN @
                                                  ELSE @ \cup {"absent"}]))
  /\ UNCHANGED <<edition, since, shared, claim>>

ClaimCenters(c) ==
  /\ load[c].pc = "claimCenters"
  /\ \E won \in BOOLEAN :
       /\ Claim("map_centers", won)
       /\ Set(c, Onward(IF won THEN Granted(load[c], "map_centers")
                        ELSE [load[c] EXCEPT !.todo = {}]))
  /\ UNCHANGED <<edition, since, memory, shared>>

(* One statement reads both tables; the app list goes to memory.           *)
Query(c) ==
  /\ load[c].pc = "query"
  /\ Put(c, [k \in {"apps"} |-> edition])
  /\ Set(c, [load[c] EXCEPT !.pc = "writeApps", !.row = edition, !.apps = edition])
  /\ UNCHANGED <<edition, since, shared, claim, tierFaults>>

(* Both attempts failed.                                                   *)
QueryFails(c) ==
  /\ load[c].pc = "query" /\ TierFault
  /\ Set(c, [load[c] EXCEPT !.pc = "release"])
  /\ UNCHANGED <<edition, since, memory, shared, claim>>

WriteShared(c, ks) ==
  \/ /\ shared' = [k \in Keys |-> IF k \in ks THEN [value |-> load[c].row, left |-> HardTtl]
                                  ELSE shared[k]]
     /\ UNCHANGED tierFaults
  \/ TierFault /\ UNCHANGED shared

WriteSharedApps(c) ==
  /\ load[c].pc = "writeApps"
  /\ WriteShared(c, {"apps"})
  /\ Set(c, [load[c] EXCEPT !.pc = "writeCenters"])
  /\ UNCHANGED <<edition, since, memory, claim>>

WriteSharedCenters(c) ==
  /\ load[c].pc = "writeCenters"
  /\ Put(c, [n \in load[c].todo |-> load[c].row])
  /\ WriteShared(c, load[c].todo)
  /\ Set(c, [load[c] EXCEPT !.pc = "serve"])
  /\ UNCHANGED <<edition, since, claim>>

(* release_refresh drops both claims, whoever holds them.  Then the old    *)
(* app list will do, while its grace lasts; after that the load raises.    *)
ReleaseClaims(c) ==
  /\ load[c].pc = "release"
  /\ claim' = [n \in Caches |-> 0]
  /\ Set(c, IF load[c].apps # NoValue THEN [load[c] EXCEPT !.pc = "serve"]
            ELSE IF Usable(c, "apps")
            THEN [load[c] EXCEPT !.pc = "serve", !.apps = memory[c]["apps"].value]
            ELSE Idle)
  /\ UNCHANGED <<edition, since, memory, shared, tierFaults>>

(* The message goes out with the app list of the load, and the centres     *)
(* that memory still has.                                                  *)
Serve(c) ==
  /\ load[c].pc = "serve"
  /\ Set(c, Idle)
  /\ UNCHANGED <<edition, since, memory, shared, claim, tierFaults>>

-----------------------------------------------------------------------------
(* The world                                                               *)

EditConfig ==
  /\ edition < Edits /\ edition' = edition + 1
  /\ UNCHANGED <<since, memory, shared, claim, load, tierFaults>>

Down1(n) == IF n = 0 THEN 0 ELSE n - 1

Aged(e) == IF e.left <= 1 THEN Gone ELSE [e EXCEPT !.left = @ - 1]

(* Lambda ends a load that takes longer than LoadTime: see Recycle.        *)
Tick ==
  /\ \A c \in Containers : load[c].pc # "idle" => load[c].took < LoadTime
  /\ since' = [e \in 0..Edits |-> IF e < edition /\ since[e] < SinceCap THEN since[e] + 1
                                  ELSE since[e]]
  /\ memory' = [c \in Containers |-> [k \in Keys |-> Aged(memory[c][k])]]
  /\ shared' = [k \in Keys |-> Aged(shared[k])]
  /\ claim' = [n \in Caches |-> Down1(claim[n])]
  /\ load' = [c \in Containers |->
       IF load[c].pc = "idle" THEN load[c]
       ELSE [load[c] EXCEPT !.took = @ + 1, !.won = [n \in Caches |-> Down1(@[n])]]]
  /\ UNCHANGED <<edition, tierFaults>>

(* A container is lost, at any point, and a cold one takes its place.      *)
Recycle(c) ==
  /\ TierFault /\ memory[c] # Cold
  /\ memory' = [memory EXCEPT ![c] = Cold]
  /\ Set(c, Idle)
  /\ UNCHANGED <<edition, since, shared, claim>>

-----------------------------------------------------------------------------
LoadStep(c) ==
  \/ ReadSharedApps(c) \/ ClaimApps(c) \/ ReadSharedCenters(c) \/ ClaimCenters(c)
  \/ Query(c) \/ WriteSharedApps(c) \/ WriteSharedCenters(c) \/ ReleaseClaims(c)
  \/ Serve(c)

TiersNext ==
  \/ \E c \in Containers : Begin(c) \/ LoadStep(c) \/ QueryFails(c) \/ Recycle(c)
  \/ EditConfig
  \/ Tick

TiersSpec == TiersInit /\ [][TiersNext]_tierVars
-----------------------------------------------------------------------------
(* PROPERTIES                                                              *)

Lag(v) == IF v = NoValue THEN 0 ELSE since[v]

(* What a message is sent with: the app list, and the centres.             *)
ServedValues(c) ==
  {load[c].apps} \cup {memory[c][n].value : n \in {m \in load[c].names : Usable(c, m)}}

(* No container can be held to an old value (msight_config_cache.py        *)
(* 25-36), nor can two hand it to and fro: whatever fails and however      *)
(* loads overlap, what is served was right ServedBound ago or later.       *)
ServedBounded ==
  \A c \in Containers : load[c].pc = "serve" =>
    \A v \in ServedValues(c) : Lag(v) <= ServedBound

(* While nothing fails, a message goes out with every centre it names: one *)
(* that was fresh when the load began has its grace to last until the end. *)
CentersAtHand ==
  \A c \in Containers : (load[c].pc = "serve" /\ tierFaults = 0) =>
    \A n \in load[c].names : Usable(c, n)

(* A container goes to Aurora only on account of something absent from     *)
(* Valkey or of a claim it was granted; and while nothing fails, no two    *)
(* hold a claim to the same cache (msight_valkey_cache.py 24-28).  This is *)
(* not the one reload per TTL of handler.py 297-298: what is absent is     *)
(* asked for without a claim and takes stale centres along, and each of    *)
(* the two caches has a claim of its own.                                  *)
ReloadsAreClaimed ==
  /\ \A c \in Containers : load[c].pc = "query" => load[c].why # {}
  /\ tierFaults = 0 =>
       \A n \in Caches : Cardinality({c \in Containers : load[c].won[n] > 0}) <= 1

(* How old what is served can be, that it is complete, and who asks Aurora *)
(* for what is stale.                                                      *)
TiersSafety == TiersTypeOK /\ ServedBounded /\ CentersAtHand /\ ReloadsAreClaimed
=============================================================================
