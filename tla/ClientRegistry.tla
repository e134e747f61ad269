--------------------------- MODULE ClientRegistry ---------------------------
(***************************************************************************)
(* The client presence registry: the Valkey keys that say where every      *)
(* client is and on which WebSocket it can be reached, and the Lambdas     *)
(* that share them.                                                        *)
(*                                                                         *)
(*   location-api        upserts geo index, client hash and expiry         *)
(*   ws-connect          registers a connection under its client           *)
(*   ws-disconnect       removes it                                        *)
(*   expiration-cleanup  reaps clients whose expiry has passed             *)
(*   radius-broadcaster  posts to registered connections, and unregisters  *)
(*                       those API Gateway reports gone                    *)
(*                                                                         *)
(* One action is one Valkey command (a Lua script counts as one), one call *)
(* to API Gateway, or one event of API Gateway.  Every Lambda invocation   *)
(* interleaves with every other between its commands.  One application is  *)
(* modelled: every key but the connection lookup carries the app_id, and   *)
(* connection ids are unique.                                              *)
(***************************************************************************)
EXTENDS Integers

CONSTANTS
  Clients,       \* client ids of the application
  Conns,         \* API Gateway connection ids; an id is never reused
  Cleaners,      \* concurrent invocations of expiration-cleanup
  Broadcasters,  \* concurrent radius broadcasts
  NoConn,        \* "no ws_connection_id field"
  NoClient,      \* "no client"
  TTL,           \* LOCATION_TTL_SECONDS, in clock ticks
  MaxTime,       \* bound: the clock stops here
  MaxPosts,      \* bound: location requests received in a behaviour
  MaxFaults      \* bound: failed commands and lost events in a behaviour

ASSUME ConstantsAssumption ==
  /\ NoConn \notin Conns /\ NoClient \notin Clients
  /\ TTL \in Nat /\ MaxTime \in Nat /\ MaxPosts \in Nat /\ MaxFaults \in Nat

VARIABLES
  now,         \* Date.now()
  geo,         \* geo:clients
  hash,        \* client:<id>: has location fields?, ws_connection_id
  expires,     \* expires:clients: the score, NoScore when not a member
  lookup,      \* ws:connection:<id>: the client it names
  inflight,    \* location requests received and not yet written: expiry times
  posts,       \* number of location requests received so far
  socket,      \* API Gateway's view of each connection
  owner,       \* the client_id each connection was opened with
  connect,     \* $connect invocation of each connection
  disconnect,  \* $disconnect event and invocation of each connection
  cleaner,     \* expiration-cleanup invocations
  caster,      \* radius broadcasts
  faults,      \* failures so far
  raced        \* history: clients whose last upsert overlapped their reaping

valkey  == <<geo, hash, expires, lookup>>
gateway == <<socket, owner>>
vars == <<now, geo, hash, expires, lookup, inflight, posts, socket, owner,
          connect, disconnect, cleaner, caster, faults, raced>>

NoScore == -1
Time    == 0..MaxTime
Score   == Time \cup {NoScore}

(* An expiry pass is past its ZSCORE recheck of a client in these states.  *)
Reaping == {"hmget", "close", "delLookup", "delHash", "zremGeo", "zremExpires"}

IsReaping(k, cl) == cleaner[k].pc \in Reaping /\ cleaner[k].cur = cl

IdleConnect    == [pc |-> "idle", existing |-> NoConn]
IdleDisconnect == [pc |-> "none", mapping |-> NoClient]
IdleCleaner    == [pc |-> "idle", cutoff |-> 0, todo |-> {},
                   cur |-> NoClient, ws |-> NoConn]
IdleCaster     == [pc |-> "idle", ids |-> {}, targets |-> {}, gone |-> {}]

ClockOK ==
  /\ now \in Time
  /\ inflight \in [Clients -> SUBSET Time]
  /\ posts \in 0..MaxPosts
  /\ raced \subseteq Clients

ValkeyOK ==
  /\ geo \subseteq Clients
  /\ hash \in [Clients -> [loc : BOOLEAN, ws : Conns \cup {NoConn}]]
  /\ expires \in [Clients -> Score]
  /\ lookup \in [Conns -> Clients \cup {NoClient}]

GatewayOK ==
  /\ socket \in [Conns -> {"none", "opening", "open", "closed"}]
  /\ owner \in [Conns -> Clients \cup {NoClient}]

ConnectOK ==
  connect \in [Conns ->
    [pc : {"idle", "read", "close", "hset", "set", "reply", "done"},
     existing : Conns \cup {NoConn}]]

DisconnectOK ==
  disconnect \in [Conns ->
    [pc : {"none", "event", "clear", "del", "done"},
     mapping : Clients \cup {NoClient}]]

CleanerOK ==
  cleaner \in [Cleaners ->
    [pc : {"idle", "scan", "pick"} \cup Reaping, cutoff : Time,
     todo : SUBSET Clients, cur : Clients \cup {NoClient},
     ws : Conns \cup {NoConn}]]

Target == Clients \X Conns   \* a nearby client and its connection

CasterOK ==
  caster \in [Broadcasters ->
    [pc : {"idle", "fetch", "post"}, ids : SUBSET Clients,
     targets : SUBSET Target, gone : SUBSET Target]]

FaultsOK == faults \in 0..MaxFaults

TypeOK ==
  /\ ClockOK /\ ValkeyOK /\ GatewayOK /\ ConnectOK /\ DisconnectOK
  /\ CleanerOK /\ CasterOK /\ FaultsOK

Init ==
  /\ now = 0
  /\ geo = {}
  /\ hash = [cl \in Clients |-> [loc |-> FALSE, ws |-> NoConn]]
  /\ expires = [cl \in Clients |-> NoScore]
  /\ lookup = [c \in Conns |-> NoClient]
  /\ inflight = [cl \in Clients |-> {}]
  /\ posts = 0
  /\ socket = [c \in Conns |-> "none"]
  /\ owner = [c \in Conns |-> NoClient]
  /\ connect = [c \in Conns |-> IdleConnect]
  /\ disconnect = [c \in Conns |-> IdleDisconnect]
  /\ cleaner = [k \in Cleaners |-> IdleCleaner]
  /\ caster = [b \in Broadcasters |-> IdleCaster]
  /\ faults = 0
  /\ raced = {}

Fault == faults < MaxFaults /\ faults' = faults + 1

-----------------------------------------------------------------------------
(* location-api                                                            *)

(* A request is answered or abandoned long before its own expiry.          *)
Tick ==
  /\ now < MaxTime /\ \A cl \in Clients : now + 1 \notin inflight[cl]
  /\ now' = now + 1
  /\ UNCHANGED <<valkey, inflight, posts, gateway, connect, disconnect,
                 cleaner, caster, faults, raced>>

(* A POST /v1/clients/location/update arrives; the expiry is computed from *)
(* the clock before the write is queued.                                   *)
ReceiveLocation(cl) ==
  /\ posts < MaxPosts /\ now + TTL <= MaxTime
  /\ posts' = posts + 1
  /\ inflight' = [inflight EXCEPT ![cl] = @ \cup {now + TTL}]
  /\ UNCHANGED <<now, valkey, gateway, connect, disconnect, cleaner, caster,
                 faults, raced>>

(* UPSERT_CLIENT_LOCATION_LUA: GEOADD, ZADD and HSET in one script.  The   *)
(* ws_ fields of the hash are left as they are.                            *)
UpsertClientLocation(cl, e) ==
  /\ e \in inflight[cl]
  /\ inflight' = [inflight EXCEPT ![cl] = @ \ {e}]
  /\ geo' = geo \cup {cl}
  /\ expires' = [expires EXCEPT ![cl] = e]
  /\ hash' = [hash EXCEPT ![cl].loc = TRUE]
  /\ raced' = IF \E k \in Cleaners : IsReaping(k, cl)
              THEN raced \cup {cl} ELSE raced \ {cl}
  /\ UNCHANGED <<now, lookup, posts, gateway, connect, disconnect, cleaner,
                 caster, faults>>

(* The request fails before Valkey runs the script: 500 or 503.            *)
LocationFails(cl, e) ==
  /\ e \in inflight[cl] /\ Fault
  /\ inflight' = [inflight EXCEPT ![cl] = @ \ {e}]
  /\ UNCHANGED <<now, valkey, posts, gateway, connect, disconnect, cleaner,
                 caster, raced>>

-----------------------------------------------------------------------------
(* API Gateway                                                             *)

(* A client opens a socket: the $connect route is invoked, and the         *)
(* connection exists for API Gateway only once the handler answers 200.    *)
OpenSocket(c, cl) ==
  /\ socket[c] = "none"
  /\ socket' = [socket EXCEPT ![c] = "opening"]
  /\ owner' = [owner EXCEPT ![c] = cl]
  /\ connect' = [connect EXCEPT ![c].pc = "read"]
  /\ UNCHANGED <<now, valkey, inflight, posts, disconnect, cleaner, caster,
                 faults, raced>>

(* A socket that was open is gone; the $disconnect route will be invoked.  *)
Closed(c) ==
  /\ socket' = [socket EXCEPT ![c] = "closed"]
  /\ disconnect' = [disconnect EXCEPT ![c].pc = "event"]

ClientCloses(c) ==
  /\ socket[c] = "open"
  /\ Closed(c)
  /\ UNCHANGED <<now, valkey, inflight, posts, owner, connect, cleaner, caster,
                 faults, raced>>

(* DeleteConnection: closes an open connection; answers Gone for one that  *)
(* is closed or not established yet, which its callers ignore; or fails,   *)
(* which they only log.                                                    *)
DeleteConnection(c) ==
  \/ /\ socket[c] = "open"
     /\ Closed(c)
     /\ UNCHANGED faults
  \/ /\ socket[c] # "open"
     /\ UNCHANGED <<socket, disconnect, faults>>
  \/ /\ Fault
     /\ UNCHANGED <<socket, disconnect>>

(* $disconnect is delivered at most once.                                  *)
DisconnectEventLost(c) ==
  /\ disconnect[c].pc = "event" /\ Fault
  /\ disconnect' = [disconnect EXCEPT ![c].pc = "done"]
  /\ UNCHANGED <<now, valkey, inflight, posts, gateway, connect, cleaner, caster,
                 raced>>

(* Mutant: the lookup's EX is shorter than the life of a connection.       *)
MutShortLookup(c) ==
  /\ connect[c].pc = "done" /\ lookup[c] # NoClient
  /\ lookup' = [lookup EXCEPT ![c] = NoClient]
  /\ UNCHANGED <<now, geo, hash, expires, inflight, posts, gateway, connect,
                 disconnect, cleaner, caster, faults, raced>>

(* The lookup is SET with EX 86400: a day, when API Gateway keeps no        *)
(* connection open for more than two hours, so the entry outlives the      *)
(* connection and the handling of its $disconnect.                         *)
LookupExpires(c) ==
  /\ socket[c] = "closed" /\ disconnect[c].pc \in {"none", "done"}
  /\ lookup[c] # NoClient
  /\ lookup' = [lookup EXCEPT ![c] = NoClient]
  /\ UNCHANGED <<now, geo, hash, expires, inflight, posts, gateway, connect,
                 disconnect, cleaner, caster, faults, raced>>

-----------------------------------------------------------------------------
(* ws-connect                                                              *)

GetExistingWsConnection(c) ==
  /\ connect[c].pc = "read"
  /\ connect' = [connect EXCEPT ![c] =
                   [pc |-> "close", existing |-> hash[owner[c]].ws]]
  /\ UNCHANGED <<now, valkey, inflight, posts, gateway, disconnect, cleaner,
                 caster, faults, raced>>

CloseExistingConnectionIfAny(c) ==
  /\ connect[c].pc = "close"
  /\ \/ /\ connect[c].existing \in {NoConn, c}
        /\ UNCHANGED <<socket, disconnect, faults>>
     \/ /\ connect[c].existing \notin {NoConn, c}
        /\ DeleteConnection(connect[c].existing)
  /\ connect' = [connect EXCEPT ![c] = [pc |-> "hset", existing |-> NoConn]]
  /\ UNCHANGED <<now, valkey, inflight, posts, owner, cleaner, caster, raced>>

(* Mutant: the handler answers without writing the lookup.                 *)
MutNoLookup(c) ==
  /\ connect[c].pc = "hset"
  /\ hash' = [hash EXCEPT ![owner[c]].ws = c]
  /\ connect' = [connect EXCEPT ![c].pc = "reply"]
  /\ UNCHANGED <<now, geo, expires, lookup, inflight, posts, gateway, disconnect,
                 cleaner, caster, faults, raced>>

RegisterConnection(c) ==
  /\ connect[c].pc = "hset"
  /\ hash' = [hash EXCEPT ![owner[c]].ws = c]
  /\ connect' = [connect EXCEPT ![c].pc = "set"]
  /\ UNCHANGED <<now, geo, expires, lookup, inflight, posts, gateway, disconnect,
                 cleaner, caster, faults, raced>>

SetConnectionLookup(c) ==
  /\ connect[c].pc = "set"
  /\ lookup' = [lookup EXCEPT ![c] = owner[c]]
  /\ connect' = [connect EXCEPT ![c].pc = "reply"]
  /\ UNCHANGED <<now, geo, hash, expires, inflight, posts, gateway, disconnect,
                 cleaner, caster, faults, raced>>

ConnectReplies(c) ==
  /\ connect[c].pc = "reply"
  /\ socket' = [socket EXCEPT ![c] = "open"]
  /\ connect' = [connect EXCEPT ![c].pc = "done"]
  /\ UNCHANGED <<now, valkey, inflight, posts, owner, disconnect, cleaner,
                 caster, faults, raced>>

(* A command fails or times out, before or after it took effect: the       *)
(* handler answers 500, API Gateway refuses the connection and sends no    *)
(* $disconnect.  What was written stays.                                   *)
ConnectFails(c) ==
  /\ connect[c].pc \in {"read", "close", "hset", "set", "reply"} /\ Fault
  /\ socket' = [socket EXCEPT ![c] = "closed"]
  /\ connect' = [connect EXCEPT ![c] = [pc |-> "done", existing |-> NoConn]]
  /\ UNCHANGED <<now, valkey, inflight, posts, owner, disconnect, cleaner,
                 caster, raced>>

-----------------------------------------------------------------------------
(* ws-disconnect                                                           *)

(* Mutant: an unconditional HDEL.                                          *)
MutClearWsInfo(cl, c) == hash' = [hash EXCEPT ![cl].ws = NoConn]

(* The HGET-compare-HDEL script ws-disconnect and the broadcaster share.   *)
ClearWsInfoIfSameConnection(cl, c) ==
  hash' = IF hash[cl].ws = c THEN [hash EXCEPT ![cl].ws = NoConn] ELSE hash

GetConnectionLookup(c) ==
  /\ disconnect[c].pc = "event"
  /\ disconnect' = [disconnect EXCEPT ![c] =
       [pc |-> IF lookup[c] = NoClient THEN "del" ELSE "clear",
        mapping |-> lookup[c]]]
  /\ UNCHANGED <<now, valkey, inflight, posts, gateway, connect, cleaner, caster,
                 faults, raced>>

UnregisterConnection(c) ==
  /\ disconnect[c].pc = "clear"
  /\ ClearWsInfoIfSameConnection(disconnect[c].mapping, c)
  /\ disconnect' = [disconnect EXCEPT ![c] = [pc |-> "del", mapping |-> NoClient]]
  /\ UNCHANGED <<now, geo, expires, lookup, inflight, posts, gateway, connect,
                 cleaner, caster, faults, raced>>

DeleteConnectionLookup(c) ==
  /\ disconnect[c].pc = "del"
  /\ lookup' = [lookup EXCEPT ![c] = NoClient]
  /\ disconnect' = [disconnect EXCEPT ![c].pc = "done"]
  /\ UNCHANGED <<now, geo, hash, expires, inflight, posts, gateway, connect,
                 cleaner, caster, faults, raced>>

DisconnectFails(c) ==
  /\ disconnect[c].pc \in {"clear", "del"} /\ Fault
  /\ disconnect' = [disconnect EXCEPT ![c] = [pc |-> "done", mapping |-> NoClient]]
  /\ UNCHANGED <<now, valkey, inflight, posts, gateway, connect, cleaner, caster,
                 raced>>

-----------------------------------------------------------------------------
(* expiration-cleanup                                                      *)

StartCleanup(k) ==
  /\ cleaner[k].pc = "idle"
  /\ cleaner' = [cleaner EXCEPT ![k].pc = "scan", ![k].cutoff = now]
  /\ UNCHANGED <<now, valkey, inflight, posts, gateway, connect, disconnect,
                 caster, faults, raced>>

ScanExpired(k) ==
  /\ cleaner[k].pc = "scan"
  /\ cleaner' = [cleaner EXCEPT ![k].pc = "pick", ![k].todo =
       {cl \in Clients : expires[cl] # NoScore /\ expires[cl] <= cleaner[k].cutoff}]
  /\ UNCHANGED <<now, valkey, inflight, posts, gateway, connect, disconnect,
                 caster, faults, raced>>

(* Mutants: the recheck only looks for a score; the comparison is reversed. *)
MutNoRecheck(k, cl)  == expires[cl] # NoScore
MutRecheckReversed(k, cl) == expires[cl] # NoScore /\ expires[cl] >= cleaner[k].cutoff

StillExpired(k, cl) ==
  expires[cl] # NoScore /\ expires[cl] <= cleaner[k].cutoff

(* Step 0 of cleanupExpiredClient, the guard against a fresh update.       *)
RecheckScore(k, cl) ==
  /\ cleaner[k].pc = "pick" /\ cl \in cleaner[k].todo
  /\ cleaner' = [cleaner EXCEPT
       ![k].todo = @ \ {cl},
       ![k].pc   = IF StillExpired(k, cl) THEN "hmget" ELSE "pick",
       ![k].cur  = IF StillExpired(k, cl) THEN cl ELSE NoClient]
  /\ UNCHANGED <<now, valkey, inflight, posts, gateway, connect, disconnect,
                 caster, faults, raced>>

ReadWsFields(k) ==
  /\ cleaner[k].pc = "hmget"
  /\ LET ws == hash[cleaner[k].cur].ws IN
     cleaner' = [cleaner EXCEPT ![k].ws = ws,
                   ![k].pc = IF ws = NoConn THEN "delHash" ELSE "close"]
  /\ UNCHANGED <<now, valkey, inflight, posts, gateway, connect, disconnect,
                 caster, faults, raced>>

CloseWsConnection(k) ==
  /\ cleaner[k].pc = "close"
  /\ DeleteConnection(cleaner[k].ws)
  /\ cleaner' = [cleaner EXCEPT ![k].pc = "delLookup"]
  /\ UNCHANGED <<now, valkey, inflight, posts, owner, connect, caster, raced>>

DelLookup(k) ==
  /\ cleaner[k].pc = "delLookup"
  /\ lookup' = [lookup EXCEPT ![cleaner[k].ws] = NoClient]
  /\ cleaner' = [cleaner EXCEPT ![k].pc = "delHash"]
  /\ UNCHANGED <<now, geo, hash, expires, inflight, posts, gateway, connect,
                 disconnect, caster, faults, raced>>

(* Mutant: only the location fields are deleted.                           *)
MutDelLocationFields(k) ==
  /\ cleaner[k].pc = "delHash"
  /\ hash' = [hash EXCEPT ![cleaner[k].cur].loc = FALSE]
  /\ cleaner' = [cleaner EXCEPT ![k].pc = "zremGeo", ![k].ws = NoConn]
  /\ UNCHANGED <<now, geo, expires, lookup, inflight, posts, gateway, connect,
                 disconnect, caster, faults, raced>>

DelHash(k) ==
  /\ cleaner[k].pc = "delHash"
  /\ hash' = [hash EXCEPT ![cleaner[k].cur] = [loc |-> FALSE, ws |-> NoConn]]
  /\ cleaner' = [cleaner EXCEPT ![k].pc = "zremGeo", ![k].ws = NoConn]
  /\ UNCHANGED <<now, geo, expires, lookup, inflight, posts, gateway, connect,
                 disconnect, caster, faults, raced>>

(* Mutant: the expiry goes before the geo entry.                           *)
MutZremExpiresFirst(k) ==
  /\ cleaner[k].pc = "zremGeo"
  /\ expires' = [expires EXCEPT ![cleaner[k].cur] = NoScore]
  /\ cleaner' = [cleaner EXCEPT ![k].pc = "zremExpires"]
  /\ UNCHANGED <<now, geo, hash, lookup, inflight, posts, gateway, connect,
                 disconnect, caster, faults, raced>>

ZremGeo(k) ==
  /\ cleaner[k].pc = "zremGeo"
  /\ geo' = geo \ {cleaner[k].cur}
  /\ cleaner' = [cleaner EXCEPT ![k].pc = "zremExpires"]
  /\ UNCHANGED <<now, hash, expires, lookup, inflight, posts, gateway, connect,
                 disconnect, caster, faults, raced>>

NextClient(k) ==
  cleaner' = [cleaner EXCEPT ![k].pc = "pick", ![k].cur = NoClient, ![k].ws = NoConn]

ZremExpires(k) ==
  /\ cleaner[k].pc = "zremExpires"
  /\ expires' = [expires EXCEPT ![cleaner[k].cur] = NoScore]
  /\ NextClient(k)
  /\ UNCHANGED <<now, geo, hash, lookup, inflight, posts, gateway, connect,
                 disconnect, caster, faults, raced>>

(* A command of one client fails: it is logged and the next one is tried.  *)
ClientCleanupFails(k) ==
  /\ cleaner[k].pc \in Reaping /\ Fault
  /\ NextClient(k)
  /\ UNCHANGED <<now, valkey, inflight, posts, gateway, connect, disconnect,
                 caster, raced>>

EndCleanup(k) ==
  /\ cleaner[k].pc = "pick" /\ cleaner[k].todo = {}
  /\ cleaner' = [cleaner EXCEPT ![k] = IdleCleaner]
  /\ UNCHANGED <<now, valkey, inflight, posts, gateway, connect, disconnect,
                 caster, faults, raced>>

(* The scan fails, or the Lambda is killed at its 60 s timeout.            *)
CleanupDies(k) ==
  /\ cleaner[k].pc # "idle" /\ Fault
  /\ cleaner' = [cleaner EXCEPT ![k] = IdleCleaner]
  /\ UNCHANGED <<now, valkey, inflight, posts, gateway, connect, disconnect,
                 caster, raced>>

-----------------------------------------------------------------------------
(* radius-broadcaster.ts and radius_broadcaster.py                         *)

(* NEARBY_WS_CLIENTS_LUA: which clients are within the radius and the      *)
(* limit is left open; their connections are read in the same script.      *)
FindNearbyWsClients(b) ==
  /\ caster[b].pc = "idle"
  /\ \E near \in SUBSET geo :
       LET found == {t \in near \X Conns : hash[t[1]].ws = t[2]} IN
       /\ found # {}
       /\ caster' = [caster EXCEPT ![b].pc = "post", ![b].targets = found]
  /\ UNCHANGED <<now, valkey, inflight, posts, gateway, connect, disconnect,
                 cleaner, faults, raced>>

(* The Python broadcaster searches first, then reads each connection in a  *)
(* pipeline that is not a transaction.                                     *)
GeoSearch(b) ==
  /\ caster[b].pc = "idle"
  /\ \E near \in SUBSET geo :
       /\ near # {}
       /\ caster' = [caster EXCEPT ![b].pc = "fetch", ![b].ids = near]
  /\ UNCHANGED <<now, valkey, inflight, posts, gateway, connect, disconnect,
                 cleaner, faults, raced>>

FetchConnection(b, cl) ==
  /\ caster[b].pc = "fetch" /\ cl \in caster[b].ids
  /\ caster' = [caster EXCEPT
       ![b].ids = @ \ {cl},
       ![b].pc = IF caster[b].ids = {cl} THEN "post" ELSE "fetch",
       ![b].targets = @ \cup {t \in {cl} \X Conns : hash[cl].ws = t[2]}]
  /\ UNCHANGED <<now, valkey, inflight, posts, gateway, connect, disconnect,
                 cleaner, faults, raced>>

(* PostToConnection, the retry on a fresh HTTP connection included.  The   *)
(* post is delivered, fails for another reason, or is answered Gone, which *)
(* API Gateway does for every connection that is not open.                 *)
PostToConnection(b, t) ==
  /\ caster[b].pc = "post" /\ t \in caster[b].targets
  /\ \/ caster' = [caster EXCEPT ![b].targets = @ \ {t}]
     \/ /\ socket[t[2]] # "open"
        /\ caster' = [caster EXCEPT ![b].targets = @ \ {t}, ![b].gone = @ \cup {t}]
  /\ UNCHANGED <<now, valkey, inflight, posts, gateway, connect, disconnect,
                 cleaner, faults, raced>>

(* Gone connections are cleared once every post has been answered.         *)
ClearGone(b, t) ==
  /\ caster[b].pc = "post" /\ caster[b].targets = {} /\ t \in caster[b].gone
  /\ ClearWsInfoIfSameConnection(t[1], t[2])
  /\ caster' = [caster EXCEPT ![b].gone = @ \ {t}]
  /\ UNCHANGED <<now, geo, expires, lookup, inflight, posts, gateway, connect,
                 disconnect, cleaner, faults, raced>>

ClearGoneFails(b, t) ==
  /\ caster[b].pc = "post" /\ caster[b].targets = {} /\ t \in caster[b].gone
  /\ Fault
  /\ caster' = [caster EXCEPT ![b].gone = @ \ {t}]
  /\ UNCHANGED <<now, valkey, inflight, posts, gateway, connect, disconnect,
                 cleaner, raced>>

EndBroadcast(b) ==
  /\ caster[b].pc = "post" /\ caster[b].targets = {} /\ caster[b].gone = {}
  /\ caster' = [caster EXCEPT ![b] = IdleCaster]
  /\ UNCHANGED <<now, valkey, inflight, posts, gateway, connect, disconnect,
                 cleaner, faults, raced>>

-----------------------------------------------------------------------------
LocationStep(cl) ==
  \/ ReceiveLocation(cl)
  \/ \E e \in inflight[cl] : UpsertClientLocation(cl, e) \/ LocationFails(cl, e)

ConnectStep(c) ==
  \/ GetExistingWsConnection(c) \/ CloseExistingConnectionIfAny(c)
  \/ RegisterConnection(c) \/ SetConnectionLookup(c) \/ ConnectReplies(c)

DisconnectStep(c) ==
  \/ GetConnectionLookup(c) \/ UnregisterConnection(c)
  \/ DeleteConnectionLookup(c)

GatewayStep(c) ==
  \/ \E cl \in Clients : OpenSocket(c, cl)
  \/ ClientCloses(c) \/ DisconnectEventLost(c) \/ LookupExpires(c)
  \/ ConnectFails(c) \/ DisconnectFails(c)

CleanupStep(k) ==
  \/ StartCleanup(k) \/ ScanExpired(k)
  \/ \E cl \in cleaner[k].todo : RecheckScore(k, cl)
  \/ ReadWsFields(k) \/ CloseWsConnection(k) \/ DelLookup(k) \/ DelHash(k)
  \/ ZremGeo(k) \/ ZremExpires(k) \/ EndCleanup(k)

BroadcastStep(b) ==
  \/ FindNearbyWsClients(b) \/ GeoSearch(b)
  \/ \E cl \in caster[b].ids : FetchConnection(b, cl)
  \/ \E t \in caster[b].targets : PostToConnection(b, t)
  \/ \E t \in caster[b].gone : ClearGone(b, t) \/ ClearGoneFails(b, t)
  \/ EndBroadcast(b)

Next ==
  \/ Tick
  \/ \E cl \in Clients : LocationStep(cl)
  \/ \E c \in Conns : ConnectStep(c) \/ DisconnectStep(c) \/ GatewayStep(c)
  \/ \E k \in Cleaners : CleanupStep(k) \/ ClientCleanupFails(k) \/ CleanupDies(k)
  \/ \E b \in Broadcasters : BroadcastStep(b)

Spec == Init /\ [][Next]_vars

(* Time passes, a Lambda that has been invoked runs on to its answer, and  *)
(* the schedule keeps starting clean-up passes.  Nothing is assumed of     *)
(* clients, broadcasts or failures.                                        *)
Fairness ==
  /\ WF_vars(Tick)
  /\ \A cl \in Clients :
       WF_vars(\E e \in inflight[cl] :
                 UpsertClientLocation(cl, e) \/ LocationFails(cl, e))
  /\ \A c \in Conns : WF_vars(ConnectStep(c)) /\ WF_vars(DisconnectStep(c))
  /\ \A k \in Cleaners : WF_vars(CleanupStep(k))

FairSpec == Spec /\ Fairness
-----------------------------------------------------------------------------
(* PROPERTIES                                                              *)

(* The expiry entry is the last thing a clean-up pass removes, so that a   *)
(* pass that fails half way is retried by the next one: a client still in  *)
(* the geo index, or with location fields, has an expiry - unless it was   *)
(* upserted while it was being reaped (expiration-cleanup, step 5).        *)
ExpiryOutlivesIndex ==
  \A cl \in Clients \ raced :
    (cl \in geo \/ hash[cl].loc) => expires[cl] # NoScore

(* The registry is well formed, and nobody in its index is out of reach of *)
(* the next pass.                                                          *)
IndexSafety == TypeOK /\ ExpiryOutlivesIndex

(* While nothing fails, $disconnect can find what it has to remove: the    *)
(* registration of an open connection has its lookup, or a clean-up pass   *)
(* has deleted the lookup and is about to delete the registration.         *)
RegistrationFindable ==
  faults = 0 =>
    \A cl \in Clients, c \in Conns :
      (hash[cl].ws = c /\ socket[c] = "open") =>
        \/ lookup[c] = cl
        \/ \E k \in Cleaners : /\ cleaner[k].pc = "delHash"
                              /\ cleaner[k].cur = cl /\ cleaner[k].ws = c

(* The registration of an open connection is never wiped by the late       *)
(* clean-up of another one: only reaping the client, or a broadcast that   *)
(* API Gateway told this very connection is gone, takes it away            *)
(* (ws-disconnect, radius-broadcaster: "a reconnect ... cannot be wiped"). *)
ReconnectNotWiped ==
  [][\A cl \in Clients, c \in Conns :
       (hash[cl].ws = c /\ socket[c] = "open" /\ hash'[cl].ws = NoConn) =>
         \/ \E k \in Cleaners : IsReaping(k, cl)
         \/ \E b \in Broadcasters : <<cl, c>> \in caster[b].gone]_vars

(* What the recheck in cleanupExpiredClient achieves: a client whose       *)
(* expiry is in the future loses neither its place in the geo index nor    *)
(* its hash, unless the update that made it fresh came after the recheck.  *)
FreshClientKept ==
  [][\A cl \in Clients \ raced :
       expires[cl] > now => /\ cl \in geo => cl \in geo'
                            /\ hash[cl].loc => hash'[cl].loc]_vars

(* The same of everything the registry keeps of a client, failures of the  *)
(* clean-up included, except for a client upserted while being reaped.     *)
Known(cl) == cl \in geo \/ hash[cl].loc \/ expires[cl] # NoScore

ReapedUnlessRaced ==
  \A cl \in Clients : (Known(cl) /\ cl \notin raced) ~>
                      (~Known(cl) \/ cl \in raced)

Registered(c) == \E cl \in Clients : hash[cl].ws = c

(* While nothing fails, a connection that closed does not stay registered, *)
(* in whatever order connects, disconnects, reaping and broadcasts run.    *)
ClosedUnregistered ==
  \A c \in Conns :
    (socket[c] = "closed" /\ Registered(c)) ~> (~Registered(c) \/ faults > 0)

(* With failures and lost $disconnect events, the expiry is the backstop:  *)
(* a dead registration of a client that has one goes when it is reaped - a *)
(* pass that is already reaping the client may have read the hash before.  *)
DeadRegistration(c) ==
  /\ socket[c] = "closed"
  /\ \E cl \in Clients \ raced :
       /\ hash[cl].ws = c /\ expires[cl] # NoScore
       /\ \A k \in Cleaners : ~IsReaping(k, cl)

DeadRegistrationReaped ==
  \A c \in Conns :
    DeadRegistration(c) ~> (~Registered(c) \/ \E cl \in raced : hash[cl].ws = c)

=============================================================================
