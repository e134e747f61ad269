------------------------ MODULE ClientRegistryProofs ------------------------
(***************************************************************************)
(* Proofs about ClientRegistry: type correctness, the order in which a     *)
(* client is reaped, and the life of a connection registration.  Each      *)
(* invariant has an Init lemma, a Step lemma with one step per action, and *)
(* a theorem that draws the property from it.                              *)
(***************************************************************************)
EXTENDS ClientRegistry, TLAPS

OwnerBound == \A c \in Conns : connect[c].pc # "idle" => owner[c] \in Clients

CurBound ==
  \A k \in Cleaners : cleaner[k].pc \in Reaping => cleaner[k].cur \in Clients

TypeInv == TypeOK /\ OwnerBound /\ CurBound

(* A step that leaves the variables of a conjunct alone keeps it.          *)
LEMMA Stutters ==
  /\ ClockOK /\ UNCHANGED <<now, inflight, posts, raced>> => ClockOK'
  /\ ValkeyOK /\ UNCHANGED valkey => ValkeyOK'
  /\ GatewayOK /\ UNCHANGED gateway => GatewayOK'
  /\ ConnectOK /\ UNCHANGED connect => ConnectOK'
  /\ DisconnectOK /\ UNCHANGED disconnect => DisconnectOK'
  /\ CleanerOK /\ UNCHANGED cleaner => CleanerOK'
  /\ CasterOK /\ UNCHANGED caster => CasterOK'
  /\ FaultsOK /\ UNCHANGED faults => FaultsOK'
  /\ OwnerBound /\ UNCHANGED <<owner, connect>> => OwnerBound'
  /\ CurBound /\ UNCHANGED cleaner => CurBound'
  BY DEF ClockOK, ValkeyOK, GatewayOK, ConnectOK, DisconnectOK, CleanerOK,
         CasterOK, FaultsOK, OwnerBound, CurBound, valkey, gateway

CleanerState ==
  [pc : {"idle", "scan", "pick"} \cup Reaping, cutoff : Time,
   todo : SUBSET Clients, cur : Clients \cup {NoClient},
   ws : Conns \cup {NoConn}]

CasterState ==
  [pc : {"idle", "fetch", "post"}, ids : SUBSET Clients,
   targets : SUBSET Target, gone : SUBSET Target]

(* One invocation moves to a state of the right type.                      *)
LEMMA CleanerUpdate ==
  ASSUME CleanerOK, NEW k \in Cleaners, NEW s \in CleanerState,
         cleaner' = [cleaner EXCEPT ![k] = s]
  PROVE  CleanerOK'
BY DEF CleanerOK, CleanerState

LEMMA CasterUpdate ==
  ASSUME CasterOK, NEW b \in Broadcasters, NEW s \in CasterState,
         caster' = [caster EXCEPT ![b] = s]
  PROVE  CasterOK'
BY DEF CasterOK, CasterState

(* Every step keeps the registry well typed.                               *)
LEMMA TypeInvStep == TypeInv /\ [Next]_vars => TypeInv'
<1> SUFFICES ASSUME TypeInv, [Next]_vars PROVE TypeInv'
  OBVIOUS
<1> USE DEF TypeInv, TypeOK
<1>1. CASE Tick
  <2>1. ClockOK'
    BY <1>1, ConstantsAssumption DEF Tick, ClockOK, Time
  <2> QED
    BY <1>1, <2>1, Stutters DEF Tick, valkey, gateway
<1>2. ASSUME NEW cl \in Clients,
             ReceiveLocation(cl)
      PROVE  TypeInv'
  <2>1. ClockOK'
    BY <1>2, ConstantsAssumption DEF ReceiveLocation, ClockOK, Time
  <2> QED
    BY <1>2, <2>1, Stutters DEF ReceiveLocation, valkey, gateway
<1>3. ASSUME NEW cl \in Clients, NEW e \in inflight[cl],
             UpsertClientLocation(cl, e)
      PROVE  TypeInv'
  <2>1. ClockOK'
    BY <1>3, ConstantsAssumption DEF UpsertClientLocation, ClockOK, Time
  <2>2. ValkeyOK'
    BY <1>3, ConstantsAssumption
    DEF UpsertClientLocation, ValkeyOK, Score, NoScore, Time, ClockOK
  <2> QED
    BY <1>3, <2>1, <2>2, Stutters DEF UpsertClientLocation, valkey, gateway
<1>4. ASSUME NEW cl \in Clients, NEW e \in inflight[cl],
             LocationFails(cl, e)
      PROVE  TypeInv'
  <2>1. ClockOK'
    BY <1>4, ConstantsAssumption DEF LocationFails, Fault, ClockOK, Time
  <2>2. FaultsOK'
    BY <1>4, ConstantsAssumption DEF LocationFails, Fault, FaultsOK
  <2> QED
    BY <1>4, <2>1, <2>2, Stutters DEF LocationFails, valkey, gateway
<1>5. ASSUME NEW c \in Conns,
             GetExistingWsConnection(c)
      PROVE  TypeInv'
  <2>1. ConnectOK'
    BY <1>5 DEF GetExistingWsConnection, ConnectOK, ValkeyOK, GatewayOK, OwnerBound
  <2>2. OwnerBound'
    BY <1>5 DEF GetExistingWsConnection, OwnerBound, ConnectOK, GatewayOK, gateway
  <2> QED
    BY <1>5, <2>1, <2>2, Stutters DEF GetExistingWsConnection, valkey, gateway
<1>6. ASSUME NEW c \in Conns,
             CloseExistingConnectionIfAny(c)
      PROVE  TypeInv'
  <2>1. GatewayOK'
    BY <1>6
    DEF CloseExistingConnectionIfAny, DeleteConnection, Closed, Fault, GatewayOK
  <2>2. ConnectOK'
    BY <1>6
    DEF CloseExistingConnectionIfAny, DeleteConnection, Closed, Fault, ConnectOK
  <2>3. DisconnectOK'
    BY <1>6
    DEF CloseExistingConnectionIfAny, DeleteConnection, Closed, Fault,
        DisconnectOK
  <2>4. FaultsOK'
    BY <1>6, ConstantsAssumption
    DEF CloseExistingConnectionIfAny, DeleteConnection, Closed, Fault, FaultsOK
  <2>5. OwnerBound'
    BY <1>6
    DEF CloseExistingConnectionIfAny, DeleteConnection, Closed, Fault,
        OwnerBound, ConnectOK, GatewayOK, gateway
  <2> QED
    BY <1>6, <2>1, <2>2, <2>3, <2>4, <2>5, Stutters
    DEF CloseExistingConnectionIfAny, valkey, gateway
<1>7. ASSUME NEW c \in Conns,
             RegisterConnection(c)
      PROVE  TypeInv'
  <2>1. ValkeyOK'
    BY <1>7, ConstantsAssumption
    DEF RegisterConnection, ValkeyOK, Score, NoScore, Time
  <2>2. ConnectOK'
    BY <1>7 DEF RegisterConnection, ConnectOK
  <2>3. OwnerBound'
    BY <1>7 DEF RegisterConnection, OwnerBound, ConnectOK, GatewayOK, gateway
  <2> QED
    BY <1>7, <2>1, <2>2, <2>3, Stutters DEF RegisterConnection, valkey, gateway
<1>8. ASSUME NEW c \in Conns,
             SetConnectionLookup(c)
      PROVE  TypeInv'
  <2>1. ValkeyOK'
    BY <1>8, ConstantsAssumption
    DEF SetConnectionLookup, ValkeyOK, Score, NoScore, Time, GatewayOK
  <2>2. ConnectOK'
    BY <1>8 DEF SetConnectionLookup, ConnectOK
  <2>3. OwnerBound'
    BY <1>8 DEF SetConnectionLookup, OwnerBound, ConnectOK, GatewayOK, gateway
  <2> QED
    BY <1>8, <2>1, <2>2, <2>3, Stutters DEF SetConnectionLookup, valkey, gateway
<1>9. ASSUME NEW c \in Conns,
             ConnectReplies(c)
      PROVE  TypeInv'
  <2>1. GatewayOK'
    BY <1>9 DEF ConnectReplies, GatewayOK
  <2>2. ConnectOK'
    BY <1>9 DEF ConnectReplies, ConnectOK
  <2>3. OwnerBound'
    BY <1>9 DEF ConnectReplies, OwnerBound, ConnectOK, GatewayOK, gateway
  <2> QED
    BY <1>9, <2>1, <2>2, <2>3, Stutters DEF ConnectReplies, valkey, gateway
<1>10. ASSUME NEW c \in Conns,
             GetConnectionLookup(c)
      PROVE  TypeInv'
  <2>1. DisconnectOK'
    BY <1>10 DEF GetConnectionLookup, DisconnectOK, ValkeyOK
  <2> QED
    BY <1>10, <2>1, Stutters DEF GetConnectionLookup, valkey, gateway
<1>11. ASSUME NEW c \in Conns,
             UnregisterConnection(c)
      PROVE  TypeInv'
  <2>1. ValkeyOK'
    <3>1. \/ hash' = hash
          \/ hash' = [hash EXCEPT ![disconnect[c].mapping].ws = NoConn]
      BY <1>11 DEF UnregisterConnection, ClearWsInfoIfSameConnection
    <3>2. hash' \in [Clients -> [loc : BOOLEAN, ws : Conns \cup {NoConn}]]
      BY <3>1 DEF ValkeyOK
    <3> QED
      BY <1>11, <3>2 DEF UnregisterConnection, ValkeyOK
  <2>2. DisconnectOK'
    BY <1>11 DEF UnregisterConnection, ClearWsInfoIfSameConnection, DisconnectOK
  <2> QED
    BY <1>11, <2>1, <2>2, Stutters DEF UnregisterConnection, valkey, gateway
<1>12. ASSUME NEW c \in Conns,
             DeleteConnectionLookup(c)
      PROVE  TypeInv'
  <2>1. ValkeyOK'
    BY <1>12, ConstantsAssumption
    DEF DeleteConnectionLookup, ValkeyOK, Score, NoScore, Time
  <2>2. DisconnectOK'
    BY <1>12 DEF DeleteConnectionLookup, DisconnectOK
  <2> QED
    BY <1>12, <2>1, <2>2, Stutters DEF DeleteConnectionLookup, valkey, gateway
<1>13. ASSUME NEW c \in Conns, NEW cl \in Clients,
             OpenSocket(c, cl)
      PROVE  TypeInv'
  <2>1. GatewayOK'
    BY <1>13 DEF OpenSocket, GatewayOK
  <2>2. ConnectOK'
    BY <1>13 DEF OpenSocket, ConnectOK
  <2>3. OwnerBound'
    BY <1>13 DEF OpenSocket, OwnerBound, ConnectOK, GatewayOK, gateway
  <2> QED
    BY <1>13, <2>1, <2>2, <2>3, Stutters DEF OpenSocket, valkey, gateway
<1>14. ASSUME NEW c \in Conns,
             ClientCloses(c)
      PROVE  TypeInv'
  <2>1. GatewayOK'
    BY <1>14 DEF ClientCloses, Closed, GatewayOK
  <2>2. DisconnectOK'
    BY <1>14 DEF ClientCloses, Closed, DisconnectOK
  <2> QED
    BY <1>14, <2>1, <2>2, Stutters DEF ClientCloses, valkey, gateway
<1>15. ASSUME NEW c \in Conns,
             DisconnectEventLost(c)
      PROVE  TypeInv'
  <2>1. DisconnectOK'
    BY <1>15 DEF DisconnectEventLost, Fault, DisconnectOK
  <2>2. FaultsOK'
    BY <1>15, ConstantsAssumption DEF DisconnectEventLost, Fault, FaultsOK
  <2> QED
    BY <1>15, <2>1, <2>2, Stutters DEF DisconnectEventLost, valkey, gateway
<1>16. ASSUME NEW c \in Conns,
             LookupExpires(c)
      PROVE  TypeInv'
  <2>1. ValkeyOK'
    BY <1>16, ConstantsAssumption DEF LookupExpires, ValkeyOK, Score, NoScore, Time
  <2> QED
    BY <1>16, <2>1, Stutters DEF LookupExpires, valkey, gateway
<1>17. ASSUME NEW c \in Conns,
             ConnectFails(c)
      PROVE  TypeInv'
  <2>1. GatewayOK'
    BY <1>17 DEF ConnectFails, Fault, GatewayOK
  <2>2. ConnectOK'
    BY <1>17 DEF ConnectFails, Fault, ConnectOK
  <2>3. FaultsOK'
    BY <1>17, ConstantsAssumption DEF ConnectFails, Fault, FaultsOK
  <2>4. OwnerBound'
    BY <1>17 DEF ConnectFails, Fault, OwnerBound, ConnectOK, GatewayOK, gateway
  <2> QED
    BY <1>17, <2>1, <2>2, <2>3, <2>4, Stutters DEF ConnectFails, valkey, gateway
<1>18. ASSUME NEW c \in Conns,
             DisconnectFails(c)
      PROVE  TypeInv'
  <2>1. DisconnectOK'
    BY <1>18 DEF DisconnectFails, Fault, DisconnectOK
  <2>2. FaultsOK'
    BY <1>18, ConstantsAssumption DEF DisconnectFails, Fault, FaultsOK
  <2> QED
    BY <1>18, <2>1, <2>2, Stutters DEF DisconnectFails, valkey, gateway
<1>19. ASSUME NEW k \in Cleaners,
             StartCleanup(k)
      PROVE  TypeInv'
  <2>1. CleanerOK'
    <3>1. now \in Time
      BY DEF ClockOK
    <3> QED
      BY <1>19, <3>1 DEF StartCleanup, CleanerOK
  <2>2. CurBound'
    BY <1>19 DEF StartCleanup, CurBound, CleanerOK, Reaping
  <2> QED
    BY <1>19, <2>1, <2>2, Stutters DEF StartCleanup, valkey, gateway
<1>20. ASSUME NEW k \in Cleaners,
             ScanExpired(k)
      PROVE  TypeInv'
  <2>1. CleanerOK'
    <3> DEFINE found == {cl \in Clients : expires[cl] # NoScore
                                        /\ expires[cl] <= cleaner[k].cutoff}
    <3>1. found \subseteq Clients
      OBVIOUS
    <3>2. cleaner' = [cleaner EXCEPT ![k].pc = "pick", ![k].todo = found]
      BY <1>20 DEF ScanExpired
    <3> HIDE DEF found
    <3> QED
      BY <3>1, <3>2 DEF CleanerOK
  <2>2. CurBound'
    BY <1>20 DEF ScanExpired, CurBound, CleanerOK, Reaping
  <2> QED
    BY <1>20, <2>1, <2>2, Stutters DEF ScanExpired, valkey, gateway
<1>21. ASSUME NEW k \in Cleaners, NEW cl \in cleaner[k].todo,
             RecheckScore(k, cl)
      PROVE  TypeInv'
  <2>1. CleanerOK'
    <3> DEFINE pc  == IF StillExpired(k, cl) THEN "hmget" ELSE "pick"
               cur == IF StillExpired(k, cl) THEN cl ELSE NoClient
    <3>1. pc \in {"pick"} \cup Reaping /\ cur \in Clients \cup {NoClient}
      BY DEF CleanerOK, Reaping
    <3>2. cleaner' = [cleaner EXCEPT ![k].todo = cleaner[k].todo \ {cl},
                                     ![k].pc = pc, ![k].cur = cur]
      BY <1>21 DEF RecheckScore
    <3> HIDE DEF pc, cur
    <3> DEFINE s == [cleaner[k] EXCEPT !.todo = cleaner[k].todo \ {cl},
                                       !.pc = pc, !.cur = cur]
    <3>3. cleaner[k] \in CleanerState
      BY DEF CleanerOK, CleanerState
    <3>4. s \in CleanerState
      BY <3>1, <3>3 DEF CleanerState
    <3>5. cleaner' = [cleaner EXCEPT ![k] = s]
      BY <3>2
    <3> HIDE DEF s
    <3> QED
      BY <3>4, <3>5, CleanerUpdate
  <2>2. CurBound'
    BY <1>21 DEF RecheckScore, StillExpired, CurBound, CleanerOK, Reaping
  <2> QED
    BY <1>21, <2>1, <2>2, Stutters DEF RecheckScore, valkey, gateway
<1>22. ASSUME NEW k \in Cleaners,
             ReadWsFields(k)
      PROVE  TypeInv'
  <2>1. CleanerOK'
    BY <1>22, ConstantsAssumption
    DEF ReadWsFields, CleanerOK, Reaping, CurBound, ValkeyOK
  <2>2. CurBound'
    BY <1>22 DEF ReadWsFields, CurBound, CleanerOK, Reaping
  <2> QED
    BY <1>22, <2>1, <2>2, Stutters DEF ReadWsFields, valkey, gateway
<1>23. ASSUME NEW k \in Cleaners,
             CloseWsConnection(k)
      PROVE  TypeInv'
  <2>1. GatewayOK'
    BY <1>23 DEF CloseWsConnection, DeleteConnection, Closed, Fault, GatewayOK
  <2>2. DisconnectOK'
    BY <1>23 DEF CloseWsConnection, DeleteConnection, Closed, Fault, DisconnectOK
  <2>3. CleanerOK'
    BY <1>23, ConstantsAssumption
    DEF CloseWsConnection, DeleteConnection, Closed, Fault, CleanerOK, Reaping,
        CurBound
  <2>4. FaultsOK'
    BY <1>23, ConstantsAssumption
    DEF CloseWsConnection, DeleteConnection, Closed, Fault, FaultsOK
  <2>5. CurBound'
    BY <1>23
    DEF CloseWsConnection, DeleteConnection, Closed, Fault, CurBound, CleanerOK,
        Reaping
  <2> QED
    BY <1>23, <2>1, <2>2, <2>3, <2>4, <2>5, Stutters
    DEF CloseWsConnection, valkey, gateway
<1>24. ASSUME NEW k \in Cleaners,
             DelLookup(k)
      PROVE  TypeInv'
  <2>1. ValkeyOK'
    BY <1>24, ConstantsAssumption DEF DelLookup, ValkeyOK, Score, NoScore, Time
  <2>2. CleanerOK'
    BY <1>24, ConstantsAssumption DEF DelLookup, CleanerOK, Reaping, CurBound
  <2>3. CurBound'
    BY <1>24 DEF DelLookup, CurBound, CleanerOK, Reaping
  <2> QED
    BY <1>24, <2>1, <2>2, <2>3, Stutters DEF DelLookup, valkey, gateway
<1>25. ASSUME NEW k \in Cleaners,
             DelHash(k)
      PROVE  TypeInv'
  <2>1. ValkeyOK'
    BY <1>25, ConstantsAssumption
    DEF DelHash, ValkeyOK, Score, NoScore, Time, CleanerOK
  <2>2. CleanerOK'
    <3> DEFINE s == [cleaner[k] EXCEPT !.pc = "zremGeo", !.ws = NoConn]
    <3>1. cleaner[k] \in CleanerState
      BY DEF CleanerOK, CleanerState
    <3>2. s \in CleanerState
      BY <3>1 DEF CleanerState, Reaping
    <3>3. cleaner' = [cleaner EXCEPT ![k] = s]
      BY <1>25 DEF DelHash
    <3> HIDE DEF s
    <3> QED
      BY <3>2, <3>3, CleanerUpdate
  <2>3. CurBound'
    BY <1>25 DEF DelHash, CurBound, CleanerOK, Reaping
  <2> QED
    BY <1>25, <2>1, <2>2, <2>3, Stutters DEF DelHash, valkey, gateway
<1>26. ASSUME NEW k \in Cleaners,
             ZremGeo(k)
      PROVE  TypeInv'
  <2>1. ValkeyOK'
    BY <1>26, ConstantsAssumption DEF ZremGeo, ValkeyOK, Score, NoScore, Time
  <2>2. CleanerOK'
    BY <1>26, ConstantsAssumption DEF ZremGeo, CleanerOK, Reaping, CurBound
  <2>3. CurBound'
    BY <1>26 DEF ZremGeo, CurBound, CleanerOK, Reaping
  <2> QED
    BY <1>26, <2>1, <2>2, <2>3, Stutters DEF ZremGeo, valkey, gateway
<1>27. ASSUME NEW k \in Cleaners,
             ZremExpires(k)
      PROVE  TypeInv'
  <2>1. ValkeyOK'
    BY <1>27, ConstantsAssumption
    DEF ZremExpires, NextClient, ValkeyOK, Score, NoScore, Time
  <2>2. CleanerOK'
    BY <1>27, ConstantsAssumption
    DEF ZremExpires, NextClient, CleanerOK, Reaping, CurBound
  <2>3. CurBound'
    BY <1>27 DEF ZremExpires, NextClient, CurBound, CleanerOK, Reaping
  <2> QED
    BY <1>27, <2>1, <2>2, <2>3, Stutters DEF ZremExpires, valkey, gateway
<1>28. ASSUME NEW k \in Cleaners,
             EndCleanup(k)
      PROVE  TypeInv'
  <2>1. CleanerOK'
    <3>1. IdleCleaner \in [pc : {"idle"}, cutoff : Time, todo : SUBSET Clients,
                           cur : {NoClient}, ws : {NoConn}]
      BY ConstantsAssumption DEF IdleCleaner, Time
    <3> QED
      BY <1>28, <3>1 DEF EndCleanup, CleanerOK
  <2>2. CurBound'
    BY <1>28 DEF EndCleanup, IdleCleaner, CurBound, CleanerOK, Reaping
  <2> QED
    BY <1>28, <2>1, <2>2, Stutters DEF EndCleanup, valkey, gateway
<1>29. ASSUME NEW k \in Cleaners,
             ClientCleanupFails(k)
      PROVE  TypeInv'
  <2>1. CleanerOK'
    BY <1>29, ConstantsAssumption
    DEF ClientCleanupFails, NextClient, Fault, CleanerOK, Reaping, CurBound
  <2>2. FaultsOK'
    BY <1>29, ConstantsAssumption
    DEF ClientCleanupFails, NextClient, Fault, FaultsOK
  <2>3. CurBound'
    BY <1>29 DEF ClientCleanupFails, NextClient, Fault, CurBound, CleanerOK, Reaping
  <2> QED
    BY <1>29, <2>1, <2>2, <2>3, Stutters DEF ClientCleanupFails, valkey, gateway
<1>30. ASSUME NEW k \in Cleaners,
             CleanupDies(k)
      PROVE  TypeInv'
  <2>1. CleanerOK'
    <3>1. IdleCleaner \in [pc : {"idle"}, cutoff : Time, todo : SUBSET Clients,
                           cur : {NoClient}, ws : {NoConn}]
      BY ConstantsAssumption DEF IdleCleaner, Time
    <3> QED
      BY <1>30, <3>1 DEF CleanupDies, CleanerOK
  <2>2. FaultsOK'
    BY <1>30, ConstantsAssumption DEF CleanupDies, IdleCleaner, Fault, FaultsOK
  <2>3. CurBound'
    BY <1>30 DEF CleanupDies, IdleCleaner, Fault, CurBound, CleanerOK, Reaping
  <2> QED
    BY <1>30, <2>1, <2>2, <2>3, Stutters DEF CleanupDies, valkey, gateway
<1>31. ASSUME NEW b \in Broadcasters,
             FindNearbyWsClients(b)
      PROVE  TypeInv'
  <2>1. CasterOK'
    <3>1. PICK near \in SUBSET geo :
            caster' = [caster EXCEPT ![b].pc = "post",
              ![b].targets = {t \in near \X Conns : hash[t[1]].ws = t[2]}]
      BY <1>31 DEF FindNearbyWsClients
    <3> DEFINE found == {t \in near \X Conns : hash[t[1]].ws = t[2]}
    <3>2. found \subseteq Target
      BY DEF ValkeyOK, Target
    <3>3. caster' = [caster EXCEPT ![b].pc = "post", ![b].targets = found]
      BY <3>1
    <3> HIDE DEF found
    <3> QED
      BY <3>2, <3>3 DEF CasterOK
  <2> QED
    BY <1>31, <2>1, Stutters DEF FindNearbyWsClients, valkey, gateway
<1>32. ASSUME NEW b \in Broadcasters,
             GeoSearch(b)
      PROVE  TypeInv'
  <2>1. CasterOK'
    <3>1. PICK near \in SUBSET geo :
            caster' = [caster EXCEPT ![b].pc = "fetch", ![b].ids = near]
      BY <1>32 DEF GeoSearch
    <3>2. near \in SUBSET Clients
      BY DEF ValkeyOK
    <3> QED
      BY <3>1, <3>2 DEF CasterOK
  <2> QED
    BY <1>32, <2>1, Stutters DEF GeoSearch, valkey, gateway
<1>33. ASSUME NEW b \in Broadcasters, NEW cl \in caster[b].ids,
             FetchConnection(b, cl)
      PROVE  TypeInv'
  <2>1. CasterOK'
    <3> DEFINE found == {t \in {cl} \X Conns : hash[cl].ws = t[2]}
               pc    == IF caster[b].ids = {cl} THEN "post" ELSE "fetch"
    <3>1. caster[b].targets \cup found \subseteq Target
      BY DEF CasterOK, Target
    <3>2. caster[b].ids \ {cl} \subseteq Clients /\ pc \in {"fetch", "post"}
      BY DEF CasterOK
    <3>3. caster' = [caster EXCEPT ![b].ids = caster[b].ids \ {cl}, ![b].pc = pc,
                                   ![b].targets = caster[b].targets \cup found]
      BY <1>33 DEF FetchConnection
    <3> HIDE DEF found, pc
    <3> DEFINE s == [caster[b] EXCEPT !.ids = caster[b].ids \ {cl}, !.pc = pc,
                                      !.targets = caster[b].targets \cup found]
    <3>4. caster[b] \in CasterState
      BY DEF CasterOK, CasterState
    <3>5. s \in CasterState
      BY <3>1, <3>2, <3>4 DEF CasterState
    <3>6. caster' = [caster EXCEPT ![b] = s]
      BY <3>3
    <3> HIDE DEF s
    <3> QED
      BY <3>5, <3>6, CasterUpdate
  <2> QED
    BY <1>33, <2>1, Stutters DEF FetchConnection, valkey, gateway
<1>34. ASSUME NEW b \in Broadcasters, NEW t \in caster[b].targets,
             PostToConnection(b, t)
      PROVE  TypeInv'
  <2>1. CasterOK'
    BY <1>34 DEF PostToConnection, CasterOK
  <2> QED
    BY <1>34, <2>1, Stutters DEF PostToConnection, valkey, gateway
<1>35. ASSUME NEW b \in Broadcasters, NEW t \in caster[b].gone,
             ClearGone(b, t)
      PROVE  TypeInv'
  <2>1. ValkeyOK'
    BY <1>35, ConstantsAssumption
    DEF ClearGone, ClearWsInfoIfSameConnection, ValkeyOK, Score, NoScore, Time,
        CasterOK
  <2>2. CasterOK'
    BY <1>35 DEF ClearGone, ClearWsInfoIfSameConnection, CasterOK
  <2> QED
    BY <1>35, <2>1, <2>2, Stutters DEF ClearGone, valkey, gateway
<1>36. ASSUME NEW b \in Broadcasters, NEW t \in caster[b].gone,
             ClearGoneFails(b, t)
      PROVE  TypeInv'
  <2>1. CasterOK'
    BY <1>36 DEF ClearGoneFails, Fault, CasterOK
  <2>2. FaultsOK'
    BY <1>36, ConstantsAssumption DEF ClearGoneFails, Fault, FaultsOK
  <2> QED
    BY <1>36, <2>1, <2>2, Stutters DEF ClearGoneFails, valkey, gateway
<1>37. ASSUME NEW b \in Broadcasters,
             EndBroadcast(b)
      PROVE  TypeInv'
  <2>1. CasterOK'
    BY <1>37 DEF EndBroadcast, IdleCaster, CasterOK
  <2> QED
    BY <1>37, <2>1, Stutters DEF EndBroadcast, valkey, gateway
<1>38. CASE UNCHANGED vars
  BY <1>38, Stutters DEF vars, valkey, gateway
<1> QED
  BY <1>1, <1>2, <1>3, <1>4, <1>5, <1>6, <1>7, <1>8, <1>9, <1>10,
     <1>11, <1>12, <1>13, <1>14, <1>15, <1>16, <1>17, <1>18, <1>19, <1>20,
     <1>21, <1>22, <1>23, <1>24, <1>25, <1>26, <1>27, <1>28, <1>29, <1>30,
     <1>31, <1>32, <1>33, <1>34, <1>35, <1>36, <1>37, <1>38
  DEF Next, LocationStep, ConnectStep, DisconnectStep, GatewayStep, CleanupStep,
      BroadcastStep

(* The empty registry is well typed.                                       *)
LEMMA TypeInvInit == Init => TypeInv
  BY ConstantsAssumption
  DEF Init, TypeInv, TypeOK, ClockOK, ValkeyOK, GatewayOK, ConnectOK,
      DisconnectOK, CleanerOK, CasterOK, FaultsOK, OwnerBound, CurBound, Time,
      Score, NoScore, Reaping, IdleConnect, IdleDisconnect, IdleCleaner,
      IdleCaster

(* The inductive type invariant: every handler that names a client names   *)
(* a real one.                                                             *)
LEMMA TypeInvariant == Spec => []TypeInv
  BY TypeInvInit, TypeInvStep, PTL DEF Spec

(* The registry is well typed in every reachable state.                    *)
THEOREM TypeCorrect == Spec => []TypeOK
  BY TypeInvariant, PTL DEF TypeInv

-----------------------------------------------------------------------------
(* Reaping removes the hash, then the geo entry, then the expiry, of a     *)
(* client whose expiry has passed, unless an upsert got in between.        *)
ReapOrder ==
  \A k \in Cleaners, cl \in Clients \ raced :
    IsReaping(k, cl) =>
      /\ expires[cl] <= now
      /\ cleaner[k].pc \in {"zremGeo", "zremExpires"} => ~hash[cl].loc
      /\ cleaner[k].pc = "zremExpires" => cl \notin geo

CutoffPassed == \A k \in Cleaners : cleaner[k].cutoff <= now

IndexInv == ExpiryOutlivesIndex /\ ReapOrder /\ CutoffPassed

(* The actions that change nothing IndexInv speaks of.                     *)
IndexFrame ==
  UNCHANGED <<now, geo, expires, raced, cleaner>> /\
  \A cl \in Clients : hash'[cl].loc = hash[cl].loc

(* Connecting, disconnecting and broadcasting do not disturb IndexInv.     *)
LEMMA IndexFrameKeeps == TypeInv /\ TypeInv' /\ IndexInv /\ IndexFrame => IndexInv'
  BY DEF IndexFrame, IndexInv, ExpiryOutlivesIndex, ReapOrder, CutoffPassed,
         IsReaping

(* What a step of the registry can be, for the index.                      *)
LEMMA IndexSteps ==
  ASSUME TypeInv, [Next]_vars
  PROVE  \/ IndexFrame
         \/ Tick
         \/ \E cl \in Clients : \E e \in inflight[cl] : UpsertClientLocation(cl, e)
         \/ \E k \in Cleaners : CleanupStep(k) \/ ClientCleanupFails(k) \/ CleanupDies(k)
<1> USE DEF TypeInv, TypeOK
<1>1. ASSUME NEW cl \in Clients, LocationStep(cl)
      PROVE  IndexFrame \/ \E e \in inflight[cl] : UpsertClientLocation(cl, e)
  BY <1>1 DEF LocationStep, ReceiveLocation, LocationFails, IndexFrame, valkey
<1>2. ASSUME NEW c \in Conns, ConnectStep(c)
      PROVE  IndexFrame
  <2>1. CASE RegisterConnection(c)
    BY <2>1 DEF RegisterConnection, IndexFrame, ValkeyOK
  <2> QED
    BY <1>2, <2>1
    DEF ConnectStep, GetExistingWsConnection, CloseExistingConnectionIfAny,
        SetConnectionLookup, ConnectReplies, IndexFrame, valkey
<1>3. ASSUME NEW c \in Conns, DisconnectStep(c)
      PROVE  IndexFrame
  <2>1. CASE UnregisterConnection(c)
    BY <2>1
    DEF UnregisterConnection, ClearWsInfoIfSameConnection, IndexFrame, ValkeyOK
  <2> QED
    BY <1>3, <2>1
    DEF DisconnectStep, GetConnectionLookup, DeleteConnectionLookup, IndexFrame,
        valkey
<1>4. ASSUME NEW c \in Conns, GatewayStep(c)
      PROVE  IndexFrame
  BY <1>4
  DEF GatewayStep, OpenSocket, ClientCloses, DisconnectEventLost, LookupExpires,
      ConnectFails, DisconnectFails, IndexFrame, valkey
<1>5. ASSUME NEW b \in Broadcasters, BroadcastStep(b)
      PROVE  IndexFrame
  <2>1. ASSUME NEW t \in caster[b].gone, ClearGone(b, t)
        PROVE  IndexFrame
    BY <2>1 DEF ClearGone, ClearWsInfoIfSameConnection, IndexFrame, ValkeyOK
  <2> QED
    BY <1>5, <2>1
    DEF BroadcastStep, FindNearbyWsClients, GeoSearch, FetchConnection,
        PostToConnection, ClearGoneFails, EndBroadcast, IndexFrame, valkey
<1>6. CASE UNCHANGED vars
  BY <1>6 DEF vars, IndexFrame
<1> QED
  BY <1>1, <1>2, <1>3, <1>4, <1>5, <1>6 DEF Next

(* Every step keeps the order of reaping, and the expiry behind the index. *)
LEMMA IndexInvStep == TypeInv /\ TypeInv' /\ IndexInv /\ [Next]_vars => IndexInv'
<1> SUFFICES ASSUME TypeInv, TypeInv', IndexInv, [Next]_vars PROVE IndexInv'
  OBVIOUS
<1> USE DEF TypeInv, TypeOK, IndexInv
<1>1. CASE IndexFrame
  BY <1>1, IndexFrameKeeps
<1>2. CASE Tick
  <2>1. UNCHANGED <<geo, hash, expires, raced,
  cleaner>> /\ now' = now + 1 /\ now \in Int
    BY <1>2 DEF Tick, valkey, ClockOK, Time
  <2>2. \A cl \in Clients : expires[cl] \in Int
    BY DEF ValkeyOK, Score, NoScore, Time
  <2>3. \A k \in Cleaners : cleaner[k].cutoff \in Int
    BY DEF CleanerOK, Time
  <2> QED
    BY <2>1, <2>2, <2>3 DEF ExpiryOutlivesIndex, ReapOrder, CutoffPassed, IsReaping
<1>3. ASSUME NEW cl \in Clients, NEW e \in inflight[cl], UpsertClientLocation(cl, e)
      PROVE  IndexInv'
  <2>1. UNCHANGED <<now, cleaner>>
    BY <1>3 DEF UpsertClientLocation
  <2>2. \A x \in Clients \ {cl} : /\ expires'[x] = expires[x]
                                  /\ hash'[x] = hash[x]
                                  /\ x \in geo' <=> x \in geo
                                  /\ x \in raced' <=> x \in raced
    BY <1>3 DEF UpsertClientLocation, ValkeyOK
  <2>3. e # NoScore /\ expires'[cl] = e
    BY <1>3 DEF UpsertClientLocation, ValkeyOK, ClockOK, Time, NoScore
  <2>4. cl \in raced' \/ \A k \in Cleaners : ~IsReaping(k, cl)
    BY <1>3 DEF UpsertClientLocation
  <2> QED
    BY <2>1, <2>2, <2>3, <2>4
    DEF ExpiryOutlivesIndex, ReapOrder, CutoffPassed, IsReaping
<1>4. ASSUME NEW k \in Cleaners,
             CleanupStep(k) \/ ClientCleanupFails(k) \/ CleanupDies(k)
      PROVE  IndexInv'
  <2>1. UNCHANGED <<now, raced>>
    BY <1>4
    DEF CleanupStep, StartCleanup, ScanExpired, RecheckScore, ReadWsFields,
        CloseWsConnection, DelLookup, DelHash, ZremGeo, ZremExpires, EndCleanup,
        ClientCleanupFails, CleanupDies
  <2>2. \A x \in Cleaners \ {k} : cleaner'[x] = cleaner[x]
    BY <1>4
    DEF CleanupStep, StartCleanup, ScanExpired, RecheckScore, ReadWsFields,
        CloseWsConnection, DelLookup, DelHash, ZremGeo, ZremExpires, EndCleanup,
        ClientCleanupFails, CleanupDies, NextClient, CleanerOK
  <2>3. CASE StartCleanup(k) \/ ScanExpired(k) \/ EndCleanup(k) \/ ClientCleanupFails(k)
               \/ CleanupDies(k)
    <3>1. UNCHANGED <<geo, hash, expires>>
      BY <2>3
      DEF StartCleanup, ScanExpired, EndCleanup, ClientCleanupFails,
          CleanupDies, valkey
    <3>2. cleaner'[k].pc \notin Reaping
      BY <2>3
      DEF StartCleanup, ScanExpired, EndCleanup, ClientCleanupFails,
          CleanupDies, NextClient, IdleCleaner, CleanerOK, Reaping
    <3>3. cleaner'[k].cutoff \in {now, 0, cleaner[k].cutoff} /\ 0 <= now
      BY <2>3
      DEF StartCleanup, ScanExpired, EndCleanup, ClientCleanupFails,
          CleanupDies, NextClient, IdleCleaner, CleanerOK, ClockOK, Time
    <3>4. CutoffPassed'
      BY <2>1, <2>2, <3>3 DEF CutoffPassed, ClockOK, Time
    <3> QED
      BY <2>1, <2>2, <3>1, <3>2, <3>4 DEF ExpiryOutlivesIndex, ReapOrder, IsReaping
  <2>4. ASSUME NEW cl \in cleaner[k].todo, RecheckScore(k, cl)
        PROVE  IndexInv'
    <3>1. UNCHANGED <<geo, hash, expires>> /\ cleaner'[k].cutoff = cleaner[k].cutoff
      BY <2>4 DEF RecheckScore, valkey, CleanerOK
    <3>2. \/ cleaner'[k].pc \notin Reaping
          \/ cleaner'[k].pc = "hmget" /\ cleaner'[k].cur = cl /\ StillExpired(k, cl)
      BY <2>4 DEF RecheckScore, CleanerOK, Reaping
    <3>3. StillExpired(k, cl) => expires[cl] <= now
      BY DEF StillExpired, CutoffPassed, ValkeyOK, CleanerOK, ClockOK, Time,
             Score, NoScore
    <3> QED
      BY <2>1, <2>2, <3>1, <3>2, <3>3
      DEF ExpiryOutlivesIndex, ReapOrder, IsReaping, CutoffPassed
  <2>5. CASE ReadWsFields(k) \/ CloseWsConnection(k) \/ DelLookup(k)
    <3>1. UNCHANGED <<geo, hash, expires>>
      BY <2>5 DEF ReadWsFields, CloseWsConnection, DelLookup, valkey
    <3>2. /\ cleaner[k].pc \in Reaping
          /\ cleaner'[k].pc \in {"close", "delLookup", "delHash"}
          /\ cleaner'[k].cur = cleaner[k].cur /\ cleaner'[k].cutoff = cleaner[k].cutoff
      BY <2>5 DEF ReadWsFields, CloseWsConnection, DelLookup, CleanerOK, Reaping
    <3> QED
      BY <2>1, <2>2, <3>1, <3>2
      DEF ExpiryOutlivesIndex, ReapOrder, IsReaping, CutoffPassed
  <2>6. CASE DelHash(k)
    <3>1. /\ UNCHANGED <<geo, expires>>
          /\ \A cl \in Clients : hash'[cl].loc => hash[cl].loc
          /\ cleaner[k].cur \in Clients => ~hash'[cleaner[k].cur].loc
      BY <2>6 DEF DelHash, ValkeyOK
    <3>2. /\ cleaner[k].pc \in Reaping /\ cleaner'[k].pc = "zremGeo"
          /\ cleaner'[k].cur = cleaner[k].cur /\ cleaner'[k].cutoff = cleaner[k].cutoff
      BY <2>6 DEF DelHash, CleanerOK, Reaping
    <3> QED
      BY <2>1, <2>2, <3>1, <3>2
      DEF ExpiryOutlivesIndex, ReapOrder, IsReaping, CutoffPassed
  <2>7. CASE ZremGeo(k)
    <3>1. UNCHANGED <<hash, expires>> /\ geo' = geo \ {cleaner[k].cur}
      BY <2>7 DEF ZremGeo
    <3>2. /\ cleaner[k].pc = "zremGeo" /\ cleaner'[k].pc = "zremExpires"
          /\ cleaner'[k].cur = cleaner[k].cur /\ cleaner'[k].cutoff = cleaner[k].cutoff
      BY <2>7 DEF ZremGeo, CleanerOK
    <3> QED
      BY <2>1, <2>2, <3>1, <3>2
      DEF ExpiryOutlivesIndex, ReapOrder, IsReaping, CutoffPassed, Reaping
  <2>8. CASE ZremExpires(k)
    <3>1. /\ UNCHANGED <<geo, hash>>
          /\ \A cl \in Clients : expires'[cl] =
               IF cl = cleaner[k].cur THEN NoScore ELSE expires[cl]
      BY <2>8 DEF ZremExpires, ValkeyOK
    <3>2. /\ cleaner[k].pc = "zremExpires" /\ cleaner'[k].pc \notin Reaping
          /\ cleaner'[k].cutoff = cleaner[k].cutoff
      BY <2>8 DEF ZremExpires, NextClient, CleanerOK, Reaping
    <3>3. NoScore <= now
      BY DEF NoScore, ClockOK, Time
    <3> QED
      BY <2>1, <2>2, <3>1, <3>2, <3>3
      DEF ExpiryOutlivesIndex, ReapOrder, IsReaping, CutoffPassed, Reaping
  <2> QED
    BY <1>4, <2>3, <2>4, <2>5, <2>6, <2>7, <2>8 DEF CleanupStep
<1> QED
  BY <1>1, <1>2, <1>3, <1>4, IndexSteps

(* Nothing is indexed and nothing is being reaped at the start.            *)
LEMMA IndexInvInit == Init => IndexInv
  BY ConstantsAssumption
  DEF Init, IndexInv, ExpiryOutlivesIndex, ReapOrder, CutoffPassed, IsReaping,
      Reaping, IdleCleaner

(* The inductive invariant of the index.                                   *)
LEMMA IndexInvariant == Spec => [](TypeInv /\ IndexInv)
  BY TypeInvInit, TypeInvStep, IndexInvInit, IndexInvStep, PTL DEF Spec

(* A pass that stops half way leaves the expiry entry, so the next pass    *)
(* finishes what it began: whatever fails, and however many passes, posts  *)
(* and connections interleave, only an upsert during the reaping of its    *)
(* own client can leave an indexed client without an expiry.  The types of *)
(* the registry are TypeCorrect's.                                         *)
THEOREM ExpiryLast == Spec => []IndexSafety
  BY TypeCorrect, IndexInvariant, PTL DEF IndexInv, IndexSafety

(* The recheck protects every client that was not upserted after it.       *)
THEOREM FreshKept == Spec => FreshClientKept
<1> DEFINE Kept == \A cl \in Clients \ raced :
       expires[cl] > now => /\ cl \in geo => cl \in geo'
                            /\ hash[cl].loc => hash'[cl].loc
<1>1. TypeInv /\ IndexInv /\ [Next]_vars => Kept
  <2> SUFFICES ASSUME TypeInv, IndexInv, [Next]_vars,
                      NEW cl \in Clients \ raced, expires[cl] > now
               PROVE  /\ cl \in geo => cl \in geo'
                      /\ hash[cl].loc => hash'[cl].loc
    OBVIOUS
  <2> USE DEF TypeInv, TypeOK
  <2>1. CASE IndexFrame
    BY <2>1 DEF IndexFrame
  <2>2. CASE Tick
    BY <2>2 DEF Tick, valkey
  <2>3. ASSUME NEW x \in Clients, NEW e \in inflight[x], UpsertClientLocation(x, e)
        PROVE  /\ cl \in geo => cl \in geo'
               /\ hash[cl].loc => hash'[cl].loc
    BY <2>3 DEF UpsertClientLocation, ValkeyOK
  <2>4. ASSUME NEW k \in Cleaners,
               CleanupStep(k) \/ ClientCleanupFails(k) \/ CleanupDies(k)
        PROVE  /\ cl \in geo => cl \in geo'
               /\ hash[cl].loc => hash'[cl].loc
    <3>1. ~IsReaping(k, cl)
      BY DEF IndexInv, ReapOrder, ValkeyOK, ClockOK, Time, Score, NoScore
    <3>2. CASE DelHash(k)
      BY <3>1, <3>2 DEF DelHash, IsReaping, Reaping, ValkeyOK
    <3>3. CASE ZremGeo(k)
      BY <3>1, <3>3 DEF ZremGeo, IsReaping, Reaping
    <3> QED
      BY <2>4, <3>2, <3>3
      DEF CleanupStep, StartCleanup, ScanExpired, RecheckScore, ReadWsFields,
          CloseWsConnection, DelLookup, ZremExpires, EndCleanup,
          ClientCleanupFails, CleanupDies, valkey
  <2> QED
    BY <2>1, <2>2, <2>3, <2>4, IndexSteps
<1> QED
  BY <1>1, IndexInvariant, PTL DEF Spec, FreshClientKept

-----------------------------------------------------------------------------
(* A connection is open only after its $connect handler is done, and its   *)
(* $disconnect is handled only after it is closed.                         *)
SocketLifecycle ==
  \A c \in Conns :
    /\ socket[c] = "none" <=> connect[c].pc = "idle"
    /\ socket[c] \in {"open", "closed"} <=> connect[c].pc = "done"
    /\ disconnect[c].pc \in {"event", "clear", "del"} => socket[c] = "closed"

(* Only the client a connection was opened for is registered under it.     *)
RegistrationOwned ==
  \A cl \in Clients, c \in Conns :
    hash[cl].ws = c => owner[c] = cl /\ connect[c].pc \in {"set", "reply", "done"}

(* The connection a pass closes is a connection of the client it reaps.    *)
ReapedConnectionOwned ==
  \A k \in Cleaners :
    (cleaner[k].pc \in {"close", "delLookup", "delHash"} /\ cleaner[k].ws \in Conns) =>
      owner[cleaner[k].ws] = cleaner[k].cur /\ connect[cleaner[k].ws].pc # "idle"

AboutToUnregister(cl, c) ==
  \E k \in Cleaners : /\ cleaner[k].pc = "delHash"
                      /\ cleaner[k].cur = cl /\ cleaner[k].ws = c

(* RegistrationFindable, from the moment the lookup is written.            *)
LookupWritten ==
  faults = 0 =>
    \A cl \in Clients, c \in Conns :
      (hash[cl].ws = c /\ (socket[c] = "open" \/ connect[c].pc = "reply")) =>
        lookup[c] = cl \/ AboutToUnregister(cl, c)

RegistrationInv ==
  SocketLifecycle /\ RegistrationOwned /\ ReapedConnectionOwned /\ LookupWritten

RegistrationFrame ==
  UNCHANGED <<hash, lookup, socket, owner, connect, disconnect, cleaner, faults>>

(* Posting a location or a message does not disturb RegistrationInv.       *)
LEMMA RegistrationFrameKeeps == RegistrationInv /\ RegistrationFrame => RegistrationInv'
  BY DEF RegistrationFrame, RegistrationInv, SocketLifecycle, RegistrationOwned,
         ReapedConnectionOwned, LookupWritten, AboutToUnregister

(* Every step keeps registrations owned and, failures aside, findable.     *)
LEMMA RegistrationInvStep ==
  TypeInv /\ TypeInv' /\ RegistrationInv /\ [Next]_vars => RegistrationInv'
<1> SUFFICES ASSUME TypeInv, TypeInv', RegistrationInv, [Next]_vars
             PROVE  RegistrationInv'
  OBVIOUS
<1> USE DEF TypeInv, TypeOK, RegistrationInv
<1>1. CASE Tick
  BY <1>1, RegistrationFrameKeeps DEF Tick, RegistrationFrame, valkey, gateway
<1>2. ASSUME NEW cl \in Clients,
             ReceiveLocation(cl)
      PROVE  RegistrationInv'
  BY <1>2, RegistrationFrameKeeps
  DEF ReceiveLocation, RegistrationFrame, valkey, gateway
<1>3. ASSUME NEW cl \in Clients, NEW e \in inflight[cl],
             UpsertClientLocation(cl, e)
      PROVE  RegistrationInv'
  BY <1>3, ConstantsAssumption
  DEF UpsertClientLocation, valkey, gateway, ValkeyOK, SocketLifecycle,
      RegistrationOwned, ReapedConnectionOwned, LookupWritten, AboutToUnregister
<1>4. ASSUME NEW cl \in Clients, NEW e \in inflight[cl],
             LocationFails(cl, e)
      PROVE  RegistrationInv'
  BY <1>4, ConstantsAssumption
  DEF LocationFails, Fault, valkey, gateway, FaultsOK, SocketLifecycle,
      RegistrationOwned, ReapedConnectionOwned, LookupWritten, AboutToUnregister
<1>5. ASSUME NEW c \in Conns,
             GetExistingWsConnection(c)
      PROVE  RegistrationInv'
  BY <1>5, ConstantsAssumption
  DEF GetExistingWsConnection, valkey, gateway, ConnectOK, SocketLifecycle,
      RegistrationOwned, ReapedConnectionOwned, LookupWritten, AboutToUnregister
<1>6. ASSUME NEW c \in Conns,
             CloseExistingConnectionIfAny(c)
      PROVE  RegistrationInv'
  <2>0. /\ UNCHANGED <<hash, lookup, owner, cleaner>>
        /\ faults' = 0 => faults = 0
        /\ \A x \in Conns :
             /\ socket'[x] # socket[x] => /\ socket[x] = "open" /\ socket'[x] = "closed"
                                         /\ disconnect'[x].pc = "event"
             /\ disconnect'[x].pc # disconnect[x].pc => socket'[x] = "closed"
             /\ x # c => connect'[x] = connect[x]
        /\ connect[c].pc = "close" /\ connect'[c].pc = "hset"
    BY <1>6
    DEF CloseExistingConnectionIfAny, DeleteConnection, Closed, Fault, valkey,
        GatewayOK, ConnectOK, DisconnectOK, FaultsOK
  <2>1. SocketLifecycle'
    BY <2>0 DEF SocketLifecycle
  <2>2. RegistrationOwned'
    BY <2>0 DEF RegistrationOwned
  <2>3. ReapedConnectionOwned'
    BY <2>0 DEF ReapedConnectionOwned
  <2>4. LookupWritten'
    BY <2>0 DEF LookupWritten, AboutToUnregister
  <2> QED
    BY <2>1, <2>2, <2>3, <2>4
<1>7. ASSUME NEW c \in Conns,
             RegisterConnection(c)
      PROVE  RegistrationInv'
  <2>1. SocketLifecycle'
    BY <1>7
    DEF RegisterConnection, valkey, gateway, ValkeyOK, ConnectOK,
        SocketLifecycle
  <2>2. RegistrationOwned'
    BY <1>7, ConstantsAssumption
    DEF RegisterConnection, valkey, gateway, ValkeyOK, ConnectOK,
        RegistrationOwned
  <2>3. ReapedConnectionOwned'
    BY <1>7
    DEF RegisterConnection, valkey, gateway, ValkeyOK, ConnectOK,
        ReapedConnectionOwned
  <2>4. LookupWritten'
    BY <1>7, ConstantsAssumption
    DEF RegisterConnection, valkey, gateway, ValkeyOK, ConnectOK, LookupWritten,
        AboutToUnregister, SocketLifecycle
  <2> QED
    BY <2>1, <2>2, <2>3, <2>4
<1>8. ASSUME NEW c \in Conns,
             SetConnectionLookup(c)
      PROVE  RegistrationInv'
  <2>1. SocketLifecycle'
    BY <1>8
    DEF SetConnectionLookup, valkey, gateway, ValkeyOK, ConnectOK,
        SocketLifecycle
  <2>2. RegistrationOwned'
    BY <1>8, ConstantsAssumption
    DEF SetConnectionLookup, valkey, gateway, ValkeyOK, ConnectOK,
        RegistrationOwned
  <2>3. ReapedConnectionOwned'
    BY <1>8
    DEF SetConnectionLookup, valkey, gateway, ValkeyOK, ConnectOK,
        ReapedConnectionOwned
  <2>4. LookupWritten'
    BY <1>8, ConstantsAssumption
    DEF SetConnectionLookup, valkey, gateway, ValkeyOK, ConnectOK,
        LookupWritten, AboutToUnregister, RegistrationOwned
  <2> QED
    BY <2>1, <2>2, <2>3, <2>4
<1>9. ASSUME NEW c \in Conns,
             ConnectReplies(c)
      PROVE  RegistrationInv'
  BY <1>9, ConstantsAssumption
  DEF ConnectReplies, valkey, gateway, GatewayOK, ConnectOK, SocketLifecycle,
      RegistrationOwned, ReapedConnectionOwned, LookupWritten, AboutToUnregister
<1>10. ASSUME NEW c \in Conns,
             GetConnectionLookup(c)
      PROVE  RegistrationInv'
  BY <1>10, ConstantsAssumption
  DEF GetConnectionLookup, valkey, gateway, DisconnectOK, SocketLifecycle,
      RegistrationOwned, ReapedConnectionOwned, LookupWritten, AboutToUnregister
<1>11. ASSUME NEW c \in Conns,
             UnregisterConnection(c)
      PROVE  RegistrationInv'
  <2>1. SocketLifecycle'
    BY <1>11
    DEF UnregisterConnection, ClearWsInfoIfSameConnection, valkey, gateway,
        ValkeyOK, DisconnectOK, SocketLifecycle
  <2>2. RegistrationOwned'
    BY <1>11, ConstantsAssumption
    DEF UnregisterConnection, ClearWsInfoIfSameConnection, valkey, gateway,
        ValkeyOK, DisconnectOK, RegistrationOwned
  <2>3. ReapedConnectionOwned'
    BY <1>11
    DEF UnregisterConnection, ClearWsInfoIfSameConnection, valkey, gateway,
        ValkeyOK, DisconnectOK, ReapedConnectionOwned
  <2>4. LookupWritten'
    BY <1>11, ConstantsAssumption
    DEF UnregisterConnection, ClearWsInfoIfSameConnection, valkey, gateway,
        ValkeyOK, DisconnectOK, LookupWritten, AboutToUnregister
  <2> QED
    BY <2>1, <2>2, <2>3, <2>4
<1>12. ASSUME NEW c \in Conns,
             DeleteConnectionLookup(c)
      PROVE  RegistrationInv'
  BY <1>12, ConstantsAssumption
  DEF DeleteConnectionLookup, valkey, gateway, ValkeyOK, DisconnectOK,
      SocketLifecycle, RegistrationOwned, ReapedConnectionOwned, LookupWritten,
      AboutToUnregister
<1>13. ASSUME NEW c \in Conns, NEW cl \in Clients,
             OpenSocket(c, cl)
      PROVE  RegistrationInv'
  <2>1. SocketLifecycle'
    BY <1>13 DEF OpenSocket, valkey, gateway, GatewayOK, ConnectOK, SocketLifecycle
  <2>2. RegistrationOwned'
    BY <1>13
    DEF OpenSocket, valkey, gateway, GatewayOK, ConnectOK, RegistrationOwned,
        SocketLifecycle
  <2>3. ReapedConnectionOwned'
    BY <1>13
    DEF OpenSocket, valkey, gateway, GatewayOK, ConnectOK,
        ReapedConnectionOwned, SocketLifecycle
  <2>4. LookupWritten'
    BY <1>13
    DEF OpenSocket, valkey, gateway, GatewayOK, ConnectOK, LookupWritten,
        AboutToUnregister, SocketLifecycle, RegistrationOwned
  <2> QED
    BY <2>1, <2>2, <2>3, <2>4
<1>14. ASSUME NEW c \in Conns,
             ClientCloses(c)
      PROVE  RegistrationInv'
  BY <1>14, ConstantsAssumption
  DEF ClientCloses, Closed, valkey, gateway, GatewayOK, DisconnectOK,
      SocketLifecycle, RegistrationOwned, ReapedConnectionOwned, LookupWritten,
      AboutToUnregister
<1>15. ASSUME NEW c \in Conns,
             DisconnectEventLost(c)
      PROVE  RegistrationInv'
  BY <1>15, ConstantsAssumption
  DEF DisconnectEventLost, Fault, valkey, gateway, DisconnectOK, FaultsOK,
      SocketLifecycle, RegistrationOwned, ReapedConnectionOwned, LookupWritten,
      AboutToUnregister
<1>16. ASSUME NEW c \in Conns,
             LookupExpires(c)
      PROVE  RegistrationInv'
  BY <1>16, ConstantsAssumption
  DEF LookupExpires, valkey, gateway, ValkeyOK, SocketLifecycle,
      RegistrationOwned, ReapedConnectionOwned, LookupWritten, AboutToUnregister
<1>17. ASSUME NEW c \in Conns,
             ConnectFails(c)
      PROVE  RegistrationInv'
  BY <1>17, ConstantsAssumption
  DEF ConnectFails, Fault, valkey, gateway, GatewayOK, ConnectOK, FaultsOK,
      SocketLifecycle, RegistrationOwned, ReapedConnectionOwned, LookupWritten,
      AboutToUnregister
<1>18. ASSUME NEW c \in Conns,
             DisconnectFails(c)
      PROVE  RegistrationInv'
  BY <1>18, ConstantsAssumption
  DEF DisconnectFails, Fault, valkey, gateway, DisconnectOK, FaultsOK,
      SocketLifecycle, RegistrationOwned, ReapedConnectionOwned, LookupWritten,
      AboutToUnregister
<1>19. ASSUME NEW k \in Cleaners,
             StartCleanup(k)
      PROVE  RegistrationInv'
  BY <1>19, ConstantsAssumption
  DEF StartCleanup, valkey, gateway, CleanerOK, SocketLifecycle,
      RegistrationOwned, ReapedConnectionOwned, LookupWritten, AboutToUnregister
<1>20. ASSUME NEW k \in Cleaners,
             ScanExpired(k)
      PROVE  RegistrationInv'
  <2>1. SocketLifecycle'
    BY <1>20 DEF ScanExpired, valkey, gateway, CleanerOK, SocketLifecycle
  <2>2. RegistrationOwned'
    BY <1>20 DEF ScanExpired, valkey, gateway, CleanerOK, RegistrationOwned
  <2>3. ReapedConnectionOwned'
    BY <1>20 DEF ScanExpired, valkey, gateway, CleanerOK, ReapedConnectionOwned
  <2>4. LookupWritten'
    <3>1. \A cl \in Clients, c \in Conns :
            AboutToUnregister(cl, c) => AboutToUnregister(cl, c)'
      <4>1. /\ cleaner[k].pc = "scan"
            /\ \A x \in Cleaners \ {k} : cleaner'[x] = cleaner[x]
        BY <1>20 DEF ScanExpired, CleanerOK
      <4> QED
        BY <4>1 DEF AboutToUnregister
    <3>2. UNCHANGED <<hash, lookup, socket, owner, connect, disconnect, faults>>
      BY <1>20 DEF ScanExpired, valkey, gateway
    <3> QED
      BY <3>1, <3>2 DEF LookupWritten
  <2> QED
    BY <2>1, <2>2, <2>3, <2>4
<1>21. ASSUME NEW k \in Cleaners, NEW cl \in cleaner[k].todo,
             RecheckScore(k, cl)
      PROVE  RegistrationInv'
  <2>0. /\ UNCHANGED <<hash, lookup, socket, owner, connect, disconnect, faults>>
        /\ cleaner[k].pc = "pick" /\ cleaner'[k].pc \in {"hmget", "pick"}
        /\ \A x \in Cleaners \ {k} : cleaner'[x] = cleaner[x]
    BY <1>21 DEF RecheckScore, valkey, gateway, CleanerOK
  <2>1. SocketLifecycle'
    BY <2>0 DEF SocketLifecycle
  <2>2. RegistrationOwned'
    BY <2>0 DEF RegistrationOwned
  <2>3. ReapedConnectionOwned'
    BY <2>0 DEF ReapedConnectionOwned
  <2>4. LookupWritten'
    BY <2>0 DEF LookupWritten, AboutToUnregister
  <2> QED
    BY <2>1, <2>2, <2>3, <2>4
<1>22. ASSUME NEW k \in Cleaners,
             ReadWsFields(k)
      PROVE  RegistrationInv'
  <2>0. /\ UNCHANGED <<hash, lookup, socket, owner, connect, disconnect, faults>>
        /\ cleaner[k].pc = "hmget" /\ cleaner'[k].cur = cleaner[k].cur
        /\ cleaner[k].cur \in Clients
        /\ cleaner'[k].ws = hash[cleaner[k].cur].ws
        /\ \A x \in Cleaners \ {k} : cleaner'[x] = cleaner[x]
    <3>1. /\ UNCHANGED <<hash, lookup, socket, owner, connect, disconnect, faults>>
          /\ cleaner[k].pc = "hmget"
      BY <1>22 DEF ReadWsFields, valkey, gateway
    <3>2. cleaner[k].cur \in Clients
      BY <3>1 DEF CurBound, Reaping
    <3> DEFINE pc == IF hash[cleaner[k].cur].ws = NoConn THEN "delHash" ELSE "close"
    <3>3. cleaner' = [cleaner EXCEPT ![k].ws = hash[cleaner[k].cur].ws, ![k].pc = pc]
      BY <1>22 DEF ReadWsFields
    <3> HIDE DEF pc
    <3>4. /\ cleaner'[k].cur = cleaner[k].cur
          /\ cleaner'[k].ws = hash[cleaner[k].cur].ws
          /\ \A x \in Cleaners \ {k} : cleaner'[x] = cleaner[x]
      BY <3>3 DEF CleanerOK
    <3> QED
      BY <3>1, <3>2, <3>4
  <2>1. SocketLifecycle'
    BY <2>0 DEF SocketLifecycle
  <2>2. RegistrationOwned'
    BY <2>0 DEF RegistrationOwned
  <2>3. ReapedConnectionOwned'
    BY <2>0 DEF ReapedConnectionOwned, RegistrationOwned, ValkeyOK
  <2>4. LookupWritten'
    BY <2>0 DEF LookupWritten, AboutToUnregister
  <2> QED
    BY <2>1, <2>2, <2>3, <2>4
<1>23. ASSUME NEW k \in Cleaners,
             CloseWsConnection(k)
      PROVE  RegistrationInv'
  <2>1. SocketLifecycle'
    BY <1>23
    DEF CloseWsConnection, DeleteConnection, Closed, Fault, valkey, gateway,
        GatewayOK, DisconnectOK, CleanerOK, FaultsOK, SocketLifecycle
  <2>2. RegistrationOwned'
    BY <1>23
    DEF CloseWsConnection, DeleteConnection, Closed, Fault, valkey, gateway,
        GatewayOK, DisconnectOK, CleanerOK, FaultsOK, RegistrationOwned
  <2>3. ReapedConnectionOwned'
    BY <1>23
    DEF CloseWsConnection, DeleteConnection, Closed, Fault, valkey, gateway,
        GatewayOK, DisconnectOK, CleanerOK, FaultsOK, ReapedConnectionOwned
  <2>4. LookupWritten'
    BY <1>23
    DEF CloseWsConnection, DeleteConnection, Closed, Fault, valkey, gateway,
        GatewayOK, DisconnectOK, CleanerOK, FaultsOK, LookupWritten,
        AboutToUnregister
  <2> QED
    BY <2>1, <2>2, <2>3, <2>4
<1>24. ASSUME NEW k \in Cleaners,
             DelLookup(k)
      PROVE  RegistrationInv'
  <2>1. SocketLifecycle'
    BY <1>24 DEF DelLookup, valkey, gateway, ValkeyOK, CleanerOK, SocketLifecycle
  <2>2. RegistrationOwned'
    BY <1>24, ConstantsAssumption
    DEF DelLookup, valkey, gateway, ValkeyOK, CleanerOK, RegistrationOwned
  <2>3. ReapedConnectionOwned'
    BY <1>24
    DEF DelLookup, valkey, gateway, ValkeyOK, CleanerOK, ReapedConnectionOwned
  <2>4. LookupWritten'
    BY <1>24, ConstantsAssumption
    DEF DelLookup, valkey, gateway, ValkeyOK, CleanerOK, LookupWritten,
        AboutToUnregister, RegistrationOwned, ReapedConnectionOwned
  <2> QED
    BY <2>1, <2>2, <2>3, <2>4
<1>25. ASSUME NEW k \in Cleaners,
             DelHash(k)
      PROVE  RegistrationInv'
  <2>0. /\ UNCHANGED <<lookup, socket, owner, connect, disconnect, faults>>
        /\ cleaner[k].pc = "delHash" /\ cleaner'[k].pc = "zremGeo"
        /\ \A x \in Cleaners \ {k} : cleaner'[x] = cleaner[x]
        /\ \A cl \in Clients : \/ cl = cleaner[k].cur /\ hash'[cl].ws = NoConn
                               \/ cl # cleaner[k].cur /\ hash'[cl] = hash[cl]
    BY <1>25 DEF DelHash, gateway, CleanerOK, ValkeyOK
  <2>1. SocketLifecycle'
    BY <2>0 DEF SocketLifecycle
  <2>2. RegistrationOwned'
    BY <2>0, ConstantsAssumption DEF RegistrationOwned
  <2>3. ReapedConnectionOwned'
    BY <2>0 DEF ReapedConnectionOwned
  <2>4. LookupWritten'
    BY <2>0, ConstantsAssumption DEF LookupWritten, AboutToUnregister
  <2> QED
    BY <2>1, <2>2, <2>3, <2>4
<1>26. ASSUME NEW k \in Cleaners,
             ZremGeo(k)
      PROVE  RegistrationInv'
  BY <1>26, ConstantsAssumption
  DEF ZremGeo, valkey, gateway, ValkeyOK, CleanerOK, SocketLifecycle,
      RegistrationOwned, ReapedConnectionOwned, LookupWritten, AboutToUnregister
<1>27. ASSUME NEW k \in Cleaners,
             ZremExpires(k)
      PROVE  RegistrationInv'
  BY <1>27, ConstantsAssumption
  DEF ZremExpires, NextClient, valkey, gateway, ValkeyOK, CleanerOK,
      SocketLifecycle, RegistrationOwned, ReapedConnectionOwned, LookupWritten,
      AboutToUnregister
<1>28. ASSUME NEW k \in Cleaners,
             EndCleanup(k)
      PROVE  RegistrationInv'
  BY <1>28, ConstantsAssumption
  DEF EndCleanup, IdleCleaner, valkey, gateway, CleanerOK, SocketLifecycle,
      RegistrationOwned, ReapedConnectionOwned, LookupWritten, AboutToUnregister
<1>29. ASSUME NEW k \in Cleaners,
             ClientCleanupFails(k)
      PROVE  RegistrationInv'
  BY <1>29, ConstantsAssumption
  DEF ClientCleanupFails, NextClient, Fault, valkey, gateway, CleanerOK,
      FaultsOK, SocketLifecycle, RegistrationOwned, ReapedConnectionOwned,
      LookupWritten, AboutToUnregister
<1>30. ASSUME NEW k \in Cleaners,
             CleanupDies(k)
      PROVE  RegistrationInv'
  BY <1>30, ConstantsAssumption
  DEF CleanupDies, IdleCleaner, Fault, valkey, gateway, CleanerOK, FaultsOK,
      SocketLifecycle, RegistrationOwned, ReapedConnectionOwned, LookupWritten,
      AboutToUnregister
<1>31. ASSUME NEW b \in Broadcasters,
             FindNearbyWsClients(b)
      PROVE  RegistrationInv'
  BY <1>31, RegistrationFrameKeeps
  DEF FindNearbyWsClients, RegistrationFrame, valkey, gateway
<1>32. ASSUME NEW b \in Broadcasters,
             GeoSearch(b)
      PROVE  RegistrationInv'
  BY <1>32, RegistrationFrameKeeps DEF GeoSearch, RegistrationFrame, valkey, gateway
<1>33. ASSUME NEW b \in Broadcasters, NEW cl \in caster[b].ids,
             FetchConnection(b, cl)
      PROVE  RegistrationInv'
  BY <1>33, RegistrationFrameKeeps
  DEF FetchConnection, RegistrationFrame, valkey, gateway
<1>34. ASSUME NEW b \in Broadcasters, NEW t \in caster[b].targets,
             PostToConnection(b, t)
      PROVE  RegistrationInv'
  BY <1>34, RegistrationFrameKeeps
  DEF PostToConnection, RegistrationFrame, valkey, gateway
<1>35. ASSUME NEW b \in Broadcasters, NEW t \in caster[b].gone,
             ClearGone(b, t)
      PROVE  RegistrationInv'
  <2>1. SocketLifecycle'
    BY <1>35
    DEF ClearGone, ClearWsInfoIfSameConnection, valkey, gateway, ValkeyOK,
        SocketLifecycle
  <2>2. RegistrationOwned'
    BY <1>35, ConstantsAssumption
    DEF ClearGone, ClearWsInfoIfSameConnection, valkey, gateway, ValkeyOK,
        RegistrationOwned
  <2>3. ReapedConnectionOwned'
    BY <1>35
    DEF ClearGone, ClearWsInfoIfSameConnection, valkey, gateway, ValkeyOK,
        ReapedConnectionOwned
  <2>4. LookupWritten'
    BY <1>35, ConstantsAssumption
    DEF ClearGone, ClearWsInfoIfSameConnection, valkey, gateway, ValkeyOK,
        LookupWritten, AboutToUnregister
  <2> QED
    BY <2>1, <2>2, <2>3, <2>4
<1>36. ASSUME NEW b \in Broadcasters, NEW t \in caster[b].gone,
             ClearGoneFails(b, t)
      PROVE  RegistrationInv'
  BY <1>36, ConstantsAssumption
  DEF ClearGoneFails, Fault, valkey, gateway, FaultsOK, SocketLifecycle,
      RegistrationOwned, ReapedConnectionOwned, LookupWritten, AboutToUnregister
<1>37. ASSUME NEW b \in Broadcasters,
             EndBroadcast(b)
      PROVE  RegistrationInv'
  BY <1>37, RegistrationFrameKeeps
  DEF EndBroadcast, RegistrationFrame, valkey, gateway
<1>38. CASE UNCHANGED vars
  BY <1>38, RegistrationFrameKeeps DEF vars, RegistrationFrame
<1> QED
  BY <1>1, <1>2, <1>3, <1>4, <1>5, <1>6, <1>7, <1>8, <1>9, <1>10,
     <1>11, <1>12, <1>13, <1>14, <1>15, <1>16, <1>17, <1>18, <1>19, <1>20,
     <1>21, <1>22, <1>23, <1>24, <1>25, <1>26, <1>27, <1>28, <1>29, <1>30,
     <1>31, <1>32, <1>33, <1>34, <1>35, <1>36, <1>37, <1>38
  DEF Next, LocationStep, ConnectStep, DisconnectStep, GatewayStep, CleanupStep,
      BroadcastStep

(* There is no connection at the start.                                    *)
LEMMA RegistrationInvInit == Init => RegistrationInv
  BY ConstantsAssumption
  DEF Init, RegistrationInv, SocketLifecycle, RegistrationOwned,
      ReapedConnectionOwned, LookupWritten, IdleConnect, IdleDisconnect,
      IdleCleaner

(* The inductive invariant of the registrations.                           *)
LEMMA RegistrationInvariant == Spec => [](TypeInv /\ RegistrationInv)
  BY TypeInvInit, TypeInvStep, RegistrationInvInit, RegistrationInvStep, PTL
  DEF Spec

(* While nothing fails, $disconnect always finds the registration it has   *)
(* to remove, for any number of clients, connections and passes.           *)
THEOREM DisconnectFindsIt == Spec => []RegistrationFindable
<1>1. RegistrationInv => RegistrationFindable
  BY DEF RegistrationInv, LookupWritten, AboutToUnregister, RegistrationFindable
<1> QED
  BY <1>1, RegistrationInvariant, PTL

(* The conditional delete of ws-disconnect and of the broadcasters never   *)
(* takes away the registration of another, open connection.                *)
THEOREM ReconnectSafe == Spec => ReconnectNotWiped
<1> DEFINE Wiped(cl, c) ==
             hash[cl].ws = c /\ socket[c] = "open" /\ hash'[cl].ws = NoConn
           Excused(cl, c) == \/ \E k \in Cleaners : IsReaping(k, cl)
                             \/ \E b \in Broadcasters : <<cl, c>> \in caster[b].gone
           NotWiped == \A cl \in Clients, c \in Conns : Wiped(cl, c) => Excused(cl, c)
<1>1. TypeInv /\ RegistrationInv /\ [Next]_vars => NotWiped
  <2> SUFFICES ASSUME TypeInv, RegistrationInv, [Next]_vars,
                      NEW cl \in Clients, NEW c \in Conns, Wiped(cl, c)
               PROVE  Excused(cl, c)
    OBVIOUS
  <2> USE DEF TypeInv, TypeOK
  <2>1. hash'[cl].ws # hash[cl].ws
    BY ConstantsAssumption
  <2>2. ASSUME NEW x \in Clients, LocationStep(x)
        PROVE  FALSE
    BY <2>1, <2>2
    DEF LocationStep, ReceiveLocation, UpsertClientLocation, LocationFails,
        ValkeyOK, valkey
  <2>3. ASSUME NEW d \in Conns, ConnectStep(d)
        PROVE  FALSE
    <3>1. CASE RegisterConnection(d)
      BY <2>1, <3>1, ConstantsAssumption DEF RegisterConnection, ValkeyOK
    <3> QED
      BY <2>1, <2>3, <3>1
      DEF ConnectStep, GetExistingWsConnection, CloseExistingConnectionIfAny,
          SetConnectionLookup, ConnectReplies, valkey
  <2>4. ASSUME NEW d \in Conns, DisconnectStep(d)
        PROVE  FALSE
    <3>1. CASE UnregisterConnection(d)
      <4>1. socket[d] = "closed"
        BY <3>1 DEF UnregisterConnection, RegistrationInv, SocketLifecycle
      <4>2. c = d
        BY <2>1, <3>1
        DEF UnregisterConnection, ClearWsInfoIfSameConnection, ValkeyOK
      <4> QED
        BY <4>1, <4>2
    <3> QED
      BY <2>1, <2>4, <3>1
      DEF DisconnectStep, GetConnectionLookup, DeleteConnectionLookup, valkey
  <2>5. ASSUME NEW k \in Cleaners,
               CleanupStep(k) \/ ClientCleanupFails(k) \/ CleanupDies(k)
        PROVE  Excused(cl, c)
    <3>1. CASE DelHash(k)
      BY <2>1, <3>1 DEF DelHash, IsReaping, Reaping, ValkeyOK
    <3> QED
      BY <2>1, <2>5, <3>1
      DEF CleanupStep, StartCleanup, ScanExpired, RecheckScore, ReadWsFields,
          CloseWsConnection, DelLookup, ZremGeo, ZremExpires, EndCleanup,
          ClientCleanupFails, CleanupDies, valkey
  <2>6. ASSUME NEW b \in Broadcasters, BroadcastStep(b)
        PROVE  Excused(cl, c)
    <3>1. ASSUME NEW t \in caster[b].gone, ClearGone(b, t)
          PROVE  Excused(cl, c)
      <4>1. t = <<t[1], t[2]>> /\ t[1] \in Clients /\ t[2] \in Conns
        BY DEF CasterOK, Target
      <4>2. t[1] = cl /\ t[2] = c
        BY <2>1, <3>1, <4>1 DEF ClearGone, ClearWsInfoIfSameConnection, ValkeyOK
      <4> QED
        BY <4>1, <4>2
    <3> QED
      BY <2>1, <2>6, <3>1
      DEF BroadcastStep, FindNearbyWsClients, GeoSearch, FetchConnection,
          PostToConnection, ClearGoneFails, EndBroadcast, valkey
  <2>7. CASE Tick \/ UNCHANGED vars
    BY <2>1, <2>7 DEF Tick, vars, valkey
  <2>8. ASSUME NEW d \in Conns, GatewayStep(d)
        PROVE  FALSE
    BY <2>1, <2>8
    DEF GatewayStep, OpenSocket, ClientCloses, DisconnectEventLost,
        LookupExpires, ConnectFails, DisconnectFails, valkey
  <2> QED
    BY <2>2, <2>3, <2>4, <2>5, <2>6, <2>7, <2>8 DEF Next
<1> QED
  BY <1>1, RegistrationInvariant, PTL DEF Spec, ReconnectNotWiped
=============================================================================
