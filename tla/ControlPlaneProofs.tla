-------------------------- MODULE ControlPlaneProofs --------------------------
(***************************************************************************)
(* What administrators change, for any number of requests, Apps, intents,  *)
(* clusters' forms, faults and kills: the GitHub connection                *)
(* (GithubConnection), a compute cluster (ClusterCapacity) and the row     *)
(* editor (RowBrowser).                                                    *)
(***************************************************************************)
EXTENDS GithubConnection, ClusterCapacity, RowBrowser, FiniteSetTheorems, WellFoundedInduction, TLAPS

(***************************************************************************)
(* The GitHub connection: what a request carries at each of its calls      *)
(***************************************************************************)

GhKeys == [app : Apps \cup {NoApp}, spelling : {"lines", "escaped"}]

SaveCalls     == [pc : {"put", "verify", "record"}, op : {"save"}, key : GhKeys]
ManifestCalls == [pc : {"redeem", "list", "put", "verify", "record"}, op : {"manifest"},
                  admin : Admins, intent : Intents, key : GhKeys]
ForgetCalls   == [pc : {"clear", "deleteRow"}, op : {"forget"}]
InstallCalls  == [pc : {"redeem", "get", "insert"}, op : {"install"},
                  admin : Admins, intent : Intents, of : Apps]
RemoveCalls   == [pc : {"revoke", "forgetRow"}, op : {"remove"}, of : Apps]

GhRequests ==
  {GhIdle} \cup SaveCalls \cup ManifestCalls \cup ForgetCalls \cup InstallCalls \cup RemoveCalls

GhLeft == [kills : Nat, recycles : Nat, starts : Nat,
           alone : BOOLEAN, pasted : BOOLEAN, stale : BOOLEAN]

GhIntents == [id : Intents, purpose : Purposes, by : Admins]

GhStored ==
  /\ app \in Apps \cup {NoApp} /\ secret \in GhKeys /\ signer \in GhKeys
  /\ grant \subseteq Apps /\ rows \subseteq Apps
  /\ intents \subseteq GhIntents
  /\ redeemed \in [Intents -> Nat]

GhTypes ==
  /\ GhStored
  /\ ghq \in [GithubReqs -> GhRequests]
  /\ gleft \in GhLeft

(* An intent that is still there was never accepted, and is alone under    *)
(* its token.                                                              *)
IntentsFresh ==
  /\ \A i, j \in intents : i.id = j.id => i = j
  /\ \A i \in intents : redeemed[i.id] = 0
  /\ IntentSpentOnce

(* While no request has overlapped another, none was a paste and none has  *)
(* signed with replaced credentials: the installations recorded are of the *)
(* App whose key is stored, nothing is recorded where the key is about to  *)
(* be replaced or cleared, and what is about to be recorded is of the App  *)
(* whose key is stored.                                                    *)
GhCalm ==
  gleft.alone /\ ~gleft.pasted /\ ~gleft.stale =>
    /\ \A q, r \in GithubReqs : ghq[q].pc # "idle" /\ ghq[r].pc # "idle" => q = r
    /\ \A a \in rows : secret.app = a
    /\ \A q \in GithubReqs :
         /\ ghq[q].pc # "idle" => ghq[q].op # "save"
         /\ ghq[q].pc \in {"put", "clear"} => rows = {}
         /\ ghq[q].pc = "insert" => ghq[q].of = secret.app

GithubInv == GhTypes /\ IntentsFresh /\ GhCalm

-----------------------------------------------------------------------------
LEMMA GhStart == GithubInit => GithubInv
  BY GithubAssumption DEF GithubInit, GithubInv, GhTypes, GhStored, IntentsFresh, GhCalm, GhKeys, NoKey,
     GhRequests, GhIdle, GhLeft, IntentSpentOnce
(* A request between two calls moves on to the next of its operation.      *)
LEMMA GhMoves ==
  ASSUME NEW r, NEW pc,
         \/ r \in SaveCalls /\ pc \in {"put", "verify", "record"}
         \/ r \in ManifestCalls /\ pc \in {"redeem", "list", "put", "verify", "record"}
         \/ r \in ForgetCalls /\ pc \in {"clear", "deleteRow"}
         \/ r \in InstallCalls /\ pc \in {"redeem", "get", "insert"}
         \/ r \in RemoveCalls /\ pc \in {"revoke", "forgetRow"}
  PROVE  [r EXCEPT !.pc = pc] \in GhRequests
<1>1. CASE r \in SaveCalls /\ pc \in {"put", "verify", "record"}
  <2>1. [r EXCEPT !.pc = pc] \in SaveCalls
    BY <1>1 DEF SaveCalls
  <2>2. QED BY <2>1 DEF GhRequests
<1>2. CASE r \in ManifestCalls /\ pc \in {"redeem", "list", "put", "verify", "record"}
  <2>1. [r EXCEPT !.pc = pc] \in ManifestCalls
    BY <1>2 DEF ManifestCalls
  <2>2. QED BY <2>1 DEF GhRequests
<1>3. CASE r \in ForgetCalls /\ pc \in {"clear", "deleteRow"}
  <2>1. [r EXCEPT !.pc = pc] \in ForgetCalls
    BY <1>3 DEF ForgetCalls
  <2>2. QED BY <2>1 DEF GhRequests
<1>4. CASE r \in InstallCalls /\ pc \in {"redeem", "get", "insert"}
  <2>1. [r EXCEPT !.pc = pc] \in InstallCalls
    BY <1>4 DEF InstallCalls
  <2>2. QED BY <2>1 DEF GhRequests
<1>5. CASE r \in RemoveCalls /\ pc \in {"revoke", "forgetRow"}
  <2>1. [r EXCEPT !.pc = pc] \in RemoveCalls
    BY <1>5 DEF RemoveCalls
  <2>2. QED BY <2>1 DEF GhRequests
<1>6. QED BY <1>1, <1>2, <1>3, <1>4, <1>5

(* Which operation a request at a call belongs to.                         *)
LEMMA GhCalls ==
  ASSUME NEW r \in GhRequests
  PROVE  /\ r.pc = "idle" => r = GhIdle
         /\ r.pc \in {"put", "verify", "record"} => r \in SaveCalls \cup ManifestCalls
         /\ r.pc = "list" => r \in ManifestCalls
         /\ r.pc = "redeem" => r \in ManifestCalls \cup InstallCalls
         /\ r.pc \in {"clear", "deleteRow"} => r \in ForgetCalls
         /\ r.pc \in {"get", "insert"} => r \in InstallCalls
         /\ r.pc \in {"revoke", "forgetRow"} => r \in RemoveCalls
BY DEF GhRequests, GhIdle, SaveCalls, ManifestCalls, ForgetCalls, InstallCalls, RemoveCalls

LEMMA GhFields ==
  ASSUME NEW r
  PROVE  /\ r \in SaveCalls => r.op = "save" /\ r.key \in GhKeys
         /\ r \in ManifestCalls => /\ r.op = "manifest" /\ r.key \in GhKeys
                                   /\ r.admin \in Admins /\ r.intent \in Intents
         /\ r \in ForgetCalls => r.op = "forget"
         /\ r \in InstallCalls => /\ r.op = "install" /\ r.of \in Apps
                                  /\ r.admin \in Admins /\ r.intent \in Intents
         /\ r \in RemoveCalls => r.op = "remove" /\ r.of \in Apps
BY DEF SaveCalls, ManifestCalls, ForgetCalls, InstallCalls, RemoveCalls

LEMMA Credentials ==
  ASSUME GhStored
  PROVE  loadCredentials \in GhKeys
BY DEF GhStored, loadCredentials, normalizePem

LEMMA GhDoneKept ==
  ASSUME NEW q \in GithubReqs, ghq \in [GithubReqs -> GhRequests], GhDone(q)
  PROVE  ghq' \in [GithubReqs -> GhRequests]
BY DEF GhDone, GhRequests

LEMMA GhGoKept ==
  ASSUME NEW q \in GithubReqs, ghq \in [GithubReqs -> GhRequests], NEW pc, GhGo(q, pc),
         [ghq[q] EXCEPT !.pc = pc] \in GhRequests
  PROVE  ghq' \in [GithubReqs -> GhRequests]
BY DEF GhGo

LEMMA GhBegun ==
  ASSUME GhTypes, NEW q \in GithubReqs, NEW request \in GhRequests, BeginCall(q, request)
  PROVE  ghq' \in [GithubReqs -> GhRequests] /\ gleft' \in GhLeft
<1>1. ghq' \in [GithubReqs -> GhRequests]
  BY DEF GhTypes, BeginCall
<1>2. gleft.starts - 1 \in Nat
  BY DEF GhTypes, GhLeft, BeginCall
<1>3. gleft' \in GhLeft
  BY <1>2 DEF GhTypes, GhLeft, BeginCall
<1>4. QED BY <1>1, <1>3

LEMMA GhCalled ==
  ASSUME GhTypes, CallAsApp
  PROVE  signer' \in GhKeys /\ gleft' \in GhLeft
<1>1. loadCredentials \in GhKeys
  BY Credentials DEF GhTypes
<1>2. gleft' \in GhLeft
  BY DEF GhTypes, GhLeft, CallAsApp
<1>3. QED BY <1>1, <1>2 DEF CallAsApp

LEMMA GhTypesKept ==
  ASSUME GhTypes, GithubNext
  PROVE  GhTypes'
<1> USE GithubAssumption
<1>0. GhStored /\ ghq \in [GithubReqs -> GhRequests] /\ gleft \in GhLeft
  BY DEF GhTypes
<1>1. ASSUME NEW u \in Admins, createManifestIntent(u) PROVE GhTypes'
  <2>1. GhStored'
    BY <1>0, <1>1 DEF createManifestIntent, NewIntent, Unissued, GhIntents, Purposes, GhStored
  <2>2. ghq' \in [GithubReqs -> GhRequests]
    BY <1>0, <1>1 DEF createManifestIntent
  <2>3. gleft' \in GhLeft
    BY <1>0, <1>1 DEF createManifestIntent
  <2>4. QED BY <2>1, <2>2, <2>3 DEF GhTypes
<1>2. ASSUME NEW u \in Admins, createInstallIntent(u) PROVE GhTypes'
  <2>1. signer' \in GhKeys /\ gleft' \in GhLeft
    BY <1>2, GhCalled DEF createInstallIntent
  <2>2. GhStored'
    BY <1>0, <1>2, <2>1 DEF createInstallIntent, NewIntent, Unissued, GhIntents, Purposes, GhStored
  <2>3. ghq' \in [GithubReqs -> GhRequests]
    BY <1>0, <1>2 DEF createInstallIntent
  <2>4. QED BY <2>2, <2>3, <2>1 DEF GhTypes
<1>3. ASSUME NEW i \in intents, IntentExpires(i) PROVE GhTypes'
  <2>1. GhStored'
    BY <1>0, <1>3 DEF IntentExpires, GhStored
  <2>2. ghq' \in [GithubReqs -> GhRequests]
    BY <1>0, <1>3 DEF IntentExpires
  <2>3. gleft' \in GhLeft
    BY <1>0, <1>3 DEF IntentExpires
  <2>4. QED BY <2>1, <2>2, <2>3 DEF GhTypes
<1>4. ASSUME NEW q \in GithubReqs, NEW a \in Apps, NEW s \in Spellings, StartSave(q, a, s) PROVE GhTypes'
  <2>1. [pc |-> "put", op |-> "save", key |-> Key(a, s)] \in SaveCalls
    BY DEF SaveCalls, Key, GhKeys
  <2>2. ghq' \in [GithubReqs -> GhRequests] /\ gleft' \in GhLeft
    BY <2>1, <1>4, GhBegun DEF StartSave, GhRequests
  <2>3. GhStored'
    BY <1>0, <1>4 DEF StartSave, GhStored
  <2>4. QED BY <2>3, <2>2 DEF GhTypes
<1>5. ASSUME NEW q \in GithubReqs, NEW u \in Admins, NEW i \in Intents, NEW a \in Apps, StartManifest(q, u, i, a) PROVE GhTypes'
  <2>1. [pc |-> "redeem", op |-> "manifest", admin |-> u,
                       intent |-> i, key |-> Key(a, "lines")] \in ManifestCalls
    BY DEF ManifestCalls, Key, GhKeys
  <2>2. ghq' \in [GithubReqs -> GhRequests] /\ gleft' \in GhLeft
    BY <2>1, <1>5, GhBegun DEF StartManifest, GhRequests
  <2>3. GhStored'
    BY <1>0, <1>5 DEF StartManifest, GhStored
  <2>4. QED BY <2>3, <2>2 DEF GhTypes
<1>6. ASSUME NEW q \in GithubReqs, NEW u \in Admins, NEW i \in Intents, NEW a \in Apps, StartInstall(q, u, i, a) PROVE GhTypes'
  <2>1. [pc |-> "redeem", op |-> "install", admin |-> u,
                       intent |-> i, of |-> a] \in InstallCalls
    BY DEF InstallCalls
  <2>2. ghq' \in [GithubReqs -> GhRequests] /\ gleft' \in GhLeft
    BY <2>1, <1>6, GhBegun DEF StartInstall, GhRequests
  <2>3. GhStored'
    BY <1>0, <1>6 DEF StartInstall, GhStored
  <2>4. QED BY <2>3, <2>2 DEF GhTypes
<1>7. ASSUME NEW q \in GithubReqs, NEW a \in Apps, StartRemove(q, a) PROVE GhTypes'
  <2>1. [pc |-> "revoke", op |-> "remove", of |-> a] \in RemoveCalls
    BY DEF RemoveCalls
  <2>2. ghq' \in [GithubReqs -> GhRequests] /\ gleft' \in GhLeft
    BY <2>1, <1>7, GhBegun DEF StartRemove, GhRequests
  <2>3. GhStored'
    BY <1>0, <1>7 DEF StartRemove, GhStored
  <2>4. QED BY <2>3, <2>2 DEF GhTypes
<1>8. ASSUME NEW q \in GithubReqs, redeemIntent(q, "manifest", "list") PROVE GhTypes'
  <2>1. GhStored'
    BY <1>0, <1>8 DEF redeemIntent, Spend, GhStored
  <2>2. ghq[q] \in ManifestCalls
    BY <1>0, <1>8, GhCalls, GhFields DEF redeemIntent, GhAt
  <2>3. [ghq[q] EXCEPT !.pc = "list"] \in GhRequests
    BY <2>2, GhMoves
  <2>4. ghq' \in [GithubReqs -> GhRequests]
    BY <1>0, <1>8, <2>3, GhGoKept, GhDoneKept DEF redeemIntent
  <2>5. gleft' \in GhLeft
    BY <1>0, <1>8 DEF redeemIntent
  <2>6. QED BY <2>1, <2>4, <2>5 DEF GhTypes
<1>9. ASSUME NEW q \in GithubReqs, redeemIntent(q, "install", "get") PROVE GhTypes'
  <2>1. GhStored'
    BY <1>0, <1>9 DEF redeemIntent, Spend, GhStored
  <2>2. ghq[q] \in InstallCalls
    BY <1>0, <1>9, GhCalls, GhFields DEF redeemIntent, GhAt
  <2>3. [ghq[q] EXCEPT !.pc = "get"] \in GhRequests
    BY <2>2, GhMoves
  <2>4. ghq' \in [GithubReqs -> GhRequests]
    BY <1>0, <1>9, <2>3, GhGoKept, GhDoneKept DEF redeemIntent
  <2>5. gleft' \in GhLeft
    BY <1>0, <1>9 DEF redeemIntent
  <2>6. QED BY <2>1, <2>4, <2>5 DEF GhTypes
<1>10. ASSUME NEW q \in GithubReqs, NeverIssued(q) PROVE GhTypes'
  <2>1. GhStored'
    BY <1>0, <1>10 DEF NeverIssued, GhStored
  <2>2. ghq' \in [GithubReqs -> GhRequests]
    BY <1>0, <1>10, GhDoneKept DEF NeverIssued
  <2>3. gleft' \in GhLeft
    BY <1>0, <1>10 DEF NeverIssued
  <2>4. QED BY <2>1, <2>2, <2>3 DEF GhTypes
<1>11. ASSUME NEW q \in GithubReqs, PutSecret(q) PROVE GhTypes'
  <2>1. ghq[q].key \in GhKeys
    BY <1>0, <1>11, GhCalls, GhFields DEF PutSecret, GhAt
  <2>2. GhStored'
    BY <1>0, <1>11, <2>1 DEF PutSecret, GhKeys, GhStored
  <2>3. ghq[q] \in GhRequests
    BY <1>0
  <2>4. ghq[q] \in SaveCalls \cup ManifestCalls
    BY <2>3, <1>11, GhCalls DEF PutSecret, GhAt
  <2>5. [ghq[q] EXCEPT !.pc = "verify"] \in GhRequests
    BY <2>4, GhMoves
  <2>6. ghq' \in [GithubReqs -> GhRequests]
    BY <1>0, <1>11, <2>5, GhGoKept, GhDoneKept DEF PutSecret
  <2>7. gleft' \in GhLeft
    BY <1>0, <1>11 DEF PutSecret
  <2>8. QED BY <2>2, <2>6, <2>7 DEF GhTypes
<1>12. ASSUME NEW q \in GithubReqs, VerifySave(q) PROVE GhTypes'
  <2>1. signer' \in GhKeys /\ gleft' \in GhLeft
    BY <1>12, GhCalled DEF VerifySave
  <2>2. GhStored'
    BY <1>0, <1>12, <2>1 DEF VerifySave, GhStored
  <2>3. ghq[q] \in SaveCalls
    BY <1>0, <1>12, GhCalls, GhFields DEF VerifySave, GhAt
  <2>4. [ghq[q] EXCEPT !.pc = "record"] \in GhRequests
    BY <2>3, GhMoves
  <2>5. ghq' \in [GithubReqs -> GhRequests]
    BY <1>0, <1>12, <2>4, GhGoKept, GhDoneKept DEF VerifySave
  <2>6. QED BY <2>2, <2>5, <2>1 DEF GhTypes
<1>13. ASSUME NEW q \in GithubReqs, RecordApp(q) PROVE GhTypes'
  <2>1. ghq[q].key \in GhKeys
    BY <1>0, <1>13, GhCalls, GhFields DEF RecordApp, GhAt
  <2>2. GhStored'
    BY <1>0, <1>13, <2>1 DEF RecordApp, GhKeys, GhStored
  <2>3. ghq' \in [GithubReqs -> GhRequests]
    BY <1>0, <1>13, GhDoneKept DEF RecordApp
  <2>4. gleft' \in GhLeft
    BY <1>0, <1>13 DEF RecordApp
  <2>5. QED BY <2>2, <2>3, <2>4 DEF GhTypes
<1>14. ASSUME NEW q \in GithubReqs, RefuseReplacing(q) PROVE GhTypes'
  <2>1. GhStored'
    BY <1>0, <1>14 DEF RefuseReplacing, GhStored
  <2>2. ghq[q] \in GhRequests
    BY <1>0
  <2>3. ghq[q] \in ManifestCalls
    BY <2>2, <1>14, GhCalls DEF RefuseReplacing, GhAt
  <2>4. [ghq[q] EXCEPT !.pc = "put"] \in GhRequests
    BY <2>3, GhMoves
  <2>5. ghq' \in [GithubReqs -> GhRequests]
    BY <1>0, <1>14, <2>4, GhGoKept, GhDoneKept DEF RefuseReplacing
  <2>6. gleft' \in GhLeft
    BY <1>0, <1>14 DEF RefuseReplacing
  <2>7. QED BY <2>1, <2>5, <2>6 DEF GhTypes
<1>15. ASSUME NEW q \in GithubReqs, verifyFreshApp(q) PROVE GhTypes'
  <2>1. signer' \in GhKeys /\ gleft' \in GhLeft
    BY <1>15, GhCalled DEF verifyFreshApp
  <2>2. GhStored'
    BY <1>0, <1>15, <2>1 DEF verifyFreshApp, GhStored
  <2>3. ghq[q] \in ManifestCalls
    BY <1>0, <1>15, GhCalls, GhFields DEF verifyFreshApp, GhAt
  <2>4. ghq[q].key.app \in Apps \cup {NoApp} /\ loadCredentials.app \in Apps \cup {NoApp}
    BY <1>0, <2>3, GhFields, Credentials DEF GhKeys
  <2>5. ghq'[q] \in ManifestCalls /\ ghq' = [ghq EXCEPT ![q] = ghq'[q]]
    BY <1>0, <1>15, <2>3, <2>4 DEF verifyFreshApp, ManifestCalls, GhKeys
  <2>6. ghq' \in [GithubReqs -> GhRequests]
    BY <1>0, <2>5 DEF GhRequests
  <2>7. QED BY <2>2, <2>6, <2>1 DEF GhTypes
<1>16. ASSUME NEW q \in GithubReqs, StartForget(q) PROVE GhTypes'
  <2>1. [pc |-> "clear", op |-> "forget"] \in ForgetCalls
    BY DEF ForgetCalls
  <2>2. ghq' \in [GithubReqs -> GhRequests] /\ gleft' \in GhLeft
    BY <2>1, <1>16, GhBegun DEF StartForget, GhRequests
  <2>3. GhStored'
    BY <1>0, <1>16 DEF StartForget, GhStored
  <2>4. QED BY <2>3, <2>2 DEF GhTypes
<1>17. ASSUME NEW q \in GithubReqs, ClearSecret(q) PROVE GhTypes'
  <2>1. GhStored'
    BY <1>0, <1>17 DEF ClearSecret, NoKey, GhKeys, GhStored
  <2>2. ghq[q] \in GhRequests
    BY <1>0
  <2>3. ghq[q] \in ForgetCalls
    BY <2>2, <1>17, GhCalls DEF ClearSecret, GhAt
  <2>4. [ghq[q] EXCEPT !.pc = "deleteRow"] \in GhRequests
    BY <2>3, GhMoves
  <2>5. ghq' \in [GithubReqs -> GhRequests]
    BY <1>0, <1>17, <2>4, GhGoKept, GhDoneKept DEF ClearSecret
  <2>6. gleft' \in GhLeft
    BY <1>0, <1>17 DEF ClearSecret
  <2>7. QED BY <2>1, <2>5, <2>6 DEF GhTypes
<1>18. ASSUME NEW q \in GithubReqs, DeleteAppRow(q) PROVE GhTypes'
  <2>1. GhStored'
    BY <1>0, <1>18 DEF DeleteAppRow, GhStored
  <2>2. ghq' \in [GithubReqs -> GhRequests]
    BY <1>0, <1>18, GhDoneKept DEF DeleteAppRow
  <2>3. gleft' \in GhLeft
    BY <1>0, <1>18 DEF DeleteAppRow
  <2>4. QED BY <2>1, <2>2, <2>3 DEF GhTypes
<1>19. ASSUME NEW q \in GithubReqs, getInstallation(q) PROVE GhTypes'
  <2>1. signer' \in GhKeys /\ gleft' \in GhLeft
    BY <1>19, GhCalled DEF getInstallation
  <2>2. GhStored'
    BY <1>0, <1>19, <2>1 DEF getInstallation, GhStored
  <2>3. ghq[q] \in GhRequests
    BY <1>0
  <2>4. ghq[q] \in InstallCalls
    BY <2>3, <1>19, GhCalls DEF getInstallation, GhAt
  <2>5. [ghq[q] EXCEPT !.pc = "insert"] \in GhRequests
    BY <2>4, GhMoves
  <2>6. ghq' \in [GithubReqs -> GhRequests]
    BY <1>0, <1>19, <2>5, GhGoKept, GhDoneKept DEF getInstallation
  <2>7. QED BY <2>2, <2>6, <2>1 DEF GhTypes
<1>20. ASSUME NEW q \in GithubReqs, InsertInstallation(q) PROVE GhTypes'
  <2>1. ghq[q].of \in Apps
    BY <1>0, <1>20, GhCalls, GhFields DEF InsertInstallation, GhAt
  <2>2. GhStored'
    BY <1>0, <1>20, <2>1 DEF InsertInstallation, GhStored
  <2>3. ghq' \in [GithubReqs -> GhRequests]
    BY <1>0, <1>20, GhDoneKept DEF InsertInstallation
  <2>4. gleft' \in GhLeft
    BY <1>0, <1>20 DEF InsertInstallation
  <2>5. QED BY <2>2, <2>3, <2>4 DEF GhTypes
<1>21. ASSUME NEW q \in GithubReqs, Revoke(q) PROVE GhTypes'
  <2>1. signer' \in GhKeys /\ gleft' \in GhLeft
    BY <1>21, GhCalled DEF Revoke
  <2>2. GhStored'
    BY <1>0, <1>21, <2>1 DEF Revoke, GhStored
  <2>3. ghq[q] \in GhRequests
    BY <1>0
  <2>4. ghq[q] \in RemoveCalls
    BY <2>3, <1>21, GhCalls DEF Revoke, GhAt
  <2>5. [ghq[q] EXCEPT !.pc = "forgetRow"] \in GhRequests
    BY <2>4, GhMoves
  <2>6. ghq' \in [GithubReqs -> GhRequests]
    BY <1>0, <1>21, <2>5, GhGoKept, GhDoneKept DEF Revoke
  <2>7. QED BY <2>2, <2>6, <2>1 DEF GhTypes
<1>22. ASSUME NEW q \in GithubReqs, DeleteInstallation(q) PROVE GhTypes'
  <2>1. GhStored'
    BY <1>0, <1>22 DEF DeleteInstallation, GhStored
  <2>2. ghq' \in [GithubReqs -> GhRequests]
    BY <1>0, <1>22, GhDoneKept DEF DeleteInstallation
  <2>3. gleft' \in GhLeft
    BY <1>0, <1>22 DEF DeleteInstallation
  <2>4. QED BY <2>1, <2>2, <2>3 DEF GhTypes
<1>23. ASSUME NEW q \in GithubReqs, GhKilled(q) PROVE GhTypes'
  <2>1. GhStored'
    BY <1>0, <1>23 DEF GhKilled, GhStored
  <2>2. ghq' \in [GithubReqs -> GhRequests]
    BY <1>0, <1>23, GhDoneKept DEF GhKilled
  <2>3. gleft' \in GhLeft
    BY <1>0, <1>23 DEF GhKilled, GhLeft
  <2>4. QED BY <2>1, <2>2, <2>3 DEF GhTypes
<1>24. ASSUME NEW a \in Apps, OwnerInstalls(a) PROVE GhTypes'
  <2>1. GhStored'
    BY <1>0, <1>24 DEF OwnerInstalls, GhStored
  <2>2. ghq' \in [GithubReqs -> GhRequests]
    BY <1>0, <1>24 DEF OwnerInstalls
  <2>3. gleft' \in GhLeft
    BY <1>0, <1>24 DEF OwnerInstalls
  <2>4. QED BY <2>1, <2>2, <2>3 DEF GhTypes
<1>25. ASSUME RecycleLambda PROVE GhTypes'
  <2>1. GhStored'
    BY <1>0, <1>25 DEF RecycleLambda, NoKey, GhKeys, GhStored
  <2>2. ghq' \in [GithubReqs -> GhRequests]
    BY <1>0, <1>25 DEF RecycleLambda
  <2>3. gleft' \in GhLeft
    BY <1>0, <1>25 DEF RecycleLambda, GhLeft
  <2>4. QED BY <2>1, <2>2, <2>3 DEF GhTypes
<1>26. QED
  BY <1>1, <1>2, <1>3, <1>4, <1>5, <1>6, <1>7, <1>8, <1>9, <1>10, <1>11, <1>12, <1>13, <1>14, <1>15, <1>16, <1>17, <1>18, <1>19, <1>20, <1>21, <1>22, <1>23, <1>24, <1>25 DEF GithubNext
-----------------------------------------------------------------------------
(* Intents are accepted once: a token is issued only when it was neither   *)
(* issued nor accepted, and accepting it takes it out.                     *)
LEMMA FewerIntents ==
  ASSUME IntentsFresh, intents' \subseteq intents, redeemed' = redeemed
  PROVE  IntentsFresh'
BY DEF IntentsFresh, IntentSpentOnce

LEMMA OneMoreIntent ==
  ASSUME IntentsFresh, NEW purpose, NEW u, NewIntent(purpose, u), redeemed' = redeemed
  PROVE  IntentsFresh'
BY DEF IntentsFresh, IntentSpentOnce, NewIntent, Unissued

LEMMA RedeemedOnce ==
  ASSUME GhTypes, IntentsFresh, NEW q \in GithubReqs, NEW purpose, NEW next,
         redeemIntent(q, purpose, next)
  PROVE  IntentsFresh'
<1>1. PICK i \in intents :
        /\ Spend(i)
        /\ redeemed' = redeemed \/ redeemed' = [redeemed EXCEPT ![i.id] = @ + 1]
  BY DEF redeemIntent
<1>2. i.id \in Intents /\ redeemed[i.id] = 0
  BY DEF GhTypes, GhStored, GhIntents, IntentsFresh
<1>3. intents' = intents \ {i} /\ \A j \in intents' : j.id # i.id
  BY <1>1 DEF Spend, IntentsFresh
<1>4. \A k \in Intents : k # i.id => redeemed'[k] = redeemed[k]
  BY <1>1 DEF GhTypes, GhStored
<1>5. redeemed'[i.id] <= 1
  BY <1>1, <1>2 DEF GhTypes, GhStored
<1>6. \A j \in intents' : j.id \in Intents /\ redeemed'[j.id] = 0
  BY <1>3, <1>4 DEF IntentsFresh, GhTypes, GhStored, GhIntents
<1>7. IntentSpentOnce'
  BY <1>4, <1>5 DEF IntentsFresh, IntentSpentOnce
<1>8. QED BY <1>3, <1>6, <1>7 DEF IntentsFresh

LEMMA IntentsKept ==
  ASSUME GhTypes, IntentsFresh, GithubNext
  PROVE  IntentsFresh'
<1>1. ASSUME NEW u \in Admins, createManifestIntent(u) \/ createInstallIntent(u)
      PROVE  IntentsFresh'
  BY <1>1, OneMoreIntent DEF createManifestIntent, createInstallIntent
<1>2. ASSUME NEW q \in GithubReqs,
             redeemIntent(q, "manifest", "list") \/ redeemIntent(q, "install", "get")
      PROVE  IntentsFresh'
  BY <1>2, RedeemedOnce
<1>3. ASSUME NEW i \in intents, IntentExpires(i) PROVE IntentsFresh'
  BY <1>3, FewerIntents DEF IntentExpires
<1>4. CASE UNCHANGED <<intents, redeemed>>
  BY <1>4, FewerIntents
<1>5. QED
  BY <1>1, <1>2, <1>3, <1>4 DEF GithubNext, StartSave, StartManifest, StartInstall, StartRemove,
     NeverIssued, PutSecret, VerifySave, RecordApp, RefuseReplacing, verifyFreshApp, StartForget,
     ClearSecret, DeleteAppRow, getInstallation, InsertInstallation, Revoke, DeleteInstallation,
     GhKilled, OwnerInstalls, RecycleLambda
-----------------------------------------------------------------------------
(* What a step leaves calm was calm before it, and a request that begins   *)
(* in a calm that lasts is alone.                                          *)
Undisturbed == gleft.alone /\ ~gleft.pasted /\ ~gleft.stale

LEMMA CalmCall ==
  ASSUME GhTypes, CallAsApp, Undisturbed'
  PROVE  Undisturbed /\ loadCredentials = secret
<1>1. gleft \in GhLeft
  BY DEF GhTypes
<1>2. QED BY <1>1 DEF Undisturbed, CallAsApp, GhLeft

LEMMA CalmStart ==
  ASSUME GhTypes, NEW q \in GithubReqs, NEW request, BeginCall(q, request), Undisturbed'
  PROVE  Undisturbed /\ ~GhBusy /\ request.op # "save"
<1>1. gleft \in GhLeft
  BY DEF GhTypes
<1>2. QED BY <1>1 DEF Undisturbed, BeginCall, GhLeft

LEMMA CalmEnds ==
  ASSUME GhTypes, GhCalm, NEW q \in GithubReqs, GhDone(q), Undisturbed' => Undisturbed,
         UNCHANGED <<secret, rows>>
  PROVE  GhCalm'
BY DEF GhCalm, Undisturbed, GhTypes, GhDone, GhIdle

(* A request moves on: to the steps before its key only while there are no *)
(* installations, to the insertion only with one of the App stored.        *)
LEMMA CalmGoes ==
  ASSUME GhTypes, GhCalm, NEW q \in GithubReqs, NEW pc, GhGo(q, pc), Undisturbed' => Undisturbed,
         UNCHANGED <<secret, rows>>,
         ghq[q] \in ManifestCalls \cup InstallCalls,
         pc \in {"put", "clear"} => rows = {},
         pc = "insert" => ghq[q] \in InstallCalls /\ (Undisturbed => ghq[q].of = secret.app)
  PROVE  GhCalm'
<1>1. SUFFICES ASSUME Undisturbed' PROVE GhCalm'
  BY DEF GhCalm, Undisturbed
<1>2. Undisturbed
  BY <1>1
<1>3. /\ ghq'[q].pc = pc /\ ghq'[q].op # "save"
      /\ ghq[q] \in InstallCalls => ghq'[q].of = ghq[q].of
  BY DEF GhGo, GhTypes, ManifestCalls, InstallCalls
<1>4. \A r \in GithubReqs \ {q} : ghq'[r] = ghq[r]
  BY DEF GhGo, GhTypes
<1>5. ghq[q].pc # "idle"
  BY DEF ManifestCalls, InstallCalls
<1>6. QED BY <1>2, <1>3, <1>4, <1>5 DEF GhCalm, Undisturbed

LEMMA GhCalmKept ==
  ASSUME GhTypes, GhCalm, GithubNext
  PROVE  GhCalm'
<1> USE DEF Undisturbed
<1>0. ghq \in [GithubReqs -> GhRequests] /\ gleft \in GhLeft
  BY DEF GhTypes
<1>1. ASSUME NEW u \in Admins, createManifestIntent(u) PROVE GhCalm'
  BY <1>0, <1>1 DEF createManifestIntent, GhCalm, GhAt, GhGo, GhDone, GhIdle
<1>2. ASSUME NEW u \in Admins, createInstallIntent(u) PROVE GhCalm'
  BY <1>0, <1>2, CalmCall DEF createInstallIntent, GhCalm, GhAt, GhGo, GhDone, GhIdle
<1>3. ASSUME NEW i \in intents, IntentExpires(i) PROVE GhCalm'
  BY <1>0, <1>3 DEF IntentExpires, GhCalm, GhAt, GhGo, GhDone, GhIdle
<1>4. ASSUME NEW q \in GithubReqs, NEW a \in Apps, NEW s \in Spellings, StartSave(q, a, s) PROVE GhCalm'
  <2>1. ~Undisturbed'
    BY <1>4, CalmStart DEF StartSave
  <2>2. QED BY <2>1 DEF GhCalm
<1>5. ASSUME NEW q \in GithubReqs, NEW u \in Admins, NEW i \in Intents, NEW a \in Apps, StartManifest(q, u, i, a) PROVE GhCalm'
  BY <1>0, <1>5, CalmStart DEF StartManifest, GhCalm, GhAt, GhGo, GhDone, GhIdle, BeginCall, GhBusy
<1>6. ASSUME NEW q \in GithubReqs, NEW u \in Admins, NEW i \in Intents, NEW a \in Apps, StartInstall(q, u, i, a) PROVE GhCalm'
  BY <1>0, <1>6, CalmStart DEF StartInstall, GhCalm, GhAt, GhGo, GhDone, GhIdle, BeginCall, GhBusy
<1>7. ASSUME NEW q \in GithubReqs, NEW a \in Apps, StartRemove(q, a) PROVE GhCalm'
  BY <1>0, <1>7, CalmStart DEF StartRemove, GhCalm, GhAt, GhGo, GhDone, GhIdle, BeginCall, GhBusy
<1>8. ASSUME NEW q \in GithubReqs, redeemIntent(q, "manifest", "list") PROVE GhCalm'
  <2>1. GhGo(q, "list") \/ GhDone(q)
    BY <1>8 DEF redeemIntent
  <2>2. ghq[q] \in ManifestCalls \cup InstallCalls
    BY <1>0, <1>8, GhCalls DEF redeemIntent, GhAt
  <2>3. UNCHANGED <<secret, rows, gleft>>
    BY <1>8 DEF redeemIntent
  <2>4. QED BY <2>1, <2>2, <2>3, CalmEnds, CalmGoes
<1>9. ASSUME NEW q \in GithubReqs, redeemIntent(q, "install", "get") PROVE GhCalm'
  <2>1. GhGo(q, "get") \/ GhDone(q)
    BY <1>9 DEF redeemIntent
  <2>2. ghq[q] \in ManifestCalls \cup InstallCalls
    BY <1>0, <1>9, GhCalls DEF redeemIntent, GhAt
  <2>3. UNCHANGED <<secret, rows, gleft>>
    BY <1>9 DEF redeemIntent
  <2>4. QED BY <2>1, <2>2, <2>3, CalmEnds, CalmGoes
<1>10. ASSUME NEW q \in GithubReqs, NeverIssued(q) PROVE GhCalm'
  BY <1>0, <1>10 DEF NeverIssued, GhCalm, GhAt, GhGo, GhDone, GhIdle
<1>11. ASSUME NEW q \in GithubReqs, PutSecret(q) PROVE GhCalm'
  BY <1>0, <1>11, GhCalls, GhFields DEF PutSecret, GhCalm, GhAt, GhGo, GhDone, GhIdle
<1>12. ASSUME NEW q \in GithubReqs, VerifySave(q) PROVE GhCalm'
  BY <1>0, <1>12, CalmCall, GhCalls, GhFields DEF VerifySave, GhCalm, GhAt, GhGo, GhDone, GhIdle
<1>13. ASSUME NEW q \in GithubReqs, RecordApp(q) PROVE GhCalm'
  BY <1>0, <1>13 DEF RecordApp, GhCalm, GhAt, GhGo, GhDone, GhIdle
<1>14. ASSUME NEW q \in GithubReqs, RefuseReplacing(q) PROVE GhCalm'
  <2>1. (rows = {} /\ GhGo(q, "put")) \/ GhDone(q)
    BY <1>14 DEF RefuseReplacing
  <2>2. ghq[q] \in ManifestCalls \cup InstallCalls
    BY <1>0, <1>14, GhCalls DEF RefuseReplacing, GhAt
  <2>3. UNCHANGED <<secret, rows, gleft>>
    BY <1>14 DEF RefuseReplacing
  <2>4. QED BY <2>1, <2>2, <2>3, CalmEnds, CalmGoes
<1>15. ASSUME NEW q \in GithubReqs, verifyFreshApp(q) PROVE GhCalm'
  BY <1>0, <1>15, CalmCall, GhCalls, GhFields DEF verifyFreshApp, GhCalm, GhAt, GhGo, GhDone, GhIdle
<1>16. ASSUME NEW q \in GithubReqs, StartForget(q) PROVE GhCalm'
  BY <1>0, <1>16, CalmStart DEF StartForget, GhCalm, GhAt, GhGo, GhDone, GhIdle, BeginCall, GhBusy
<1>17. ASSUME NEW q \in GithubReqs, ClearSecret(q) PROVE GhCalm'
  BY <1>0, <1>17, GhCalls, GhFields DEF ClearSecret, GhCalm, GhAt, GhGo, GhDone, GhIdle
<1>18. ASSUME NEW q \in GithubReqs, DeleteAppRow(q) PROVE GhCalm'
  BY <1>0, <1>18 DEF DeleteAppRow, GhCalm, GhAt, GhGo, GhDone, GhIdle
<1>19. ASSUME NEW q \in GithubReqs, getInstallation(q) PROVE GhCalm'
  <2>1. SUFFICES ASSUME Undisturbed' PROVE GhCalm'
    BY DEF GhCalm
  <2>2. Undisturbed /\ loadCredentials = secret
    BY <1>19, <2>1, CalmCall DEF getInstallation
  <2>3. (secret.app = ghq[q].of /\ GhGo(q, "insert")) \/ GhDone(q)
    BY <1>19, <2>2 DEF getInstallation
  <2>4. ghq[q] \in InstallCalls
    BY <1>0, <1>19, GhCalls DEF getInstallation, GhAt
  <2>5. UNCHANGED <<secret, rows>>
    BY <1>19 DEF getInstallation
  <2>6. QED BY <2>2, <2>3, <2>4, <2>5, CalmEnds, CalmGoes
<1>20. ASSUME NEW q \in GithubReqs, InsertInstallation(q) PROVE GhCalm'
  BY <1>0, <1>20 DEF InsertInstallation, GhCalm, GhAt, GhGo, GhDone, GhIdle
<1>21. ASSUME NEW q \in GithubReqs, Revoke(q) PROVE GhCalm'
  BY <1>0, <1>21, CalmCall, GhCalls, GhFields DEF Revoke, GhCalm, GhAt, GhGo, GhDone, GhIdle
<1>22. ASSUME NEW q \in GithubReqs, DeleteInstallation(q) PROVE GhCalm'
  BY <1>0, <1>22 DEF DeleteInstallation, GhCalm, GhAt, GhGo, GhDone, GhIdle
<1>23. ASSUME NEW q \in GithubReqs, GhKilled(q) PROVE GhCalm'
  BY <1>0, <1>23 DEF GhKilled, GhCalm, GhAt, GhGo, GhDone, GhIdle, GhLeft
<1>24. ASSUME NEW a \in Apps, OwnerInstalls(a) PROVE GhCalm'
  BY <1>0, <1>24 DEF OwnerInstalls, GhCalm, GhAt, GhGo, GhDone, GhIdle
<1>25. ASSUME RecycleLambda PROVE GhCalm'
  BY <1>0, <1>25 DEF RecycleLambda, GhCalm, GhAt, GhGo, GhDone, GhIdle, GhLeft
<1>26. QED
  BY <1>1, <1>2, <1>3, <1>4, <1>5, <1>6, <1>7, <1>8, <1>9, <1>10, <1>11, <1>12, <1>13, <1>14, <1>15, <1>16, <1>17, <1>18, <1>19, <1>20, <1>21, <1>22, <1>23, <1>24, <1>25 DEF GithubNext

(* The GitHub connection, whatever its requests do: an intent is accepted  *)
(* at most once, and while requests do not overlap, none is a paste and    *)
(* none signs with replaced credentials, recorded installations are of the *)
(* App whose key is stored.                                                *)
THEOREM HandshakesOnce == GithubSpec => []GithubSafety
<1>1. GithubInv /\ [GithubNext]_githubVars => GithubInv'
  <2>1. ASSUME GithubInv, GithubNext PROVE GithubInv'
    BY <2>1, GhTypesKept, IntentsKept, GhCalmKept DEF GithubInv
  <2>2. ASSUME GithubInv, UNCHANGED githubVars PROVE GithubInv'
    BY <2>2 DEF GithubInv, GhTypes, GhStored, IntentsFresh, IntentSpentOnce, GhCalm, githubVars
  <2>3. QED BY <2>1, <2>2
<1>2. GithubInv => GithubSafety
  <2>1. GhStored => GithubTypeOK
    BY DEF GhStored, GithubTypeOK, GhKeys, GhIntents
  <2>2. QED
    BY <2>1 DEF GithubInv, GhTypes, IntentsFresh, GhCalm, GithubSafety, GrantsKeepTheirApp
<1>3. QED BY <1>1, <1>2, GhStart, PTL DEF GithubSpec
-----------------------------------------------------------------------------
(***************************************************************************)
(* A compute cluster: what AWS holds, and what a request knows             *)
(***************************************************************************)

Templates == [there : {TRUE}, kind : Kinds, gpuImage : BOOLEAN]
Groups    == [there : {TRUE}, want : 0..1, guard : BOOLEAN]
Providers == [there : {TRUE}, mode : Modes]
Rows      == [there : {TRUE}, spec : Settings, state : States]

Capacity == [ecs : BOOLEAN, template : {Absent} \cup Templates, group : {Absent} \cup Groups,
             provider : {Absent} \cup Providers, attached : BOOLEAN]

OpenCalls == [pc : Calls \cup {"save", "write", "delete"},
              op : {"provision", "deprovision", "update", "remove"},
              spec : Settings, state : States, error : BOOLEAN, hit : BOOLEAN,
              settings : Settings]

OnEc2Only == Calls \ {"ecs", "dropEcs"}

CallsOf(op) ==
  CASE op = "provision"   -> {"ecs", "template", "group", "provider", "attach", "save"}
    [] op = "deprovision" -> {"detach", "drain", "dropProvider", "dropGroup", "dropTemplate",
                              "dropEcs", "save"}
    [] op = "update"      -> {"write"}
    [] op = "remove"      -> {"delete"}

ClusterRequests ==
  {IdleCall} \cup {r \in OpenCalls : /\ r.pc \in CallsOf(r.op)
                                     /\ r.pc \in OnEc2Only => r.spec.type = "ec2"}

ClusterLeft == [faults : Nat, kills : Nat, edits : Nat, alone : BOOLEAN]

ClusterTypes ==
  /\ row \in {Absent} \cup Rows
  /\ aws \in Capacity
  /\ hosts \in 0..1
  /\ service \in {"none", "assigned", "running"}
  /\ req \in [Requests -> ClusterRequests]
  /\ left \in ClusterLeft

TemplateOf(spec) ==
  /\ aws.template.there
  /\ aws.template.kind = spec.kind
  /\ aws.template.gpuImage = (spec.gpus > 0)

GroupOf(spec) == aws.group.there /\ aws.group.guard = (spec.mode = "auto")

(* What an attempt that nothing spoiled has made, or taken away, when it   *)
(* comes to each of its calls.                                             *)
BuiltUp(r) ==
  LET at(calls) == r.pc \in calls \/ (r.pc = "save" /\ r.spec.type = "ec2")
  IN /\ r.pc # "ecs" => aws.ecs
     /\ at({"group", "provider", "attach"}) => TemplateOf(r.spec)
     /\ at({"provider", "attach"}) => GroupOf(r.spec)
     /\ at({"attach"}) => aws.provider.there
     /\ at({}) => aws.attached

TakenDown(r) ==
  LET at(calls) == r.pc \in calls \/ (r.pc \in {"dropEcs", "save"} /\ r.spec.type = "ec2")
  IN /\ at({"drain", "dropProvider", "dropGroup", "dropTemplate"}) => ~aws.attached
     /\ at({"dropGroup", "dropTemplate"}) => aws.provider = Absent
     /\ at({"dropTemplate"}) => aws.group = Absent
     /\ at({}) => aws.template = Absent
     /\ r.pc = "save" => ~aws.ecs /\ ~aws.attached

CallOpen(q) == req[q].pc # "idle"

(* A request that met nothing is the only one, and on its way.             *)
UnhitIsAlone ==
  \A q \in Requests : CallOpen(q) /\ ~req[q].hit =>
    /\ ~req[q].error
    /\ \A r \in Requests \ {q} : ~CallOpen(r)
    /\ req[q].op = "provision" => BuiltUp(req[q])
    /\ req[q].op = "deprovision" => TakenDown(req[q])

Bare == /\ aws.template = Absent /\ aws.group = Absent /\ aws.provider = Absent
        /\ ~aws.attached

Whole ==
  /\ aws.ecs
  /\ row.spec.type = "ec2" =>
       TemplateOf(row.spec) /\ GroupOf(row.spec) /\ aws.provider.there /\ aws.attached

(* As long as no two requests overlapped and none was stopped: a request   *)
(* knows the row as it is, and the row tells the truth unless a request    *)
(* that moves the capacity is under way.                                   *)
RowIsKnown ==
  \A q \in Requests : CallOpen(q) =>
    /\ row.there /\ req[q].spec = row.spec /\ req[q].state = row.state
    /\ req[q].hit => req[q].error
    /\ req[q].op = "update" => req[q].settings.type = row.spec.type
    /\ req[q].op = "remove" => row.state = "not_provisioned"

RowIsTrue ==
  (\A q \in Requests : CallOpen(q) => req[q].op \in {"update", "remove"}) =>
    /\ ~row.there \/ row.state = "not_provisioned" => aws = Nothing
    /\ row.there /\ row.state = "provisioned" => Whole

ClusterCalm ==
  left.alone =>
    /\ \A q, r \in Requests : CallOpen(q) /\ CallOpen(r) => q = r
    /\ RowIsKnown
    /\ row.there /\ row.spec.type = "fargate" => Bare
    /\ RowIsTrue

ClusterInv == ClusterTypes /\ UnhitIsAlone /\ ClusterCalm
LEMMA SettingsTyped ==
  ASSUME NEW s \in Settings
  PROVE  /\ s.type \in {"ec2", "fargate"} /\ s.kind \in Kinds /\ s.mode \in Modes
         /\ s.gpus \in 0..1
BY FormsAssumption DEF Settings, normalizeCluster, Inputs, Kinds, Modes

LEMMA ClusterStart == ClusterInit => ClusterInv
<1> SUFFICES ASSUME ClusterInit PROVE ClusterInv
  OBVIOUS
<1>1. aws = Nothing /\ row = Absent /\ \A q \in Requests : ~CallOpen(q)
  BY DEF ClusterInit, CallOpen, IdleCall
<1>2. ClusterTypes
  <2>1. aws \in Capacity
    BY <1>1 DEF Nothing, Capacity, Templates, Groups, Providers
  <2>2. left \in ClusterLeft
    BY ClusterBounds DEF ClusterInit, ClusterLeft
  <2>3. req \in [Requests -> ClusterRequests]
    BY DEF ClusterInit, ClusterRequests
  <2>4. QED BY <2>1, <2>2, <2>3, <1>1 DEF ClusterInit, ClusterTypes
<1>3. UnhitIsAlone
  BY <1>1 DEF UnhitIsAlone
<1>4. ClusterCalm
  BY <1>1 DEF ClusterCalm, RowIsKnown, RowIsTrue, Absent
<1>5. QED BY <1>2, <1>3, <1>4 DEF ClusterInv

(* What a request at a call carries, and where it may move.                *)
LEMMA CallFields ==
  ASSUME NEW r \in ClusterRequests, r.pc # "idle"
  PROVE  /\ r \in OpenCalls /\ r.pc \in CallsOf(r.op)
         /\ r.pc \in OnEc2Only => r.spec.type = "ec2"
BY DEF ClusterRequests, IdleCall

LEMMA CallMoves ==
  ASSUME NEW r \in OpenCalls, NEW pc \in CallsOf(r.op), pc \in OnEc2Only => r.spec.type = "ec2",
         NEW error \in BOOLEAN, NEW hit \in BOOLEAN
  PROVE  /\ [r EXCEPT !.pc = pc] \in ClusterRequests
         /\ [r EXCEPT !.pc = pc, !.error = error, !.hit = hit] \in ClusterRequests
<1>1. r.op \in {"provision", "deprovision", "update", "remove"}
  BY DEF OpenCalls
<1>2. pc \in Calls \cup {"save", "write", "delete"}
  BY <1>1 DEF CallsOf, Calls
<1>3. QED BY <1>2 DEF OpenCalls, ClusterRequests

(* Which operation a request at a call belongs to.                         *)
LEMMA CallOps ==
  ASSUME NEW r \in ClusterRequests, r.pc # "idle"
  PROVE  /\ r.op \in {"provision", "deprovision", "update", "remove"}
         /\ r.op = "provision" => r.pc \in {"ecs", "template", "group", "provider", "attach", "save"}
         /\ r.op = "deprovision" => r.pc \in {"detach", "drain", "dropProvider", "dropGroup",
                                              "dropTemplate", "dropEcs", "save"}
         /\ r.op = "update" => r.pc = "write"
         /\ r.op = "remove" => r.pc = "delete"
<1>1. r \in OpenCalls /\ r.pc \in CallsOf(r.op)
  BY CallFields
<1>2. r.op \in {"provision", "deprovision", "update", "remove"}
  BY <1>1 DEF OpenCalls
<1>3. QED BY <1>1, <1>2 DEF CallsOf
(* What is there is what it should be.                                     *)
LEMMA ThereTyped ==
  ASSUME NEW S, NEW x \in {Absent} \cup S, x.there
  PROVE  x \in S
BY DEF Absent

LEMMA RowTyped ==
  ASSUME ClusterTypes, row.there
  PROVE  row \in Rows /\ row.spec \in Settings /\ row.state \in States
<1>1. row \in Rows
  BY ThereTyped DEF ClusterTypes
<1>2. QED BY <1>1 DEF Rows

LEMMA GroupTyped ==
  ASSUME ClusterTypes, aws.group.there
  PROVE  aws.group \in Groups /\ aws.group.want \in 0..1
<1>1. aws.group \in {Absent} \cup Groups
  BY DEF ClusterTypes, Capacity
<1>2. aws.group \in Groups
  BY <1>1, ThereTyped
<1>3. QED BY <1>2 DEF Groups

LEMMA GroupResized ==
  ASSUME NEW g \in Groups
  PROVE  [g EXCEPT !.want = 1] \in Groups /\ [g EXCEPT !.want = 0, !.guard = FALSE] \in Groups
<1>1. 0 \in 0..1 /\ 1 \in 0..1
  OBVIOUS
<1>2. \A n \in 0..1 : [g EXCEPT !.want = n] \in Groups
  BY ZenonT(30) DEF Groups
<1>3. \A n \in 0..1 : [g EXCEPT !.want = n, !.guard = FALSE] \in Groups
  BY DEF Groups
<1>4. QED BY <1>1, <1>2, <1>3

LEMMA StepTyped ==
  ASSUME ClusterTypes, NEW q \in Requests, NEW pc, NEW next, Step(q, pc, next), pc # "idle",
         next \in CallsOf(req[q].op), next \in OnEc2Only => req[q].spec.type = "ec2",
         aws' \in Capacity
  PROVE  ClusterTypes'
<1>1. req[q] \in OpenCalls
  BY CallFields DEF ClusterTypes, Step, At
<1>2. [req[q] EXCEPT !.pc = next] \in ClusterRequests
  BY <1>1, CallMoves
<1>3. req' \in [Requests -> ClusterRequests]
  BY <1>2 DEF ClusterTypes, Step, Go
<1>4. QED BY <1>3 DEF ClusterTypes, Step

LEMMA RefuseTyped ==
  ASSUME ClusterTypes, NEW q \in Requests, NEW pc, NEW next, NEW hit, Refuse(q, pc, next, hit),
         pc # "idle", next \in CallsOf(req[q].op), next \notin OnEc2Only, hit \in BOOLEAN
  PROVE  ClusterTypes'
<1>1. req[q] \in OpenCalls /\ req[q].hit \in BOOLEAN
  BY CallFields DEF ClusterTypes, Refuse, At, OpenCalls
<1>2. [req[q] EXCEPT !.pc = next, !.error = TRUE, !.hit = @ \/ hit] \in ClusterRequests
  BY <1>1, CallMoves
<1>3. req' = [req EXCEPT ![q] = [req[q] EXCEPT !.pc = next, !.error = TRUE, !.hit = @ \/ hit]]
  BY DEF ClusterTypes, Refuse
<1>4. req' \in [Requests -> ClusterRequests]
  BY <1>2, <1>3 DEF ClusterTypes
<1>5. QED BY <1>4 DEF ClusterTypes, Refuse

LEMMA AnswerTyped ==
  ASSUME ClusterTypes, NEW q \in Requests, Answer(q)
  PROVE  req' \in [Requests -> ClusterRequests]
BY DEF ClusterTypes, Answer, ClusterRequests

LEMMA RequireTyped ==
  ASSUME ClusterTypes, NEW q \in Requests, NEW op, NEW first, NEW extra \in Settings,
         requireCluster(q, op, first, extra), row.there,
         op \in {"provision", "deprovision", "update", "remove"}, first \in CallsOf(op),
         first \in OnEc2Only => row.spec.type = "ec2"
  PROVE  req' \in [Requests -> ClusterRequests]
<1>1. row.spec \in Settings /\ row.state \in States
  BY RowTyped
<1>2. first \in Calls \cup {"save", "write", "delete"} /\ Busy \in BOOLEAN
  BY DEF CallsOf, Calls, Busy
<1>3. req'[q] \in ClusterRequests
  <2>1. req'[q] = [pc |-> first, op |-> op, spec |-> row.spec, state |-> row.state,
                   error |-> FALSE, hit |-> Busy, settings |-> extra]
    BY DEF requireCluster
  <2>2. req'[q] \in OpenCalls
    BY <1>1, <1>2, <2>1 DEF OpenCalls
  <2>3. QED BY <2>1, <2>2 DEF ClusterRequests
<1>4. ASSUME NEW r \in Requests \ {q} PROVE req'[r] \in ClusterRequests
  <2>1. CASE req[r].pc = "idle"
    BY <2>1 DEF requireCluster, ClusterTypes
  <2>2. CASE req[r].pc # "idle"
    <3>1. req[r] \in OpenCalls
      BY <2>2, CallFields DEF ClusterTypes
    <3>2. req'[r] = [req[r] EXCEPT !.hit = TRUE]
      BY <2>2 DEF requireCluster
    <3>3. /\ req'[r] \in OpenCalls
          /\ req'[r].pc = req[r].pc /\ req'[r].op = req[r].op /\ req'[r].spec = req[r].spec
      BY <3>1, <3>2 DEF OpenCalls
    <3>4. QED BY <2>2, <3>3, CallFields DEF ClusterTypes, ClusterRequests
  <2>3. QED BY <2>1, <2>2
<1>5. QED BY <1>3, <1>4 DEF requireCluster

LEMMA OverlapTyped ==
  ASSUME ClusterTypes, Overlap
  PROVE  left' \in ClusterLeft
BY DEF ClusterTypes, ClusterLeft, Overlap, Busy

LEMMA ClusterTypesKept ==
  ASSUME ClusterTypes, ClusterNext
  PROVE  ClusterTypes'
<1>1. ASSUME NEW s \in Settings, insertCluster(s) PROVE ClusterTypes'
  BY <1>1 DEF insertCluster, ClusterTypes, Rows, States
<1>2. ASSUME NEW q \in Requests, NEW s \in Settings, ReadForUpdate(q, s) PROVE ClusterTypes'
  <2>1. req' \in [Requests -> ClusterRequests]
    BY <1>2, RequireTyped DEF ReadForUpdate, CallsOf, OnEc2Only, Calls
  <2>2. left' \in ClusterLeft
    <3>1. left.edits - 1 \in Nat /\ Busy \in BOOLEAN
      BY <1>2 DEF ReadForUpdate, ClusterTypes, ClusterLeft, Busy
    <3>2. QED BY <1>2, <3>1 DEF ReadForUpdate, ClusterTypes, ClusterLeft
  <2>3. QED BY <1>2, <2>1, <2>2 DEF ReadForUpdate, requireCluster, ClusterTypes
<1>3. ASSUME NEW q \in Requests, WriteUpdate(q) PROVE ClusterTypes'
  <2>1. req[q].settings \in Settings
    BY <1>3, CallFields DEF WriteUpdate, At, ClusterTypes, OpenCalls
  <2>2. row' \in {Absent} \cup Rows
    BY <1>3, <2>1, RowTyped DEF WriteUpdate, ClusterTypes, Rows, States
  <2>3. QED BY <1>3, <2>2, AnswerTyped DEF WriteUpdate, ClusterTypes
<1>4. ASSUME NEW q \in Requests, ReadForRemove(q) PROVE ClusterTypes'
  <2>1. row.there /\ row.spec \in Settings
    BY <1>4, RowTyped DEF ReadForRemove
  <2>2. req' \in [Requests -> ClusterRequests]
    BY <1>4, <2>1, RequireTyped DEF ReadForRemove, CallsOf, OnEc2Only, Calls
  <2>3. QED BY <1>4, <2>2, OverlapTyped DEF ReadForRemove, requireCluster, ClusterTypes
<1>5. ASSUME NEW q \in Requests, DeleteRow(q) PROVE ClusterTypes'
  BY <1>5, AnswerTyped DEF DeleteRow, ClusterTypes
<1>6. ASSUME NEW q \in Requests, StartProvision(q) PROVE ClusterTypes'
  <2>1. row.there /\ row.spec \in Settings
    BY <1>6, RowTyped DEF StartProvision
  <2>2. req' \in [Requests -> ClusterRequests]
    BY <1>6, <2>1, RequireTyped DEF StartProvision, CallsOf, OnEc2Only, Calls
  <2>3. QED BY <1>6, <2>2, OverlapTyped DEF StartProvision, requireCluster, ClusterTypes
<1>7. ASSUME NEW q \in Requests, ensureEcsCluster(q) PROVE ClusterTypes'
  <2> DEFINE next == IF req[q].spec.type = "ec2" THEN "template" ELSE "save"
  <2>1. Step(q, "ecs", next) /\ req[q].op = "provision"
    BY <1>7 DEF ensureEcsCluster
  <2>2. next \in CallsOf(req[q].op) /\ (next \in OnEc2Only => req[q].spec.type = "ec2")
    BY <2>1 DEF CallsOf, OnEc2Only, Calls
  <2>3. aws' \in Capacity
    BY <1>7 DEF ensureEcsCluster, ClusterTypes, Capacity
  <2> HIDE DEF next
  <2>4. QED BY <2>1, <2>2, <2>3, StepTyped
<1>8. ASSUME NEW q \in Requests, ensureTemplate(q) PROVE ClusterTypes'
  <2>1. Step(q, "template", "group") /\ req[q] \in ClusterRequests /\ req[q].pc = "template"
    BY <1>8 DEF ensureTemplate, Step, At, ClusterTypes
  <2>2. "group" \in CallsOf(req[q].op) /\ ("group" \in OnEc2Only => req[q].spec.type = "ec2")
    BY <2>1, CallFields, CallOps DEF CallsOf, OnEc2Only, Calls
  <2>3. aws' \in Capacity
    <3>1. req[q].spec \in Settings
      BY <2>1, CallFields DEF OpenCalls
    <3>2. req[q].spec.kind \in Kinds /\ (req[q].spec.gpus > 0) \in BOOLEAN
      BY <3>1, SettingsTyped
    <3>3. QED BY <1>8, <3>2 DEF ensureTemplate, ClusterTypes, Capacity, Templates
  <2>4. QED BY <2>1, <2>2, <2>3, StepTyped
<1>9. ASSUME NEW q \in Requests, ensureGroup(q) PROVE ClusterTypes'
  <2>1. Step(q, "group", "provider") /\ req[q] \in ClusterRequests /\ req[q].pc = "group"
    BY <1>9 DEF ensureGroup, Step, At, ClusterTypes
  <2>2. "provider" \in CallsOf(req[q].op) /\ ("provider" \in OnEc2Only => req[q].spec.type = "ec2")
    BY <2>1, CallFields, CallOps DEF CallsOf, OnEc2Only, Calls
  <2>3. aws' \in Capacity
    <3>1. req[q].spec \in Settings
      BY <2>1, CallFields DEF OpenCalls
    <3>2. req[q].spec.mode \in Modes
      BY <3>1, SettingsTyped
    <3>3. EnsureGroup(req[q].spec) \in Groups
      BY <3>2 DEF EnsureGroup, MinInstances, Groups
    <3>4. QED BY <1>9, <3>3 DEF ensureGroup, ClusterTypes, Capacity
  <2>4. QED BY <2>1, <2>2, <2>3, StepTyped
<1>10. ASSUME NEW q \in Requests, ensureProvider(q) PROVE ClusterTypes'
  <2>1. Step(q, "provider", "attach") /\ req[q] \in ClusterRequests /\ req[q].pc = "provider"
    BY <1>10 DEF ensureProvider, Step, At, ClusterTypes
  <2>2. "attach" \in CallsOf(req[q].op) /\ ("attach" \in OnEc2Only => req[q].spec.type = "ec2")
    BY <2>1, CallFields, CallOps DEF CallsOf, OnEc2Only, Calls
  <2>3. aws' \in Capacity
    <3>1. req[q].spec \in Settings
      BY <2>1, CallFields DEF OpenCalls
    <3>2. req[q].spec.mode \in Modes
      BY <3>1, SettingsTyped
    <3>3. QED BY <1>10, <3>2 DEF ensureProvider, ClusterTypes, Capacity, Providers
  <2>4. QED BY <2>1, <2>2, <2>3, StepTyped
<1>11. ASSUME NEW q \in Requests, attachProvider(q) PROVE ClusterTypes'
  <2>1. Step(q, "attach", "save") /\ req[q] \in ClusterRequests /\ req[q].pc = "attach"
    BY <1>11 DEF attachProvider, Step, At, ClusterTypes
  <2>2. "save" \in CallsOf(req[q].op) /\ ("save" \in OnEc2Only => req[q].spec.type = "ec2")
    BY <2>1, CallFields, CallOps DEF CallsOf, OnEc2Only, Calls
  <2>3. aws' \in Capacity
    BY <1>11 DEF attachProvider, ClusterTypes, Capacity
  <2>4. QED BY <2>1, <2>2, <2>3, StepTyped
<1>12. ASSUME NEW q \in Requests, ProvisionRefused(q) PROVE ClusterTypes'
  <2>1. PICK pc \in {"group", "provider", "attach"}, hit \in BOOLEAN :
          Refuse(q, pc, "save", hit)
    BY <1>12 DEF ProvisionRefused
  <2>2. req[q] \in ClusterRequests /\ req[q].pc = pc
    BY <2>1 DEF Refuse, At, ClusterTypes
  <2>3. "save" \in CallsOf(req[q].op) /\ "save" \notin OnEc2Only
    BY <2>2, CallOps DEF CallsOf, OnEc2Only, Calls
  <2>4. QED BY <2>1, <2>3, RefuseTyped
<1>13. ASSUME NEW q \in Requests, StartDeprovision(q) PROVE ClusterTypes'
  <2>1. row.there /\ row.spec \in Settings
    BY <1>13, RowTyped DEF StartDeprovision
  <2> DEFINE first == IF row.spec.type = "ec2" THEN "detach" ELSE "dropEcs"
  <2>2. first \in CallsOf("deprovision") /\ (first \in OnEc2Only => row.spec.type = "ec2")
    BY DEF CallsOf, OnEc2Only, Calls
  <2>3. requireCluster(q, "deprovision", first, row.spec)
    BY <1>13 DEF StartDeprovision
  <2> HIDE DEF first
  <2>4. req' \in [Requests -> ClusterRequests]
    BY <2>1, <2>2, <2>3, RequireTyped
  <2>5. QED BY <1>13, <2>3, <2>4, OverlapTyped DEF StartDeprovision, requireCluster, ClusterTypes
<1>14. ASSUME NEW q \in Requests, detachProvider(q) PROVE ClusterTypes'
  <2>1. Step(q, "detach", "drain") /\ req[q] \in ClusterRequests /\ req[q].pc = "detach"
    BY <1>14 DEF detachProvider, Step, At, ClusterTypes
  <2>2. "drain" \in CallsOf(req[q].op) /\ ("drain" \in OnEc2Only => req[q].spec.type = "ec2")
    BY <2>1, CallFields, CallOps DEF CallsOf, OnEc2Only, Calls
  <2>3. aws' \in Capacity
    BY <1>14 DEF detachProvider, ClusterTypes, Capacity
  <2>4. QED BY <2>1, <2>2, <2>3, StepTyped
<1>15. ASSUME NEW q \in Requests, drainGroup(q) PROVE ClusterTypes'
  <2>1. Step(q, "drain", "dropProvider") /\ req[q] \in ClusterRequests /\ req[q].pc = "drain"
    BY <1>15 DEF drainGroup, Step, At, ClusterTypes
  <2>2. "dropProvider" \in CallsOf(req[q].op) /\ ("dropProvider" \in OnEc2Only => req[q].spec.type = "ec2")
    BY <2>1, CallFields, CallOps DEF CallsOf, OnEc2Only, Calls
  <2>3. aws' \in Capacity
    <3>1. aws.group.there => [aws.group EXCEPT !.want = 0, !.guard = FALSE] \in Groups
      BY GroupTyped, GroupResized
    <3>2. aws.group.there =>
            aws' = [aws EXCEPT !.group = [aws.group EXCEPT !.want = 0, !.guard = FALSE]]
      BY <1>15 DEF drainGroup, ClusterTypes, Capacity
    <3>3. QED BY <1>15, <3>1, <3>2 DEF drainGroup, ClusterTypes, Capacity
  <2>4. QED BY <2>1, <2>2, <2>3, StepTyped
<1>16. ASSUME NEW q \in Requests, deleteProvider(q) PROVE ClusterTypes'
  <2>1. Step(q, "dropProvider", "dropGroup") /\ req[q] \in ClusterRequests /\ req[q].pc = "dropProvider"
    BY <1>16 DEF deleteProvider, Step, At, ClusterTypes
  <2>2. "dropGroup" \in CallsOf(req[q].op) /\ ("dropGroup" \in OnEc2Only => req[q].spec.type = "ec2")
    BY <2>1, CallFields, CallOps DEF CallsOf, OnEc2Only, Calls
  <2>3. aws' \in Capacity
    BY <1>16 DEF deleteProvider, ClusterTypes, Capacity, Providers
  <2>4. QED BY <2>1, <2>2, <2>3, StepTyped
<1>17. ASSUME NEW q \in Requests, deleteGroup(q) PROVE ClusterTypes'
  <2>1. Step(q, "dropGroup", "dropTemplate") /\ req[q] \in ClusterRequests /\ req[q].pc = "dropGroup"
    BY <1>17 DEF deleteGroup, Step, At, ClusterTypes
  <2>2. "dropTemplate" \in CallsOf(req[q].op) /\ ("dropTemplate" \in OnEc2Only => req[q].spec.type = "ec2")
    BY <2>1, CallFields, CallOps DEF CallsOf, OnEc2Only, Calls
  <2>3. aws' \in Capacity
    BY <1>17 DEF deleteGroup, ClusterTypes, Capacity, Groups
  <2>4. QED BY <2>1, <2>2, <2>3, StepTyped
<1>18. ASSUME NEW q \in Requests, deleteTemplate(q) PROVE ClusterTypes'
  <2>1. Step(q, "dropTemplate", "dropEcs") /\ req[q] \in ClusterRequests /\ req[q].pc = "dropTemplate"
    BY <1>18 DEF deleteTemplate, Step, At, ClusterTypes
  <2>2. "dropEcs" \in CallsOf(req[q].op) /\ ("dropEcs" \in OnEc2Only => req[q].spec.type = "ec2")
    BY <2>1, CallFields, CallOps DEF CallsOf, OnEc2Only, Calls
  <2>3. aws' \in Capacity
    BY <1>18 DEF deleteTemplate, ClusterTypes, Capacity, Templates
  <2>4. QED BY <2>1, <2>2, <2>3, StepTyped
<1>19. ASSUME NEW q \in Requests, deleteEcsCluster(q) PROVE ClusterTypes'
  <2>1. Step(q, "dropEcs", "save") /\ req[q] \in ClusterRequests /\ req[q].pc = "dropEcs"
    BY <1>19 DEF deleteEcsCluster, Step, At, ClusterTypes
  <2>2. "save" \in CallsOf(req[q].op) /\ ("save" \in OnEc2Only => req[q].spec.type = "ec2")
    BY <2>1, CallFields, CallOps DEF CallsOf, OnEc2Only, Calls
  <2>3. aws' \in Capacity
    BY <1>19 DEF deleteEcsCluster, ClusterTypes, Capacity
  <2>4. QED BY <2>1, <2>2, <2>3, StepTyped
<1>20. ASSUME NEW q \in Requests, DeprovisionRefused(q) PROVE ClusterTypes'
  <2>1. PICK pc \in {"detach", "dropProvider", "dropGroup", "dropTemplate"}, hit \in BOOLEAN :
          Refuse(q, pc, "dropEcs", hit)
    BY <1>20 DEF DeprovisionRefused
  <2>2. req[q] \in ClusterRequests /\ req[q].pc = pc
    BY <2>1 DEF Refuse, At, ClusterTypes
  <2>3. "dropEcs" \in CallsOf(req[q].op) /\ "dropEcs" \notin OnEc2Only
    BY <2>2, CallOps DEF CallsOf, OnEc2Only, Calls
  <2>4. QED BY <2>1, <2>3, RefuseTyped
<1>21. ASSUME NEW q \in Requests, StillInUse(q) PROVE ClusterTypes'
  <2>1. PICK pc \in {"dropEcs"}, hit \in BOOLEAN :
          Refuse(q, pc, "save", hit)
    BY <1>21 DEF StillInUse
  <2>2. req[q] \in ClusterRequests /\ req[q].pc = pc
    BY <2>1 DEF Refuse, At, ClusterTypes
  <2>3. "save" \in CallsOf(req[q].op) /\ "save" \notin OnEc2Only
    BY <2>2, CallOps DEF CallsOf, OnEc2Only, Calls
  <2>4. QED BY <2>1, <2>3, RefuseTyped
<1>22. ASSUME NEW q \in Requests, CallFails(q) PROVE ClusterTypes'
  <2> DEFINE next == IF req[q].op = "provision" \/ req[q].pc = "dropEcs" THEN "save" ELSE "dropEcs"
  <2>1. req[q] \in ClusterRequests /\ req[q].pc # "idle" /\ req[q].pc \in Calls
    BY <1>22 DEF CallFails, ClusterTypes, Calls
  <2>2. req[q] \in OpenCalls
    BY <2>1, CallFields
  <2>3. next \in CallsOf(req[q].op) /\ next \notin OnEc2Only
    BY <2>1, CallOps DEF CallsOf, OnEc2Only, Calls
  <2>4. req' = [req EXCEPT ![q] = [req[q] EXCEPT !.pc = next, !.error = TRUE, !.hit = TRUE]]
    BY <1>22, <2>2 DEF CallFails, ClusterTypes, OpenCalls
  <2> HIDE DEF next
  <2>5. [req[q] EXCEPT !.pc = next, !.error = TRUE, !.hit = TRUE] \in ClusterRequests
    BY <2>2, <2>3, CallMoves
  <2>6. req' \in [Requests -> ClusterRequests]
    BY <2>4, <2>5 DEF ClusterTypes
  <2>7. left' \in ClusterLeft
    BY <1>22 DEF CallFails, ClusterTypes, ClusterLeft
  <2>8. QED BY <1>22, <2>6, <2>7 DEF CallFails, ClusterTypes
<1>23. ASSUME NEW q \in Requests, Save(q) PROVE ClusterTypes'
  <2>1. Outcome(req[q]) \in States
    BY DEF Outcome, States
  <2>2. row' \in {Absent} \cup Rows
    BY <1>23, <2>1, RowTyped DEF Save, ClusterTypes, Rows
  <2>3. QED BY <1>23, <2>2, AnswerTyped DEF Save, ClusterTypes
<1>24. ASSUME NEW q \in Requests, Killed(q) PROVE ClusterTypes'
  <2>1. left' \in ClusterLeft
    <3>1. left.kills - 1 \in Nat
      BY <1>24 DEF Killed, ClusterTypes, ClusterLeft
    <3>2. QED BY <1>24, <3>1 DEF Killed, ClusterTypes, ClusterLeft
  <2>2. QED BY <1>24, <2>1, AnswerTyped DEF Killed, ClusterTypes
<1>25. ASSUME HostJoins PROVE ClusterTypes'
  <2>1. hosts' \in 0..1
    BY <1>25, GroupTyped DEF HostJoins, ClusterTypes, Target
  <2>2. QED BY <1>25, <2>1 DEF HostJoins, ClusterTypes
<1>26. ASSUME HostLeaves PROVE ClusterTypes'
  <2>1. Target \in 0..1
    BY GroupTyped DEF Target
  <2>2. hosts' \in 0..1
    BY <1>26, <2>1 DEF HostLeaves, ClusterTypes
  <2>3. QED BY <1>26, <2>2 DEF HostLeaves, ClusterTypes
<1>27. ASSUME ManagedScaling PROVE ClusterTypes'
  <2>1. [aws.group EXCEPT !.want = 1] \in Groups
    BY <1>27, GroupTyped, GroupResized DEF ManagedScaling
  <2>2. aws' = [aws EXCEPT !.group = [aws.group EXCEPT !.want = 1]]
    BY <1>27 DEF ManagedScaling
  <2>3. aws' \in Capacity
    BY <2>1, <2>2 DEF ClusterTypes, Capacity
  <2>4. QED BY <1>27, <2>3 DEF ManagedScaling, ClusterTypes
<1>28. ASSUME AssignService PROVE ClusterTypes'
  BY <1>28 DEF AssignService, ClusterTypes
<1>29. ASSUME DeployService PROVE ClusterTypes'
  BY <1>29 DEF DeployService, ClusterTypes
<1>30. ASSUME RemoveService PROVE ClusterTypes'
  BY <1>30 DEF RemoveService, ClusterTypes
<1>31. QED
  BY <1>1, <1>2, <1>3, <1>4, <1>5, <1>6, <1>7, <1>8, <1>9, <1>10, <1>11, <1>12, <1>13, <1>14, <1>15, <1>16, <1>17, <1>18, <1>19, <1>20, <1>21, <1>22, <1>23, <1>24, <1>25, <1>26, <1>27, <1>28, <1>29, <1>30 DEF ClusterNext
-----------------------------------------------------------------------------
(* A request moves or ends: the others stay as they are, and of itself it  *)
(* is known what it has come to.                                           *)
LEMMA UnhitStep ==
  ASSUME UnhitIsAlone, NEW q \in Requests, CallOpen(q),
         \A r \in Requests \ {q} : req'[r] = req[r],
         CallOpen(q)' /\ ~req'[q].hit =>
           /\ ~req[q].hit /\ ~req'[q].error
           /\ req'[q].op = "provision" => BuiltUp(req[q])'
           /\ req'[q].op = "deprovision" => TakenDown(req[q])'
  PROVE  UnhitIsAlone'
<1> SUFFICES ASSUME NEW p \in Requests, CallOpen(p)', ~req'[p].hit
             PROVE  /\ ~req'[p].error
                    /\ \A r \in Requests \ {p} : ~CallOpen(r)'
                    /\ req'[p].op = "provision" => BuiltUp(req[p])'
                    /\ req'[p].op = "deprovision" => TakenDown(req[p])'
  BY DEF UnhitIsAlone
<1>1. CASE p = q
  BY <1>1 DEF UnhitIsAlone, CallOpen
<1>2. CASE p # q
  BY <1>2 DEF UnhitIsAlone, CallOpen
<1>3. QED BY <1>1, <1>2

LEMMA UnhitAnswer ==
  ASSUME ClusterTypes, UnhitIsAlone, NEW q \in Requests, CallOpen(q), Answer(q)
  PROVE  UnhitIsAlone'
<1>1. \A r \in Requests \ {q} : req'[r] = req[r]
  BY DEF Answer, ClusterTypes
<1>2. ~CallOpen(q)'
  BY DEF Answer, ClusterTypes, CallOpen, IdleCall
<1>3. QED BY <1>1, <1>2, UnhitStep

(* The others are hit by a request that starts, and it by them.            *)
LEMMA UnhitStarts ==
  ASSUME ClusterTypes, UnhitIsAlone, NEW q \in Requests, NEW op, NEW first, NEW extra,
         requireCluster(q, op, first, extra), first # "idle",
         op = "provision" => first = "ecs",
         op = "deprovision" => first = "detach" \/ (first = "dropEcs" /\ row.spec.type # "ec2")
  PROVE  UnhitIsAlone'
<1>1. /\ req'[q].pc = first /\ req'[q].op = op /\ req'[q].spec = row.spec
      /\ req'[q].error = FALSE /\ req'[q].hit = Busy
  BY DEF requireCluster
<1>2. ASSUME NEW r \in Requests \ {q}
      PROVE  IF CallOpen(r) THEN CallOpen(r)' /\ req'[r].hit = TRUE ELSE ~CallOpen(r)'
  <2>1. CASE CallOpen(r)
    <3>1. req[r] \in OpenCalls
      BY <2>1, CallFields DEF ClusterTypes, CallOpen
    <3>2. req'[r] = [req[r] EXCEPT !.hit = TRUE]
      BY <2>1 DEF requireCluster, CallOpen
    <3>3. QED BY <2>1, <3>1, <3>2 DEF OpenCalls, CallOpen
  <2>2. CASE ~CallOpen(r)
    BY <2>2 DEF requireCluster, CallOpen
  <2>3. QED BY <2>1, <2>2
<1>3. op = "provision" => BuiltUp(req[q])'
  BY <1>1 DEF BuiltUp
<1>4. op = "deprovision" => TakenDown(req[q])'
  BY <1>1 DEF TakenDown
<1>5. ~Busy => \A r \in Requests : ~CallOpen(r)
  BY DEF Busy, CallOpen
<1>6. QED BY <1>1, <1>2, <1>3, <1>4, <1>5 DEF UnhitIsAlone

LEMMA UnhitKept ==
  ASSUME ClusterTypes, UnhitIsAlone, ClusterNext
  PROVE  UnhitIsAlone'
<1>1. ASSUME NEW s \in Settings, insertCluster(s) PROVE UnhitIsAlone'
  BY <1>1 DEF insertCluster, UnhitIsAlone, CallOpen, BuiltUp, TakenDown, TemplateOf, GroupOf
<1>2. ASSUME NEW q \in Requests, NEW s \in Settings, ReadForUpdate(q, s) PROVE UnhitIsAlone'
  BY <1>2, UnhitStarts DEF ReadForUpdate
<1>3. ASSUME NEW q \in Requests, WriteUpdate(q) PROVE UnhitIsAlone'
  BY <1>3, UnhitAnswer DEF WriteUpdate, At, CallOpen
<1>4. ASSUME NEW q \in Requests, ReadForRemove(q) PROVE UnhitIsAlone'
  BY <1>4, UnhitStarts DEF ReadForRemove
<1>5. ASSUME NEW q \in Requests, DeleteRow(q) PROVE UnhitIsAlone'
  BY <1>5, UnhitAnswer DEF DeleteRow, At, CallOpen
<1>6. ASSUME NEW q \in Requests, StartProvision(q) PROVE UnhitIsAlone'
  BY <1>6, UnhitStarts DEF StartProvision
<1>7. ASSUME NEW q \in Requests, ensureEcsCluster(q) PROVE UnhitIsAlone'
  <2>1. CallOpen(q) /\ req[q] \in OpenCalls /\ req[q].pc = "ecs" /\ req[q].op = "provision"
    BY <1>7, CallFields DEF ensureEcsCluster, Step, At, ClusterTypes, CallOpen
  <2>2. PICK next \in {"template", "save"} :
          /\ req' = [req EXCEPT ![q].pc = next]
          /\ req[q].spec.type = "ec2" => next = "template"
    BY <1>7 DEF ensureEcsCluster, Step, Go
  <2>3. /\ \A r \in Requests \ {q} : req'[r] = req[r]
        /\ req'[q] = [req[q] EXCEPT !.pc = next]
    BY <2>2 DEF ClusterTypes
  <2>4. /\ req'[q].pc = next /\ req'[q].op = req[q].op /\ req'[q].spec = req[q].spec
        /\ req'[q].error = req[q].error /\ req'[q].hit = req[q].hit
    BY <2>1, <2>3 DEF OpenCalls
  <2>5. ~req[q].hit => ~req[q].error /\ BuiltUp(req[q])'
    BY <1>7, <2>1, <2>2, <2>4 DEF ensureEcsCluster, UnhitIsAlone, BuiltUp, ClusterTypes, Capacity
  <2>6. QED BY <2>1, <2>3, <2>4, <2>5, UnhitStep
<1>8. ASSUME NEW q \in Requests, ensureTemplate(q) PROVE UnhitIsAlone'
  <2>1. CallOpen(q) /\ req[q] \in OpenCalls /\ req[q].pc = "template"
        /\ req[q].op = "provision"
    BY <1>8, CallFields, CallOps DEF ensureTemplate, Step, At, ClusterTypes, CallOpen
  <2>2. req' = [req EXCEPT ![q].pc = "group"]
    BY <1>8 DEF ensureTemplate, Step, Go
  <2>3. /\ \A r \in Requests \ {q} : req'[r] = req[r]
        /\ req'[q] = [req[q] EXCEPT !.pc = "group"]
    BY <2>2 DEF ClusterTypes
  <2>4. /\ req'[q].pc = "group" /\ req'[q].op = req[q].op /\ req'[q].spec = req[q].spec
        /\ req'[q].error = req[q].error /\ req'[q].hit = req[q].hit
    BY <2>1, <2>3 DEF OpenCalls
  <2>5. ~req[q].hit => ~req[q].error /\ BuiltUp(req[q])'
    BY <1>8, <2>1, <2>4, CallFields DEF ensureTemplate, UnhitIsAlone, BuiltUp, ClusterTypes, Capacity, TemplateOf
  <2>6. QED BY <2>1, <2>3, <2>4, <2>5, UnhitStep
<1>9. ASSUME NEW q \in Requests, ensureGroup(q) PROVE UnhitIsAlone'
  <2>1. CallOpen(q) /\ req[q] \in OpenCalls /\ req[q].pc = "group"
        /\ req[q].op = "provision"
    BY <1>9, CallFields, CallOps DEF ensureGroup, Step, At, ClusterTypes, CallOpen
  <2>2. req' = [req EXCEPT ![q].pc = "provider"]
    BY <1>9 DEF ensureGroup, Step, Go
  <2>3. /\ \A r \in Requests \ {q} : req'[r] = req[r]
        /\ req'[q] = [req[q] EXCEPT !.pc = "provider"]
    BY <2>2 DEF ClusterTypes
  <2>4. /\ req'[q].pc = "provider" /\ req'[q].op = req[q].op /\ req'[q].spec = req[q].spec
        /\ req'[q].error = req[q].error /\ req'[q].hit = req[q].hit
    BY <2>1, <2>3 DEF OpenCalls
  <2>5. ~req[q].hit => ~req[q].error /\ BuiltUp(req[q])'
    BY <1>9, <2>1, <2>4, CallFields DEF ensureGroup, UnhitIsAlone, BuiltUp, ClusterTypes, Capacity, EnsureGroup, GroupOf, TemplateOf
  <2>6. QED BY <2>1, <2>3, <2>4, <2>5, UnhitStep
<1>10. ASSUME NEW q \in Requests, ensureProvider(q) PROVE UnhitIsAlone'
  <2>1. CallOpen(q) /\ req[q] \in OpenCalls /\ req[q].pc = "provider"
        /\ req[q].op = "provision"
    BY <1>10, CallFields, CallOps DEF ensureProvider, Step, At, ClusterTypes, CallOpen
  <2>2. req' = [req EXCEPT ![q].pc = "attach"]
    BY <1>10 DEF ensureProvider, Step, Go
  <2>3. /\ \A r \in Requests \ {q} : req'[r] = req[r]
        /\ req'[q] = [req[q] EXCEPT !.pc = "attach"]
    BY <2>2 DEF ClusterTypes
  <2>4. /\ req'[q].pc = "attach" /\ req'[q].op = req[q].op /\ req'[q].spec = req[q].spec
        /\ req'[q].error = req[q].error /\ req'[q].hit = req[q].hit
    BY <2>1, <2>3 DEF OpenCalls
  <2>5. ~req[q].hit => ~req[q].error /\ BuiltUp(req[q])'
    BY <1>10, <2>1, <2>4, CallFields DEF ensureProvider, UnhitIsAlone, BuiltUp, ClusterTypes, Capacity, TemplateOf, GroupOf
  <2>6. QED BY <2>1, <2>3, <2>4, <2>5, UnhitStep
<1>11. ASSUME NEW q \in Requests, attachProvider(q) PROVE UnhitIsAlone'
  <2>1. CallOpen(q) /\ req[q] \in OpenCalls /\ req[q].pc = "attach"
        /\ req[q].op = "provision"
    BY <1>11, CallFields, CallOps DEF attachProvider, Step, At, ClusterTypes, CallOpen
  <2>2. req' = [req EXCEPT ![q].pc = "save"]
    BY <1>11 DEF attachProvider, Step, Go
  <2>3. /\ \A r \in Requests \ {q} : req'[r] = req[r]
        /\ req'[q] = [req[q] EXCEPT !.pc = "save"]
    BY <2>2 DEF ClusterTypes
  <2>4. /\ req'[q].pc = "save" /\ req'[q].op = req[q].op /\ req'[q].spec = req[q].spec
        /\ req'[q].error = req[q].error /\ req'[q].hit = req[q].hit
    BY <2>1, <2>3 DEF OpenCalls
  <2>5. ~req[q].hit => ~req[q].error /\ BuiltUp(req[q])'
    BY <1>11, <2>1, <2>4, CallFields DEF attachProvider, UnhitIsAlone, BuiltUp, ClusterTypes, Capacity, TemplateOf, GroupOf
  <2>6. QED BY <2>1, <2>3, <2>4, <2>5, UnhitStep
<1>12. ASSUME NEW q \in Requests, ProvisionRefused(q) PROVE UnhitIsAlone'
  <2>1. PICK pc \in {"group", "provider", "attach"}, hit \in BOOLEAN :
          /\ Refuse(q, pc, "save", hit)
          /\ pc = "group" => ~aws.template.there
          /\ pc = "provider" => ~aws.group.there
          /\ pc = "attach" => ~(aws.provider.there /\ aws.ecs)
          /\ ~hit
    BY <1>12 DEF ProvisionRefused
  <2>2. CallOpen(q) /\ req[q] \in OpenCalls /\ req[q] \in ClusterRequests /\ req[q].pc = pc
    BY <2>1, CallFields DEF Refuse, At, ClusterTypes, CallOpen
  <2>3. /\ \A r \in Requests \ {q} : req'[r] = req[r]
        /\ req'[q] = [req[q] EXCEPT !.pc = "save", !.error = TRUE, !.hit = @ \/ hit]
    BY <2>1 DEF Refuse, ClusterTypes
  <2>4. req'[q].hit = (req[q].hit \/ hit)
    BY <2>2, <2>3 DEF OpenCalls
  <2>5. req[q].op = "provision"
    BY <2>1, <2>2, CallOps DEF CallOpen
  <2>6. ~req[q].hit => BuiltUp(req[q])
    BY <2>2, <2>5 DEF UnhitIsAlone
  <2>7. req[q].hit \/ hit
    BY <2>1, <2>2, <2>6 DEF BuiltUp, TemplateOf, GroupOf
  <2>8. QED BY <2>2, <2>3, <2>4, <2>7, UnhitStep
<1>13. ASSUME NEW q \in Requests, StartDeprovision(q) PROVE UnhitIsAlone'
  <2>1. PICK first \in {"detach", "dropEcs"} :
          /\ requireCluster(q, "deprovision", first, row.spec)
          /\ first = "dropEcs" => row.spec.type # "ec2"
    BY <1>13 DEF StartDeprovision
  <2>2. QED BY <2>1, UnhitStarts
<1>14. ASSUME NEW q \in Requests, detachProvider(q) PROVE UnhitIsAlone'
  <2>1. CallOpen(q) /\ req[q] \in OpenCalls /\ req[q].pc = "detach"
        /\ req[q].op = "deprovision"
    BY <1>14, CallFields, CallOps DEF detachProvider, Step, At, ClusterTypes, CallOpen
  <2>2. req' = [req EXCEPT ![q].pc = "drain"]
    BY <1>14 DEF detachProvider, Step, Go
  <2>3. /\ \A r \in Requests \ {q} : req'[r] = req[r]
        /\ req'[q] = [req[q] EXCEPT !.pc = "drain"]
    BY <2>2 DEF ClusterTypes
  <2>4. /\ req'[q].pc = "drain" /\ req'[q].op = req[q].op /\ req'[q].spec = req[q].spec
        /\ req'[q].error = req[q].error /\ req'[q].hit = req[q].hit
    BY <2>1, <2>3 DEF OpenCalls
  <2>5. ~req[q].hit => ~req[q].error /\ TakenDown(req[q])'
    BY <1>14, <2>1, <2>4, CallFields DEF detachProvider, UnhitIsAlone, TakenDown, ClusterTypes, Capacity
  <2>6. QED BY <2>1, <2>3, <2>4, <2>5, UnhitStep
<1>15. ASSUME NEW q \in Requests, drainGroup(q) PROVE UnhitIsAlone'
  <2>1. CallOpen(q) /\ req[q] \in OpenCalls /\ req[q].pc = "drain"
        /\ req[q].op = "deprovision"
    BY <1>15, CallFields, CallOps DEF drainGroup, Step, At, ClusterTypes, CallOpen
  <2>2. req' = [req EXCEPT ![q].pc = "dropProvider"]
    BY <1>15 DEF drainGroup, Step, Go
  <2>3. /\ \A r \in Requests \ {q} : req'[r] = req[r]
        /\ req'[q] = [req[q] EXCEPT !.pc = "dropProvider"]
    BY <2>2 DEF ClusterTypes
  <2>4. /\ req'[q].pc = "dropProvider" /\ req'[q].op = req[q].op /\ req'[q].spec = req[q].spec
        /\ req'[q].error = req[q].error /\ req'[q].hit = req[q].hit
    BY <2>1, <2>3 DEF OpenCalls
  <2>5. ~req[q].hit => ~req[q].error /\ TakenDown(req[q])'
    BY <1>15, <2>1, <2>4, CallFields DEF drainGroup, UnhitIsAlone, TakenDown, ClusterTypes, Capacity
  <2>6. QED BY <2>1, <2>3, <2>4, <2>5, UnhitStep
<1>16. ASSUME NEW q \in Requests, deleteProvider(q) PROVE UnhitIsAlone'
  <2>1. CallOpen(q) /\ req[q] \in OpenCalls /\ req[q].pc = "dropProvider"
        /\ req[q].op = "deprovision"
    BY <1>16, CallFields, CallOps DEF deleteProvider, Step, At, ClusterTypes, CallOpen
  <2>2. req' = [req EXCEPT ![q].pc = "dropGroup"]
    BY <1>16 DEF deleteProvider, Step, Go
  <2>3. /\ \A r \in Requests \ {q} : req'[r] = req[r]
        /\ req'[q] = [req[q] EXCEPT !.pc = "dropGroup"]
    BY <2>2 DEF ClusterTypes
  <2>4. /\ req'[q].pc = "dropGroup" /\ req'[q].op = req[q].op /\ req'[q].spec = req[q].spec
        /\ req'[q].error = req[q].error /\ req'[q].hit = req[q].hit
    BY <2>1, <2>3 DEF OpenCalls
  <2>5. ~req[q].hit => ~req[q].error /\ TakenDown(req[q])'
    BY <1>16, <2>1, <2>4, CallFields DEF deleteProvider, UnhitIsAlone, TakenDown, ClusterTypes, Capacity
  <2>6. QED BY <2>1, <2>3, <2>4, <2>5, UnhitStep
<1>17. ASSUME NEW q \in Requests, deleteGroup(q) PROVE UnhitIsAlone'
  <2>1. CallOpen(q) /\ req[q] \in OpenCalls /\ req[q].pc = "dropGroup"
        /\ req[q].op = "deprovision"
    BY <1>17, CallFields, CallOps DEF deleteGroup, Step, At, ClusterTypes, CallOpen
  <2>2. req' = [req EXCEPT ![q].pc = "dropTemplate"]
    BY <1>17 DEF deleteGroup, Step, Go
  <2>3. /\ \A r \in Requests \ {q} : req'[r] = req[r]
        /\ req'[q] = [req[q] EXCEPT !.pc = "dropTemplate"]
    BY <2>2 DEF ClusterTypes
  <2>4. /\ req'[q].pc = "dropTemplate" /\ req'[q].op = req[q].op /\ req'[q].spec = req[q].spec
        /\ req'[q].error = req[q].error /\ req'[q].hit = req[q].hit
    BY <2>1, <2>3 DEF OpenCalls
  <2>5. ~req[q].hit => ~req[q].error /\ TakenDown(req[q])'
    BY <1>17, <2>1, <2>4, CallFields DEF deleteGroup, UnhitIsAlone, TakenDown, ClusterTypes, Capacity
  <2>6. QED BY <2>1, <2>3, <2>4, <2>5, UnhitStep
<1>18. ASSUME NEW q \in Requests, deleteTemplate(q) PROVE UnhitIsAlone'
  <2>1. CallOpen(q) /\ req[q] \in OpenCalls /\ req[q].pc = "dropTemplate"
        /\ req[q].op = "deprovision"
    BY <1>18, CallFields, CallOps DEF deleteTemplate, Step, At, ClusterTypes, CallOpen
  <2>2. req' = [req EXCEPT ![q].pc = "dropEcs"]
    BY <1>18 DEF deleteTemplate, Step, Go
  <2>3. /\ \A r \in Requests \ {q} : req'[r] = req[r]
        /\ req'[q] = [req[q] EXCEPT !.pc = "dropEcs"]
    BY <2>2 DEF ClusterTypes
  <2>4. /\ req'[q].pc = "dropEcs" /\ req'[q].op = req[q].op /\ req'[q].spec = req[q].spec
        /\ req'[q].error = req[q].error /\ req'[q].hit = req[q].hit
    BY <2>1, <2>3 DEF OpenCalls
  <2>5. ~req[q].hit => ~req[q].error /\ TakenDown(req[q])'
    BY <1>18, <2>1, <2>4, CallFields DEF deleteTemplate, UnhitIsAlone, TakenDown, ClusterTypes, Capacity
  <2>6. QED BY <2>1, <2>3, <2>4, <2>5, UnhitStep
<1>19. ASSUME NEW q \in Requests, deleteEcsCluster(q) PROVE UnhitIsAlone'
  <2>1. CallOpen(q) /\ req[q] \in OpenCalls /\ req[q].pc = "dropEcs"
        /\ req[q].op = "deprovision"
    BY <1>19, CallFields, CallOps DEF deleteEcsCluster, Step, At, ClusterTypes, CallOpen
  <2>2. req' = [req EXCEPT ![q].pc = "save"]
    BY <1>19 DEF deleteEcsCluster, Step, Go
  <2>3. /\ \A r \in Requests \ {q} : req'[r] = req[r]
        /\ req'[q] = [req[q] EXCEPT !.pc = "save"]
    BY <2>2 DEF ClusterTypes
  <2>4. /\ req'[q].pc = "save" /\ req'[q].op = req[q].op /\ req'[q].spec = req[q].spec
        /\ req'[q].error = req[q].error /\ req'[q].hit = req[q].hit
    BY <2>1, <2>3 DEF OpenCalls
  <2>5. ~req[q].hit => ~req[q].error /\ TakenDown(req[q])'
    BY <1>19, <2>1, <2>4, CallFields DEF deleteEcsCluster, UnhitIsAlone, TakenDown, ClusterTypes, Capacity
  <2>6. QED BY <2>1, <2>3, <2>4, <2>5, UnhitStep
<1>20. ASSUME NEW q \in Requests, DeprovisionRefused(q) PROVE UnhitIsAlone'
  <2>1. PICK pc \in {"detach", "dropProvider", "dropGroup", "dropTemplate"}, hit \in BOOLEAN :
          /\ Refuse(q, pc, "dropEcs", hit)
          /\ pc = "detach" => hit
          /\ pc = "dropProvider" => aws.attached
          /\ pc = "dropGroup" => aws.provider.there
          /\ pc = "dropTemplate" => aws.group.there
    BY <1>20 DEF DeprovisionRefused
  <2>2. CallOpen(q) /\ req[q] \in OpenCalls /\ req[q] \in ClusterRequests /\ req[q].pc = pc
    BY <2>1, CallFields DEF Refuse, At, ClusterTypes, CallOpen
  <2>3. /\ \A r \in Requests \ {q} : req'[r] = req[r]
        /\ req'[q] = [req[q] EXCEPT !.pc = "dropEcs", !.error = TRUE, !.hit = @ \/ hit]
    BY <2>1 DEF Refuse, ClusterTypes
  <2>4. req'[q].hit = (req[q].hit \/ hit)
    BY <2>2, <2>3 DEF OpenCalls
  <2>5. req[q].op = "deprovision"
    BY <2>1, <2>2, CallOps DEF CallOpen
  <2>6. ~req[q].hit => TakenDown(req[q])
    BY <2>2, <2>5 DEF UnhitIsAlone
  <2>7. req[q].hit \/ hit
    BY <2>1, <2>2, <2>6 DEF TakenDown, Absent
  <2>8. QED BY <2>2, <2>3, <2>4, <2>7, UnhitStep
<1>21. ASSUME NEW q \in Requests, StillInUse(q) PROVE UnhitIsAlone'
  <2>1. PICK pc \in {"dropEcs"}, hit \in BOOLEAN :
          /\ Refuse(q, pc, "save", hit)
          /\ hit
    BY <1>21 DEF StillInUse
  <2>2. CallOpen(q) /\ req[q] \in OpenCalls /\ req[q] \in ClusterRequests /\ req[q].pc = pc
    BY <2>1, CallFields DEF Refuse, At, ClusterTypes, CallOpen
  <2>3. /\ \A r \in Requests \ {q} : req'[r] = req[r]
        /\ req'[q] = [req[q] EXCEPT !.pc = "save", !.error = TRUE, !.hit = @ \/ hit]
    BY <2>1 DEF Refuse, ClusterTypes
  <2>4. req'[q].hit = (req[q].hit \/ hit)
    BY <2>2, <2>3 DEF OpenCalls
  <2>5. QED BY <2>1, <2>2, <2>3, <2>4, UnhitStep
<1>22. ASSUME NEW q \in Requests, CallFails(q) PROVE UnhitIsAlone'
  <2>1. CallOpen(q) /\ \A r \in Requests \ {q} : req'[r] = req[r]
    BY <1>22 DEF CallFails, ClusterTypes, CallOpen, Calls
  <2>2. req[q] \in OpenCalls
    BY <2>1, CallFields DEF ClusterTypes, CallOpen
  <2>3. req'[q].hit = TRUE
    BY <1>22, <2>2 DEF CallFails, ClusterTypes, OpenCalls
  <2>4. QED BY <2>1, <2>3, UnhitStep
<1>23. ASSUME NEW q \in Requests, Save(q) PROVE UnhitIsAlone'
  BY <1>23, UnhitAnswer DEF Save, At, CallOpen
<1>24. ASSUME NEW q \in Requests, Killed(q) PROVE UnhitIsAlone'
  BY <1>24, UnhitAnswer DEF Killed, At, CallOpen
<1>25. ASSUME HostJoins PROVE UnhitIsAlone'
  BY <1>25 DEF HostJoins, UnhitIsAlone, CallOpen, BuiltUp, TakenDown, TemplateOf, GroupOf
<1>26. ASSUME HostLeaves PROVE UnhitIsAlone'
  BY <1>26 DEF HostLeaves, UnhitIsAlone, CallOpen, BuiltUp, TakenDown, TemplateOf, GroupOf
<1>27. ASSUME ManagedScaling PROVE UnhitIsAlone'
  <2>1. /\ aws.group.there /\ aws.group # Absent /\ aws.group \in Groups /\ aws' = [aws EXCEPT !.group.want = 1]
        /\ aws.attached /\ req' = req
    BY <1>27, GroupTyped DEF ManagedScaling, Absent
  <2>2. /\ aws'.ecs = aws.ecs /\ aws'.template = aws.template /\ aws'.provider = aws.provider
        /\ aws'.attached = aws.attached
        /\ aws'.group.there = aws.group.there /\ aws'.group.guard = aws.group.guard
    BY <2>1 DEF ClusterTypes, Capacity, Groups
  <2>3. \A r : BuiltUp(r) => BuiltUp(r)'
    BY <2>2 DEF BuiltUp, TemplateOf, GroupOf
  <2>4. \A r : TakenDown(r) => TakenDown(r)'
    BY <2>1, <2>2 DEF TakenDown
  <2>5. QED BY <2>1, <2>3, <2>4 DEF UnhitIsAlone, CallOpen
<1>28. ASSUME AssignService PROVE UnhitIsAlone'
  BY <1>28 DEF AssignService, UnhitIsAlone, CallOpen, BuiltUp, TakenDown, TemplateOf, GroupOf
<1>29. ASSUME DeployService PROVE UnhitIsAlone'
  BY <1>29 DEF DeployService, UnhitIsAlone, CallOpen, BuiltUp, TakenDown, TemplateOf, GroupOf
<1>30. ASSUME RemoveService PROVE UnhitIsAlone'
  BY <1>30 DEF RemoveService, UnhitIsAlone, CallOpen, BuiltUp, TakenDown, TemplateOf, GroupOf
<1>31. QED
  BY <1>1, <1>2, <1>3, <1>4, <1>5, <1>6, <1>7, <1>8, <1>9, <1>10, <1>11, <1>12, <1>13, <1>14, <1>15, <1>16, <1>17, <1>18, <1>19, <1>20, <1>21, <1>22, <1>23, <1>24, <1>25, <1>26, <1>27, <1>28, <1>29, <1>30 DEF ClusterNext
-----------------------------------------------------------------------------
(* A request that moves the capacity goes on: the row may be untrue while  *)
(* it does, and it still knows the row.                                    *)
LEMMA CapacityMoves ==
  ASSUME ClusterTypes, ClusterCalm, NEW q \in Requests, CallOpen(q), CallOpen(q)',
         req'[q].op \in {"provision", "deprovision"}, req'[q].op = req[q].op,
         req'[q].spec = req[q].spec, req'[q].state = req[q].state,
         req'[q].hit => req'[q].error \/ (req[q].hit /\ ~req[q].error),
         \A r \in Requests \ {q} : req'[r] = req[r],
         row' = row, left'.alone => left.alone,
         Bare /\ (CallOpen(q) => req[q].spec.type = "fargate") => Bare'
  PROVE  ClusterCalm'
<1> SUFFICES ASSUME left'.alone PROVE ClusterCalm'
  BY DEF ClusterCalm
<1>1. /\ \A p, r \in Requests : CallOpen(p) /\ CallOpen(r) => p = r
      /\ RowIsKnown
      /\ row.there /\ row.spec.type = "fargate" => Bare
  BY DEF ClusterCalm
<1>2. \A r \in Requests \ {q} : ~CallOpen(r) /\ ~CallOpen(r)'
  BY <1>1 DEF CallOpen
<1>3. /\ row.there /\ req[q].spec = row.spec /\ req[q].state = row.state
      /\ req[q].hit => req[q].error
  BY <1>1 DEF RowIsKnown
<1>4. RowIsKnown'
  BY <1>2, <1>3 DEF RowIsKnown
<1>5. row.spec.type = "fargate" => Bare'
  BY <1>1, <1>3
<1>6. RowIsTrue'
  BY <1>2 DEF RowIsTrue
<1>7. QED BY <1>2, <1>4, <1>5, <1>6 DEF ClusterCalm

(* A request starts alone, so the row is true of what it starts from.      *)
LEMMA StartsKnown ==
  ASSUME ClusterTypes, ClusterCalm, NEW q \in Requests, NEW op, NEW first, NEW extra,
         requireCluster(q, op, first, extra), row.there, first # "idle",
         left'.alone => left.alone /\ ~Busy,
         op = "update" => extra.type = row.spec.type,
         op = "remove" => row.state = "not_provisioned"
  PROVE  ClusterCalm'
<1> SUFFICES ASSUME left'.alone PROVE ClusterCalm'
  BY DEF ClusterCalm
<1>1. left.alone /\ \A r \in Requests : ~CallOpen(r)
  BY DEF Busy, CallOpen
<1>2. \A r \in Requests \ {q} : ~CallOpen(r)'
  BY <1>1 DEF requireCluster, CallOpen
<1>3. /\ req'[q].op = op /\ req'[q].spec = row.spec /\ req'[q].state = row.state
      /\ req'[q].settings = extra /\ req'[q].hit = FALSE
  BY <1>1 DEF requireCluster, Busy, CallOpen
<1>4. RowIsTrue
  BY <1>1 DEF ClusterCalm
<1>5. UNCHANGED <<row, aws>>
  BY DEF requireCluster
<1>6. RowIsKnown'
  BY <1>2, <1>3, <1>5 DEF RowIsKnown
<1>7. RowIsTrue'
  BY <1>1, <1>4, <1>5 DEF RowIsTrue, Whole, TemplateOf, GroupOf
<1>8. row'.there /\ row'.spec.type = "fargate" => Bare'
  BY <1>1, <1>5 DEF ClusterCalm, Bare
<1>9. QED BY <1>2, <1>6, <1>7, <1>8 DEF ClusterCalm

(* A request ends: what is left to show is the row.                        *)
LEMMA EndsTrue ==
  ASSUME ClusterTypes, ClusterCalm, NEW q \in Requests, CallOpen(q), Answer(q),
         left'.alone => left.alone, UNCHANGED aws,
         left.alone => /\ row'.there => row.there /\ row'.spec.type = row.spec.type
                       /\ ~row'.there \/ row'.state = "not_provisioned" => aws = Nothing
                       /\ row'.there /\ row'.state = "provisioned" => Whole'
  PROVE  ClusterCalm'
<1> SUFFICES ASSUME left'.alone PROVE ClusterCalm'
  BY DEF ClusterCalm
<1>1. \A r \in Requests : ~CallOpen(r)'
  BY DEF ClusterCalm, Answer, ClusterTypes, CallOpen, IdleCall
<1>2. RowIsKnown'
  BY <1>1 DEF RowIsKnown
<1>3. RowIsTrue'
  BY <1>1 DEF RowIsTrue
<1>4. row'.there /\ row'.spec.type = "fargate" => Bare'
  BY DEF ClusterCalm, Bare
<1>5. QED BY <1>1, <1>2, <1>3, <1>4 DEF ClusterCalm

(* Someone or something outside moves: neither row nor requests change,    *)
(* and of AWS only the number of instances asked for.                      *)
LEMMA OutsideCalm ==
  ASSUME ClusterCalm, UNCHANGED <<row, req, left>>,
         aws' = aws \/ (/\ aws # Nothing /\ ~Bare
                        /\ aws'.ecs = aws.ecs /\ aws'.template = aws.template
                        /\ aws'.provider = aws.provider /\ aws'.attached = aws.attached
                        /\ aws'.group.there = aws.group.there
                        /\ aws'.group.guard = aws.group.guard)
  PROVE  ClusterCalm'
<1>1. RowIsKnown => RowIsKnown'
  BY DEF RowIsKnown, CallOpen
<1>2. RowIsTrue => RowIsTrue'
  BY DEF RowIsTrue, CallOpen, Whole, TemplateOf, GroupOf
<1>3. (row.there /\ row.spec.type = "fargate" => Bare) =>
      (row'.there /\ row'.spec.type = "fargate" => Bare')
  BY DEF Bare
<1>4. QED BY <1>1, <1>2, <1>3 DEF ClusterCalm, CallOpen

LEMMA ClusterCalmKept ==
  ASSUME ClusterTypes, UnhitIsAlone, ClusterCalm, ClusterNext
  PROVE  ClusterCalm'
<1>1. ASSUME NEW s \in Settings, insertCluster(s) PROVE ClusterCalm'
  <2>1. SUFFICES ASSUME left.alone PROVE ClusterCalm'
    BY <1>1 DEF insertCluster, ClusterCalm
  <2>2. \A q \in Requests : ~CallOpen(q)
    BY <1>1, <2>1 DEF insertCluster, ClusterCalm, RowIsKnown
  <2>3. aws = Nothing
    BY <1>1, <2>1, <2>2 DEF insertCluster, ClusterCalm, RowIsTrue
  <2>4. Bare
    BY <2>3 DEF Nothing, Bare
  <2>5. /\ UNCHANGED <<aws, req, left>>
        /\ row' = [there |-> TRUE, spec |-> s, state |-> "not_provisioned"]
    BY <1>1 DEF insertCluster
  <2>6. \A q \in Requests : ~CallOpen(q)'
    BY <2>2, <2>5 DEF CallOpen
  <2>7. RowIsTrue'
    BY <2>3, <2>5 DEF RowIsTrue
  <2>8. Bare'
    BY <2>4, <2>5 DEF Bare
  <2>9. QED BY <2>6, <2>7, <2>8 DEF ClusterCalm, RowIsKnown
<1>2. ASSUME NEW q \in Requests, NEW s \in Settings, ReadForUpdate(q, s) PROVE ClusterCalm'
  <2>1. left'.alone => left.alone /\ ~Busy
    BY <1>2 DEF ReadForUpdate, ClusterTypes, ClusterLeft
  <2>2. QED BY <1>2, <2>1, StartsKnown DEF ReadForUpdate
<1>3. ASSUME NEW q \in Requests, WriteUpdate(q) PROVE ClusterCalm'
  <2>1. /\ CallOpen(q) /\ Answer(q) /\ UNCHANGED <<aws, left>>
        /\ req[q] \in ClusterRequests /\ req[q].pc = "write"
    BY <1>3 DEF WriteUpdate, At, CallOpen, ClusterTypes
  <2>2. req[q].op = "update"
    BY <2>1, CallOps, CallFields DEF CallOpen
  <2>3. ASSUME left.alone
        PROVE  /\ row'.there => row.there /\ row'.spec.type = row.spec.type
               /\ ~row'.there \/ row'.state = "not_provisioned" => aws = Nothing
               /\ row'.there /\ row'.state = "provisioned" => Whole'
    <3>1. /\ row.there /\ req[q].state = row.state /\ req[q].settings.type = row.spec.type
      BY <2>1, <2>2, <2>3 DEF ClusterCalm, RowIsKnown
    <3>2. row \in Rows
      BY <3>1, RowTyped
    <3>3. /\ row'.there /\ row'.spec = req[q].settings
          /\ row'.state = IF Drifted(row.state) THEN "drifted" ELSE row.state
      BY <1>3, <3>1, <3>2 DEF WriteUpdate, Rows
    <3>4. row'.state # "provisioned" /\ (row'.state = "not_provisioned" => row.state = row'.state)
      BY <3>3 DEF Drifted
    <3>5. \A r \in Requests : CallOpen(r) => r = q
      BY <2>1, <2>3 DEF ClusterCalm
    <3>6. RowIsTrue /\ \A r \in Requests : CallOpen(r) => req[r].op \in {"update", "remove"}
      BY <2>2, <2>3, <3>5 DEF ClusterCalm
    <3>7. row.state = "not_provisioned" => aws = Nothing
      BY <3>6 DEF RowIsTrue
    <3>8. QED BY <3>1, <3>3, <3>4, <3>7
  <2>4. QED BY <2>1, <2>3, EndsTrue
<1>4. ASSUME NEW q \in Requests, ReadForRemove(q) PROVE ClusterCalm'
  <2>1. left'.alone => left.alone /\ ~Busy
    BY <1>4 DEF ReadForRemove, Overlap, ClusterTypes, ClusterLeft
  <2>2. QED BY <1>4, <2>1, StartsKnown DEF ReadForRemove
<1>5. ASSUME NEW q \in Requests, DeleteRow(q) PROVE ClusterCalm'
  <2>1. /\ CallOpen(q) /\ Answer(q) /\ UNCHANGED <<aws, left>>
        /\ req[q] \in ClusterRequests /\ req[q].pc = "delete"
        /\ row' = Absent \/ row' = row
    BY <1>5 DEF DeleteRow, At, CallOpen, ClusterTypes
  <2>2. req[q].op = "remove"
    BY <2>1, CallOps DEF CallOpen
  <2>3. ASSUME left.alone
        PROVE  /\ row'.there => row.there /\ row'.spec.type = row.spec.type
               /\ ~row'.there \/ row'.state = "not_provisioned" => aws = Nothing
               /\ row'.there /\ row'.state = "provisioned" => Whole'
    <3>1. row.there /\ row.state = "not_provisioned"
      BY <2>1, <2>2, <2>3 DEF ClusterCalm, RowIsKnown
    <3>2. \A r \in Requests : CallOpen(r) => req[r].op \in {"update", "remove"}
      BY <2>1, <2>2, <2>3 DEF ClusterCalm
    <3>3. aws = Nothing
      BY <2>3, <3>1, <3>2 DEF ClusterCalm, RowIsTrue
    <3>4. QED BY <2>1, <3>1, <3>3 DEF Absent
  <2>4. QED BY <2>1, <2>3, EndsTrue
<1>6. ASSUME NEW q \in Requests, StartProvision(q) PROVE ClusterCalm'
  <2>1. left'.alone => left.alone /\ ~Busy
    BY <1>6 DEF StartProvision, Overlap, ClusterTypes, ClusterLeft
  <2>2. QED BY <1>6, <2>1, StartsKnown DEF StartProvision
<1>7. ASSUME NEW q \in Requests, ensureEcsCluster(q) PROVE ClusterCalm'
  <2>1. CallOpen(q) /\ req[q] \in OpenCalls /\ req[q].pc = "ecs"
        /\ req[q].op = "provision"
    BY <1>7, CallFields, CallOps DEF ensureEcsCluster, Step, At, ClusterTypes, CallOpen
  <2>2. PICK next \in {"template", "save"} : req' = [req EXCEPT ![q].pc = next]
    BY <1>7 DEF ensureEcsCluster, Step, Go
  <2>3. /\ \A r \in Requests \ {q} : req'[r] = req[r]
        /\ req'[q] = [req[q] EXCEPT !.pc = next]
    BY <2>2 DEF ClusterTypes
  <2>4. /\ CallOpen(q)' /\ req'[q].op = req[q].op /\ req'[q].spec = req[q].spec
        /\ req'[q].state = req[q].state
        /\ req'[q].error = req[q].error /\ req'[q].hit = req[q].hit
    BY <2>1, <2>3 DEF OpenCalls, CallOpen
  <2>5. UNCHANGED <<row, left>>
    BY <1>7 DEF ensureEcsCluster, Step
  <2>6. Bare => Bare'
    BY <1>7 DEF ensureEcsCluster, Bare, ClusterTypes, Capacity
  <2>7. QED BY <2>1, <2>3, <2>4, <2>5, <2>6, CapacityMoves
<1>8. ASSUME NEW q \in Requests, ensureTemplate(q) PROVE ClusterCalm'
  <2>1. CallOpen(q) /\ req[q] \in OpenCalls /\ req[q].pc = "template"
        /\ req[q].op = "provision"
    BY <1>8, CallFields, CallOps DEF ensureTemplate, Step, At, ClusterTypes, CallOpen
  <2>2. req' = [req EXCEPT ![q].pc = "group"]
    BY <1>8 DEF ensureTemplate, Step, Go
  <2>3. /\ \A r \in Requests \ {q} : req'[r] = req[r]
        /\ req'[q] = [req[q] EXCEPT !.pc = "group"]
    BY <2>2 DEF ClusterTypes
  <2>4. /\ CallOpen(q)' /\ req'[q].op = req[q].op /\ req'[q].spec = req[q].spec
        /\ req'[q].state = req[q].state
        /\ req'[q].error = req[q].error /\ req'[q].hit = req[q].hit
    BY <2>1, <2>3 DEF OpenCalls, CallOpen
  <2>5. UNCHANGED <<row, left>>
    BY <1>8 DEF ensureTemplate, Step
  <2>6. req[q].spec.type # "fargate"
    BY <2>1, CallFields DEF ClusterTypes, CallOpen, OnEc2Only, Calls
  <2>7. QED BY <2>1, <2>3, <2>4, <2>5, <2>6, CapacityMoves
<1>9. ASSUME NEW q \in Requests, ensureGroup(q) PROVE ClusterCalm'
  <2>1. CallOpen(q) /\ req[q] \in OpenCalls /\ req[q].pc = "group"
        /\ req[q].op = "provision"
    BY <1>9, CallFields, CallOps DEF ensureGroup, Step, At, ClusterTypes, CallOpen
  <2>2. req' = [req EXCEPT ![q].pc = "provider"]
    BY <1>9 DEF ensureGroup, Step, Go
  <2>3. /\ \A r \in Requests \ {q} : req'[r] = req[r]
        /\ req'[q] = [req[q] EXCEPT !.pc = "provider"]
    BY <2>2 DEF ClusterTypes
  <2>4. /\ CallOpen(q)' /\ req'[q].op = req[q].op /\ req'[q].spec = req[q].spec
        /\ req'[q].state = req[q].state
        /\ req'[q].error = req[q].error /\ req'[q].hit = req[q].hit
    BY <2>1, <2>3 DEF OpenCalls, CallOpen
  <2>5. UNCHANGED <<row, left>>
    BY <1>9 DEF ensureGroup, Step
  <2>6. req[q].spec.type # "fargate"
    BY <2>1, CallFields DEF ClusterTypes, CallOpen, OnEc2Only, Calls
  <2>7. QED BY <2>1, <2>3, <2>4, <2>5, <2>6, CapacityMoves
<1>10. ASSUME NEW q \in Requests, ensureProvider(q) PROVE ClusterCalm'
  <2>1. CallOpen(q) /\ req[q] \in OpenCalls /\ req[q].pc = "provider"
        /\ req[q].op = "provision"
    BY <1>10, CallFields, CallOps DEF ensureProvider, Step, At, ClusterTypes, CallOpen
  <2>2. req' = [req EXCEPT ![q].pc = "attach"]
    BY <1>10 DEF ensureProvider, Step, Go
  <2>3. /\ \A r \in Requests \ {q} : req'[r] = req[r]
        /\ req'[q] = [req[q] EXCEPT !.pc = "attach"]
    BY <2>2 DEF ClusterTypes
  <2>4. /\ CallOpen(q)' /\ req'[q].op = req[q].op /\ req'[q].spec = req[q].spec
        /\ req'[q].state = req[q].state
        /\ req'[q].error = req[q].error /\ req'[q].hit = req[q].hit
    BY <2>1, <2>3 DEF OpenCalls, CallOpen
  <2>5. UNCHANGED <<row, left>>
    BY <1>10 DEF ensureProvider, Step
  <2>6. req[q].spec.type # "fargate"
    BY <2>1, CallFields DEF ClusterTypes, CallOpen, OnEc2Only, Calls
  <2>7. QED BY <2>1, <2>3, <2>4, <2>5, <2>6, CapacityMoves
<1>11. ASSUME NEW q \in Requests, attachProvider(q) PROVE ClusterCalm'
  <2>1. CallOpen(q) /\ req[q] \in OpenCalls /\ req[q].pc = "attach"
        /\ req[q].op = "provision"
    BY <1>11, CallFields, CallOps DEF attachProvider, Step, At, ClusterTypes, CallOpen
  <2>2. req' = [req EXCEPT ![q].pc = "save"]
    BY <1>11 DEF attachProvider, Step, Go
  <2>3. /\ \A r \in Requests \ {q} : req'[r] = req[r]
        /\ req'[q] = [req[q] EXCEPT !.pc = "save"]
    BY <2>2 DEF ClusterTypes
  <2>4. /\ CallOpen(q)' /\ req'[q].op = req[q].op /\ req'[q].spec = req[q].spec
        /\ req'[q].state = req[q].state
        /\ req'[q].error = req[q].error /\ req'[q].hit = req[q].hit
    BY <2>1, <2>3 DEF OpenCalls, CallOpen
  <2>5. UNCHANGED <<row, left>>
    BY <1>11 DEF attachProvider, Step
  <2>6. req[q].spec.type # "fargate"
    BY <2>1, CallFields DEF ClusterTypes, CallOpen, OnEc2Only, Calls
  <2>7. QED BY <2>1, <2>3, <2>4, <2>5, <2>6, CapacityMoves
<1>12. ASSUME NEW q \in Requests, ProvisionRefused(q) PROVE ClusterCalm'
  <2>1. PICK pc \in {"group", "provider", "attach"}, hit \in BOOLEAN : Refuse(q, pc, "save", hit)
    BY <1>12 DEF ProvisionRefused
  <2>2. CallOpen(q) /\ req[q] \in OpenCalls /\ req[q].op \in {"provision", "deprovision"}
    BY <2>1, CallFields, CallOps DEF Refuse, At, ClusterTypes, CallOpen
  <2>3. /\ \A r \in Requests \ {q} : req'[r] = req[r]
        /\ req'[q] = [req[q] EXCEPT !.pc = "save", !.error = TRUE, !.hit = @ \/ hit]
    BY <2>1 DEF Refuse, ClusterTypes
  <2>4. /\ CallOpen(q)' /\ req'[q].op = req[q].op /\ req'[q].spec = req[q].spec
        /\ req'[q].state = req[q].state /\ req'[q].error
    BY <2>2, <2>3 DEF OpenCalls, CallOpen
  <2>5. UNCHANGED <<row, aws, left>>
    BY <2>1 DEF Refuse
  <2>6. QED BY <2>2, <2>3, <2>4, <2>5, CapacityMoves DEF Bare
<1>13. ASSUME NEW q \in Requests, StartDeprovision(q) PROVE ClusterCalm'
  <2>1. left'.alone => left.alone /\ ~Busy
    BY <1>13 DEF StartDeprovision, Overlap, ClusterTypes, ClusterLeft
  <2>2. PICK first \in {"detach", "dropEcs"} :
          requireCluster(q, "deprovision", first, row.spec) /\ row.there
    BY <1>13 DEF StartDeprovision
  <2>3. QED BY <2>1, <2>2, StartsKnown
<1>14. ASSUME NEW q \in Requests, detachProvider(q) PROVE ClusterCalm'
  <2>1. CallOpen(q) /\ req[q] \in OpenCalls /\ req[q].pc = "detach"
        /\ req[q].op = "deprovision"
    BY <1>14, CallFields, CallOps DEF detachProvider, Step, At, ClusterTypes, CallOpen
  <2>2. req' = [req EXCEPT ![q].pc = "drain"]
    BY <1>14 DEF detachProvider, Step, Go
  <2>3. /\ \A r \in Requests \ {q} : req'[r] = req[r]
        /\ req'[q] = [req[q] EXCEPT !.pc = "drain"]
    BY <2>2 DEF ClusterTypes
  <2>4. /\ CallOpen(q)' /\ req'[q].op = req[q].op /\ req'[q].spec = req[q].spec
        /\ req'[q].state = req[q].state
        /\ req'[q].error = req[q].error /\ req'[q].hit = req[q].hit
    BY <2>1, <2>3 DEF OpenCalls, CallOpen
  <2>5. UNCHANGED <<row, left>>
    BY <1>14 DEF detachProvider, Step
  <2>6. req[q].spec.type # "fargate"
    BY <2>1, CallFields DEF ClusterTypes, CallOpen, OnEc2Only, Calls
  <2>7. QED BY <2>1, <2>3, <2>4, <2>5, <2>6, CapacityMoves
<1>15. ASSUME NEW q \in Requests, drainGroup(q) PROVE ClusterCalm'
  <2>1. CallOpen(q) /\ req[q] \in OpenCalls /\ req[q].pc = "drain"
        /\ req[q].op = "deprovision"
    BY <1>15, CallFields, CallOps DEF drainGroup, Step, At, ClusterTypes, CallOpen
  <2>2. req' = [req EXCEPT ![q].pc = "dropProvider"]
    BY <1>15 DEF drainGroup, Step, Go
  <2>3. /\ \A r \in Requests \ {q} : req'[r] = req[r]
        /\ req'[q] = [req[q] EXCEPT !.pc = "dropProvider"]
    BY <2>2 DEF ClusterTypes
  <2>4. /\ CallOpen(q)' /\ req'[q].op = req[q].op /\ req'[q].spec = req[q].spec
        /\ req'[q].state = req[q].state
        /\ req'[q].error = req[q].error /\ req'[q].hit = req[q].hit
    BY <2>1, <2>3 DEF OpenCalls, CallOpen
  <2>5. UNCHANGED <<row, left>>
    BY <1>15 DEF drainGroup, Step
  <2>6. req[q].spec.type # "fargate"
    BY <2>1, CallFields DEF ClusterTypes, CallOpen, OnEc2Only, Calls
  <2>7. QED BY <2>1, <2>3, <2>4, <2>5, <2>6, CapacityMoves
<1>16. ASSUME NEW q \in Requests, deleteProvider(q) PROVE ClusterCalm'
  <2>1. CallOpen(q) /\ req[q] \in OpenCalls /\ req[q].pc = "dropProvider"
        /\ req[q].op = "deprovision"
    BY <1>16, CallFields, CallOps DEF deleteProvider, Step, At, ClusterTypes, CallOpen
  <2>2. req' = [req EXCEPT ![q].pc = "dropGroup"]
    BY <1>16 DEF deleteProvider, Step, Go
  <2>3. /\ \A r \in Requests \ {q} : req'[r] = req[r]
        /\ req'[q] = [req[q] EXCEPT !.pc = "dropGroup"]
    BY <2>2 DEF ClusterTypes
  <2>4. /\ CallOpen(q)' /\ req'[q].op = req[q].op /\ req'[q].spec = req[q].spec
        /\ req'[q].state = req[q].state
        /\ req'[q].error = req[q].error /\ req'[q].hit = req[q].hit
    BY <2>1, <2>3 DEF OpenCalls, CallOpen
  <2>5. UNCHANGED <<row, left>>
    BY <1>16 DEF deleteProvider, Step
  <2>6. req[q].spec.type # "fargate"
    BY <2>1, CallFields DEF ClusterTypes, CallOpen, OnEc2Only, Calls
  <2>7. QED BY <2>1, <2>3, <2>4, <2>5, <2>6, CapacityMoves
<1>17. ASSUME NEW q \in Requests, deleteGroup(q) PROVE ClusterCalm'
  <2>1. CallOpen(q) /\ req[q] \in OpenCalls /\ req[q].pc = "dropGroup"
        /\ req[q].op = "deprovision"
    BY <1>17, CallFields, CallOps DEF deleteGroup, Step, At, ClusterTypes, CallOpen
  <2>2. req' = [req EXCEPT ![q].pc = "dropTemplate"]
    BY <1>17 DEF deleteGroup, Step, Go
  <2>3. /\ \A r \in Requests \ {q} : req'[r] = req[r]
        /\ req'[q] = [req[q] EXCEPT !.pc = "dropTemplate"]
    BY <2>2 DEF ClusterTypes
  <2>4. /\ CallOpen(q)' /\ req'[q].op = req[q].op /\ req'[q].spec = req[q].spec
        /\ req'[q].state = req[q].state
        /\ req'[q].error = req[q].error /\ req'[q].hit = req[q].hit
    BY <2>1, <2>3 DEF OpenCalls, CallOpen
  <2>5. UNCHANGED <<row, left>>
    BY <1>17 DEF deleteGroup, Step
  <2>6. req[q].spec.type # "fargate"
    BY <2>1, CallFields DEF ClusterTypes, CallOpen, OnEc2Only, Calls
  <2>7. QED BY <2>1, <2>3, <2>4, <2>5, <2>6, CapacityMoves
<1>18. ASSUME NEW q \in Requests, deleteTemplate(q) PROVE ClusterCalm'
  <2>1. CallOpen(q) /\ req[q] \in OpenCalls /\ req[q].pc = "dropTemplate"
        /\ req[q].op = "deprovision"
    BY <1>18, CallFields, CallOps DEF deleteTemplate, Step, At, ClusterTypes, CallOpen
  <2>2. req' = [req EXCEPT ![q].pc = "dropEcs"]
    BY <1>18 DEF deleteTemplate, Step, Go
  <2>3. /\ \A r \in Requests \ {q} : req'[r] = req[r]
        /\ req'[q] = [req[q] EXCEPT !.pc = "dropEcs"]
    BY <2>2 DEF ClusterTypes
  <2>4. /\ CallOpen(q)' /\ req'[q].op = req[q].op /\ req'[q].spec = req[q].spec
        /\ req'[q].state = req[q].state
        /\ req'[q].error = req[q].error /\ req'[q].hit = req[q].hit
    BY <2>1, <2>3 DEF OpenCalls, CallOpen
  <2>5. UNCHANGED <<row, left>>
    BY <1>18 DEF deleteTemplate, Step
  <2>6. req[q].spec.type # "fargate"
    BY <2>1, CallFields DEF ClusterTypes, CallOpen, OnEc2Only, Calls
  <2>7. QED BY <2>1, <2>3, <2>4, <2>5, <2>6, CapacityMoves
<1>19. ASSUME NEW q \in Requests, deleteEcsCluster(q) PROVE ClusterCalm'
  <2>1. CallOpen(q) /\ req[q] \in OpenCalls /\ req[q].pc = "dropEcs"
        /\ req[q].op = "deprovision"
    BY <1>19, CallFields, CallOps DEF deleteEcsCluster, Step, At, ClusterTypes, CallOpen
  <2>2. req' = [req EXCEPT ![q].pc = "save"]
    BY <1>19 DEF deleteEcsCluster, Step, Go
  <2>3. /\ \A r \in Requests \ {q} : req'[r] = req[r]
        /\ req'[q] = [req[q] EXCEPT !.pc = "save"]
    BY <2>2 DEF ClusterTypes
  <2>4. /\ CallOpen(q)' /\ req'[q].op = req[q].op /\ req'[q].spec = req[q].spec
        /\ req'[q].state = req[q].state
        /\ req'[q].error = req[q].error /\ req'[q].hit = req[q].hit
    BY <2>1, <2>3 DEF OpenCalls, CallOpen
  <2>5. UNCHANGED <<row, left>>
    BY <1>19 DEF deleteEcsCluster, Step
  <2>6. Bare => Bare'
    BY <1>19 DEF deleteEcsCluster, Bare, ClusterTypes, Capacity
  <2>7. QED BY <2>1, <2>3, <2>4, <2>5, <2>6, CapacityMoves
<1>20. ASSUME NEW q \in Requests, DeprovisionRefused(q) PROVE ClusterCalm'
  <2>1. PICK pc \in {"detach", "dropProvider", "dropGroup", "dropTemplate"}, hit \in BOOLEAN : Refuse(q, pc, "dropEcs", hit)
    BY <1>20 DEF DeprovisionRefused
  <2>2. CallOpen(q) /\ req[q] \in OpenCalls /\ req[q].op \in {"provision", "deprovision"}
    BY <2>1, CallFields, CallOps DEF Refuse, At, ClusterTypes, CallOpen
  <2>3. /\ \A r \in Requests \ {q} : req'[r] = req[r]
        /\ req'[q] = [req[q] EXCEPT !.pc = "dropEcs", !.error = TRUE, !.hit = @ \/ hit]
    BY <2>1 DEF Refuse, ClusterTypes
  <2>4. /\ CallOpen(q)' /\ req'[q].op = req[q].op /\ req'[q].spec = req[q].spec
        /\ req'[q].state = req[q].state /\ req'[q].error
    BY <2>2, <2>3 DEF OpenCalls, CallOpen
  <2>5. UNCHANGED <<row, aws, left>>
    BY <2>1 DEF Refuse
  <2>6. QED BY <2>2, <2>3, <2>4, <2>5, CapacityMoves DEF Bare
<1>21. ASSUME NEW q \in Requests, StillInUse(q) PROVE ClusterCalm'
  <2>1. PICK pc \in {"dropEcs"}, hit \in BOOLEAN : Refuse(q, pc, "save", hit)
    BY <1>21 DEF StillInUse
  <2>2. CallOpen(q) /\ req[q] \in OpenCalls /\ req[q].op \in {"provision", "deprovision"}
    BY <2>1, CallFields, CallOps DEF Refuse, At, ClusterTypes, CallOpen
  <2>3. /\ \A r \in Requests \ {q} : req'[r] = req[r]
        /\ req'[q] = [req[q] EXCEPT !.pc = "save", !.error = TRUE, !.hit = @ \/ hit]
    BY <2>1 DEF Refuse, ClusterTypes
  <2>4. /\ CallOpen(q)' /\ req'[q].op = req[q].op /\ req'[q].spec = req[q].spec
        /\ req'[q].state = req[q].state /\ req'[q].error
    BY <2>2, <2>3 DEF OpenCalls, CallOpen
  <2>5. UNCHANGED <<row, aws, left>>
    BY <2>1 DEF Refuse
  <2>6. QED BY <2>2, <2>3, <2>4, <2>5, CapacityMoves DEF Bare
<1>22. ASSUME NEW q \in Requests, CallFails(q) PROVE ClusterCalm'
  <2> DEFINE next == IF req[q].op = "provision" \/ req[q].pc = "dropEcs" THEN "save" ELSE "dropEcs"
  <2>1. /\ CallOpen(q) /\ req[q] \in OpenCalls /\ req[q].pc \in Calls
        /\ req[q].op \in {"provision", "deprovision"}
    BY <1>22, CallFields, CallOps DEF CallFails, ClusterTypes, CallOpen, Calls
  <2>2. /\ \A r \in Requests \ {q} : req'[r] = req[r]
        /\ req'[q] = [req[q] EXCEPT !.pc = next, !.error = TRUE, !.hit = TRUE]
    BY <1>22, <2>1 DEF CallFails, ClusterTypes, OpenCalls
  <2>3. next # "idle"
    OBVIOUS
  <2> HIDE DEF next
  <2>4. /\ CallOpen(q)' /\ req'[q].op = req[q].op /\ req'[q].spec = req[q].spec
        /\ req'[q].state = req[q].state /\ req'[q].error
    BY <2>1, <2>2, <2>3 DEF OpenCalls, CallOpen
  <2>5. left'.alone = left.alone /\ UNCHANGED <<row, aws>>
    BY <1>22 DEF CallFails, ClusterTypes, ClusterLeft
  <2>6. QED BY <2>1, <2>2, <2>4, <2>5, CapacityMoves DEF Bare
<1>23. ASSUME NEW q \in Requests, Save(q) PROVE ClusterCalm'
  <2>1. /\ CallOpen(q) /\ Answer(q) /\ UNCHANGED <<aws, left>>
        /\ req[q] \in ClusterRequests /\ req[q].pc = "save"
    BY <1>23 DEF Save, At, CallOpen, ClusterTypes
  <2>2. req[q].op \in {"provision", "deprovision"}
    BY <2>1, CallOps DEF CallOpen
  <2>3. ASSUME left.alone
        PROVE  /\ row'.there => row.there /\ row'.spec.type = row.spec.type
               /\ ~row'.there \/ row'.state = "not_provisioned" => aws = Nothing
               /\ row'.there /\ row'.state = "provisioned" => Whole'
    <3>1. row.there /\ req[q].spec = row.spec /\ (req[q].hit => req[q].error)
      BY <2>1, <2>3 DEF ClusterCalm, RowIsKnown
    <3>2. row \in Rows
      BY <3>1, RowTyped
    <3>3. row'.there /\ row'.spec = row.spec /\ row'.state = Outcome(req[q])
      BY <1>23, <3>1, <3>2 DEF Save, Rows
    <3>4. ~req[q].error => /\ req[q].op = "provision" => BuiltUp(req[q])
                           /\ req[q].op = "deprovision" => TakenDown(req[q])
      BY <2>1, <3>1 DEF UnhitIsAlone
    <3>5. row'.state = "provisioned" => ~req[q].error /\ req[q].op = "provision"
      BY <3>3 DEF Outcome
    <3>6. row'.state = "not_provisioned" => ~req[q].error /\ req[q].op = "deprovision"
      BY <2>2, <3>3 DEF Outcome
    <3>7. row'.state = "provisioned" => Whole'
      <4>1. SUFFICES ASSUME row'.state = "provisioned" PROVE Whole'
        OBVIOUS
      <4>2. BuiltUp(req[q])
        BY <3>4, <3>5, <4>1
      <4>3. Whole
        BY <2>1, <3>1, <4>2 DEF BuiltUp, Whole
      <4>4. QED BY <2>1, <3>3, <4>3 DEF Whole, TemplateOf, GroupOf
    <3>8. row'.state = "not_provisioned" => aws = Nothing
      <4>1. SUFFICES ASSUME row'.state = "not_provisioned" PROVE aws = Nothing
        OBVIOUS
      <4>2. TakenDown(req[q])
        BY <3>4, <3>6, <4>1
      <4>3. row.spec.type \in {"ec2", "fargate"}
        BY <3>1, RowTyped, SettingsTyped
      <4>4. row.spec.type = "fargate" => Bare
        BY <2>3, <3>1 DEF ClusterCalm
      <4>5. row.spec.type = "ec2" => Bare
        BY <2>1, <3>1, <4>2 DEF TakenDown, Bare
      <4>6. Bare /\ ~aws.ecs
        BY <2>1, <4>2, <4>3, <4>4, <4>5 DEF TakenDown
      <4>7. QED BY <4>6 DEF Bare, Nothing, ClusterTypes, Capacity
    <3>9. QED BY <3>1, <3>3, <3>7, <3>8
  <2>4. QED BY <2>1, <2>3, EndsTrue
<1>24. ASSUME NEW q \in Requests, Killed(q) PROVE ClusterCalm'
  <2>1. ~left'.alone
    BY <1>24 DEF Killed, ClusterTypes, ClusterLeft
  <2>2. QED BY <2>1 DEF ClusterCalm
<1>25. ASSUME HostJoins PROVE ClusterCalm'
  BY <1>25, OutsideCalm DEF HostJoins
<1>26. ASSUME HostLeaves PROVE ClusterCalm'
  BY <1>26, OutsideCalm DEF HostLeaves
<1>27. ASSUME ManagedScaling PROVE ClusterCalm'
  <2>1. /\ aws.group.there /\ aws.group \in Groups /\ aws' = [aws EXCEPT !.group.want = 1]
        /\ aws.attached /\ UNCHANGED <<row, req, left>>
    BY <1>27, GroupTyped DEF ManagedScaling
  <2>2. /\ aws'.ecs = aws.ecs /\ aws'.template = aws.template /\ aws'.provider = aws.provider
        /\ aws'.attached = aws.attached
        /\ aws'.group.there = aws.group.there /\ aws'.group.guard = aws.group.guard
    BY <2>1 DEF ClusterTypes, Capacity, Groups
  <2>3. aws # Nothing /\ ~Bare
    BY <2>1 DEF Nothing, Bare
  <2>4. QED BY <2>1, <2>2, <2>3, OutsideCalm
<1>28. ASSUME AssignService PROVE ClusterCalm'
  BY <1>28, OutsideCalm DEF AssignService
<1>29. ASSUME DeployService PROVE ClusterCalm'
  BY <1>29, OutsideCalm DEF DeployService
<1>30. ASSUME RemoveService PROVE ClusterCalm'
  BY <1>30, OutsideCalm DEF RemoveService
<1>31. QED
  BY <1>1, <1>2, <1>3, <1>4, <1>5, <1>6, <1>7, <1>8, <1>9, <1>10, <1>11, <1>12, <1>13, <1>14, <1>15, <1>16, <1>17, <1>18, <1>19, <1>20, <1>21, <1>22, <1>23, <1>24, <1>25, <1>26, <1>27, <1>28, <1>29, <1>30 DEF ClusterNext

LEMMA ClusterInvKept == ClusterInv /\ [ClusterNext]_clusterVars => ClusterInv'
<1>1. ASSUME ClusterInv, ClusterNext PROVE ClusterInv'
  BY <1>1, ClusterTypesKept, UnhitKept, ClusterCalmKept DEF ClusterInv
<1>2. ASSUME ClusterInv, UNCHANGED clusterVars PROVE ClusterInv'
  <2>1. UNCHANGED <<row, aws, hosts, service, req, left>>
    BY <1>2 DEF clusterVars
  <2>2. ClusterTypes'
    BY <1>2, <2>1 DEF ClusterInv, ClusterTypes
  <2>3. UnhitIsAlone'
    BY <1>2, <2>1 DEF ClusterInv, UnhitIsAlone, CallOpen, BuiltUp, TakenDown, TemplateOf, GroupOf
  <2>4. ClusterCalm'
    BY <1>2, <2>1, OutsideCalm DEF ClusterInv
  <2>5. QED BY <2>2, <2>3, <2>4 DEF ClusterInv
<1>3. QED BY <1>1, <1>2

(* One request at a time and none stopped: a cluster shown provisioned is  *)
(* whole, one shown not provisioned, or gone, has left nothing in AWS.     *)
THEOREM RowTellsTheTruth == ClusterSpec => []ClusterSafety
<1>1. ClusterInv => ClusterSafety
  <2> SUFFICES ASSUME ClusterInv PROVE ClusterSafety
    OBVIOUS
  <2>1. ~Busy => \A q \in Requests : ~CallOpen(q)
    BY DEF Busy, CallOpen
  <2>2. left.alone /\ ~Busy => RowIsTrue /\ \A q \in Requests : ~CallOpen(q)
    BY <2>1 DEF ClusterInv, ClusterCalm
  <2>3. NothingLeftBehind
    BY <2>2 DEF NothingLeftBehind, RowIsTrue
  <2>4. ProvisionedIsWhole
    BY <2>2 DEF ProvisionedIsWhole, RowIsTrue, Whole, TemplateOf, GroupOf
  <2>5. ClusterTypeOK
    <3>1. row \in [there : {FALSE}] \cup [there : {TRUE}, spec : Settings, state : States]
      <4>1. Absent \in [there : {FALSE}]
        BY DEF Absent
      <4>2. row \in {Absent} \cup Rows
        BY DEF ClusterInv, ClusterTypes
      <4>3. QED BY <4>1, <4>2 DEF Rows
    <3>2. aws.ecs \in BOOLEAN /\ aws.attached \in BOOLEAN
      BY DEF ClusterInv, ClusterTypes, Capacity
    <3>3. aws.template.there => aws.template.kind \in Kinds
      <4>1. aws.template \in {Absent} \cup Templates
        BY DEF ClusterInv, ClusterTypes, Capacity
      <4>2. aws.template.there => aws.template \in Templates
        BY <4>1, ThereTyped
      <4>3. QED BY <4>2 DEF Templates
    <3>4. aws.provider.there => aws.provider.mode \in Modes
      <4>1. aws.provider \in {Absent} \cup Providers
        BY DEF ClusterInv, ClusterTypes, Capacity
      <4>2. aws.provider.there => aws.provider \in Providers
        BY <4>1, ThereTyped
      <4>3. QED BY <4>2 DEF Providers
    <3>5. aws.group.there => aws.group.want \in 0..1
      BY GroupTyped DEF ClusterInv
    <3>6. ASSUME NEW q \in Requests, req[q].pc # "idle"
          PROVE  req[q].op \in {"provision", "deprovision", "update", "remove"}
      BY <3>6, CallOps DEF ClusterInv, ClusterTypes
    <3>7. QED BY <3>1, <3>2, <3>3, <3>4, <3>5, <3>6 DEF ClusterInv, ClusterTypes, ClusterTypeOK
  <2>6. QED BY <2>3, <2>4, <2>5 DEF ClusterSafety
<1>2. QED BY <1>1, ClusterStart, ClusterInvKept, PTL DEF ClusterSpec

(* A request that meets no failure of its own and no other request ends in *)
(* what it was asked for, whatever an earlier attempt left half finished.  *)
THEOREM AttemptsConverge == ClusterSpec => RetryConverges
<1>1. ASSUME ClusterInv, NEW q \in Requests, req[q].pc = "save", ~req[q].hit
      PROVE  Outcome(req[q]) # "failed"
  BY <1>1 DEF ClusterInv, UnhitIsAlone, CallOpen, Outcome
<1>2. ClusterInv => \A q \in Requests :
        req[q].pc = "save" /\ ~req[q].hit =>
          (req'[q].pc = "idle" => Outcome(req[q]) # "failed")
  BY <1>1
<1>3. QED BY <1>2, ClusterStart, ClusterInvKept, PTL DEF ClusterSpec, RetryConverges

-----------------------------------------------------------------------------
(***************************************************************************)
(* The row editor: pages of a table, asked for and answered in any order   *)
(***************************************************************************)

Cursors == {0} \cup RowKeys
Pages   == [of : Tables, after : Cursors, keys : SUBSET RowKeys, next : Cursors]
Asks    == [of : Tables, after : Cursors, turn : Nat, page : {NoRows} \cup Pages]

BrowserTypes ==
  /\ db \in [Tables -> SUBSET RowKeys]
  /\ opened \in Tables
  /\ grid \in {NoRows} \cup Pages
  /\ trail \in Seq(Cursors) /\ place \in 1..Len(trail)
  /\ reading \in BOOLEAN /\ crossed \in BOOLEAN
  /\ asks \subseteq Asks /\ turns \in Nat

(* The keys a page stands for: those between its cursor and the next.      *)
Within(page, k) == k > page.after /\ (page.next = 0 \/ k <= page.next)

(* The newest request is for the page the pager stands on, and once it is  *)
(* served it has every key of it that stayed.                              *)
AsksKnown ==
  \A q \in asks :
    /\ q.turn <= turns
    /\ q.turn = turns => q.of = opened /\ q.after = trail[place]
    /\ q.page # NoRows =>
         /\ q.page.of = q.of /\ q.page.after = q.after
         /\ q.turn = turns => \A k \in steady : Within(q.page, k) => k \in q.page.keys

(* When nothing is being read and no reply came late, what is on screen is *)
(* the page the pager stands on and its keys were shown.                   *)
GridKnown ==
  /\ reading => asks # {}
  /\ ~crossed /\ ~reading /\ grid # NoRows =>
       /\ grid.of = opened /\ grid.after = trail[place]
       /\ \A k \in steady : Within(grid, k) => k \in seen

(* Up to each cursor the pager came by, every key that stayed was shown.   *)
ShownBefore ==
  /\ steady \subseteq db[opened]
  /\ ~crossed => \A i \in 1..Len(trail) : \A k \in steady : k <= trail[i] => k \in seen

BrowserInv == BrowserTypes /\ AsksKnown /\ GridKnown /\ ShownBefore
(***************************************************************************)
(* Pages                                                                   *)
(***************************************************************************)

(* A finite set of numbers has a first and a last one.                     *)
LEMMA FirstAndLast ==
  ASSUME NEW S \in SUBSET Nat, IsFiniteSet(S), S # {}
  PROVE  /\ \E m \in S : \A j \in S : m <= j
         /\ \E m \in S : \A j \in S : j <= m
<1> DEFINE Below(k) == {j \in S : j < k}
           Above(k) == {j \in S : k < j}
<1>1. \A T : T \subseteq S => T \in FiniteSubsetsOf(S)
  BY FS_Subset DEF FiniteSubsetsOf
<1>2. IsWellFoundedOn(StrictSubsetOrdering(S), FiniteSubsetsOf(S))
  BY FS_StrictSubsetOrderingWellFounded
<1>3. \E m \in S : \A j \in S : m <= j
  <2> DEFINE T == {Below(k) : k \in S}
  <2>1. T \subseteq FiniteSubsetsOf(S) /\ T # {}
    BY <1>1
  <2>2. PICK x \in T : \A y \in T : <<y, x>> \notin StrictSubsetOrdering(S)
    BY <1>2, <2>1, WFMin
  <2>3. PICK m \in S : x = Below(m)
    OBVIOUS
  <2>4. ASSUME NEW j \in S, j < m PROVE FALSE
    <3>1. j \in Below(m) /\ j \notin Below(j)
      BY <2>4
    <3>2. ASSUME NEW i \in Below(j) PROVE i \in Below(m)
      <4>1. i \in S /\ i \in Nat /\ j \in Nat /\ m \in Nat /\ i < j
        OBVIOUS
      <4>2. QED BY <2>4, <4>1
    <3>3. <<Below(j), Below(m)>> \in StrictSubsetOrdering(S)
      BY <3>1, <3>2 DEF StrictSubsetOrdering
    <3>4. QED BY <2>2, <2>3, <3>3
  <2>5. QED BY <2>3, <2>4
<1>4. \E m \in S : \A j \in S : j <= m
  <2> DEFINE T == {Above(k) : k \in S}
  <2>1. T \subseteq FiniteSubsetsOf(S) /\ T # {}
    BY <1>1
  <2>2. PICK x \in T : \A y \in T : <<y, x>> \notin StrictSubsetOrdering(S)
    BY <1>2, <2>1, WFMin
  <2>3. PICK m \in S : x = Above(m)
    OBVIOUS
  <2>4. ASSUME NEW j \in S, m < j PROVE FALSE
    <3>1. j \in Above(m) /\ j \notin Above(j)
      BY <2>4
    <3>2. ASSUME NEW i \in Above(j) PROVE i \in Above(m)
      <4>1. i \in S /\ i \in Nat /\ j \in Nat /\ m \in Nat /\ j < i
        OBVIOUS
      <4>2. QED BY <2>4, <4>1
    <3>3. <<Above(j), Above(m)>> \in StrictSubsetOrdering(S)
      BY <3>1, <3>2 DEF StrictSubsetOrdering
    <3>4. QED BY <2>2, <2>3, <3>3
  <2>5. QED BY <2>3, <2>4
<1>5. QED BY <1>3, <1>4

(* A page is of rows beyond its cursor, has a next cursor only when it     *)
(* leaves some out, and leaves out none that is not beyond that.           *)
LEMMA PageWhole ==
  ASSUME db \in [Tables -> SUBSET RowKeys], NEW t \in Tables, NEW after \in Cursors
  PROVE  /\ PageOf(t, after) \in Pages
         /\ PageOf(t, after).of = t /\ PageOf(t, after).after = after
         /\ \A k \in db[t] : Within(PageOf(t, after), k) => k \in PageOf(t, after).keys
<1> DEFINE beyond == {k \in db[t] : k > after}
           page == FirstOf(beyond)
           before(k) == {j \in beyond : j < k}
           next == IF beyond = page THEN 0 ELSE LastOf(page)
<1>1. PageOf(t, after) = [of |-> t, after |-> after, keys |-> page, next |-> next]
  BY DEF PageOf
<1>2. beyond \in SUBSET RowKeys /\ beyond \in SUBSET Nat /\ 0 \notin beyond
  BY RowBrowserAssumption
<1>3. IsFiniteSet(beyond)
  BY <1>2, FS_Subset, RowBrowserAssumption
<1>4. page \subseteq beyond /\ \A k \in beyond : k \in page <=> Cardinality(before(k)) < PageRows
  BY DEF FirstOf
<1> HIDE DEF beyond, page
<1>5. ASSUME beyond # {} PROVE page # {}
  <2>1. PICK m \in beyond : \A j \in beyond : m <= j
    BY <1>2, <1>3, <1>5, FirstAndLast
  <2>2. before(m) = {}
    <3>1. SUFFICES ASSUME NEW j \in before(m) PROVE FALSE
      OBVIOUS
    <3>2. j \in Nat /\ m \in Nat /\ m <= j /\ j < m
      BY <1>2, <2>1
    <3>3. QED BY <3>2
  <2>3. Cardinality(before(m)) = 0
    BY <2>2, FS_EmptySet
  <2>4. QED BY <1>4, <2>3, RowBrowserAssumption
<1>6. ASSUME beyond # page
      PROVE  LastOf(page) \in page /\ \A j \in page : j <= LastOf(page)
  <2>1. page # {}
    BY <1>4, <1>5, <1>6
  <2>2. page \in SUBSET Nat /\ IsFiniteSet(page)
    BY <1>2, <1>3, <1>4, FS_Subset
  <2>3. \E m \in page : \A j \in page : j <= m
    BY <2>1, <2>2, FirstAndLast
  <2>4. QED BY <2>3 DEF LastOf
<1>7. ASSUME NEW k \in beyond, NEW last \in page, k <= last PROVE k \in page
  <2>1. last \in beyond /\ Cardinality(before(last)) < PageRows
    BY <1>4
  <2>2. before(last) \in SUBSET beyond
    OBVIOUS
  <2>3. IsFiniteSet(before(last))
    BY <1>3, <2>2, FS_Subset
  <2>4. before(k) \in SUBSET before(last)
    <3>1. SUFFICES ASSUME NEW j \in before(k) PROVE j < last
      OBVIOUS
    <3>2. j \in Nat /\ k \in Nat /\ last \in Nat /\ j < k
      BY <1>2, <2>1
    <3>3. QED BY <1>7, <3>2
  <2>5. IsFiniteSet(before(k)) /\ Cardinality(before(k)) <= Cardinality(before(last))
    BY <2>3, <2>4, FS_Subset
  <2>6. Cardinality(before(k)) \in Nat /\ Cardinality(before(last)) \in Nat
    BY <2>3, <2>5, FS_CardinalityType
  <2>7. Cardinality(before(k)) < PageRows
    BY <2>1, <2>5, <2>6, RowBrowserAssumption
  <2>8. QED BY <1>4, <2>7
<1>8. next \in Cursors
  BY <1>2, <1>4, <1>6 DEF Cursors
<1>9. ASSUME NEW k \in db[t], k > after, next = 0 \/ k <= next PROVE k \in page
  <2>1. k \in beyond
    BY <1>9 DEF beyond
  <2>2. CASE beyond = page
    BY <2>1, <2>2
  <2>3. CASE beyond # page
    BY <1>2, <1>4, <1>6, <1>7, <1>9, <2>1, <2>3
  <2>4. QED BY <2>2, <2>3
<1> HIDE DEF next
<1>10. PageOf(t, after) \in Pages
  BY <1>1, <1>2, <1>4, <1>8 DEF Pages
<1>11. QED BY <1>1, <1>9, <1>10 DEF Within
-----------------------------------------------------------------------------
(***************************************************************************)
(* Steps of the row editor                                                 *)
(***************************************************************************)

LEMMA Numbers ==
  /\ \A k \in RowKeys : k \in Nat /\ k # 0 /\ ~(k <= 0)
  /\ \A c \in Cursors : c \in Nat
<1>1. ASSUME NEW k \in RowKeys PROVE k \in Nat /\ k # 0
  BY RowBrowserAssumption
<1>2. QED BY <1>1 DEF Cursors

LEMMA BrowserStart == BrowserInit => BrowserInv
<1> SUFFICES ASSUME BrowserInit PROVE BrowserInv
  OBVIOUS
<1>1. /\ trail = <<0>> /\ place = 1 /\ Len(trail) = 1 /\ trail[1] = 0 /\ trail \in Seq(Cursors)
      /\ reading = TRUE /\ grid = NoRows /\ turns = 0
      /\ asks = {[of |-> opened, after |-> 0, turn |-> 0, page |-> NoRows]}
      /\ steady = db[opened] /\ db[opened] \in SUBSET RowKeys
  BY DEF BrowserInit, Cursors
<1>2. BrowserTypes
  <2>1. asks \subseteq Asks
    BY <1>1 DEF BrowserInit, Asks, Cursors
  <2>2. crossed = FALSE /\ opened \in Tables /\ db \in [Tables -> SUBSET RowKeys]
    BY DEF BrowserInit
  <2>3. 1 \in 1..1
    OBVIOUS
  <2>4. QED BY <1>1, <2>1, <2>2, <2>3 DEF BrowserTypes
<1>3. AsksKnown
  BY <1>1 DEF AsksKnown
<1>4. GridKnown
  BY <1>1 DEF GridKnown
<1>5. ShownBefore
  <2>1. ASSUME NEW k \in steady PROVE ~(k <= 0)
    BY <1>1, Numbers
  <2>2. QED BY <1>1, <2>1 DEF ShownBefore
<1>6. QED BY <1>2, <1>3, <1>4, <1>5 DEF BrowserInv

(* A request for the page the pager will stand on is the newest.           *)
LEMMA NewestAsk ==
  ASSUME BrowserTypes, AsksKnown, opened' \in Tables, trail'[place'] \in Cursors,
         turns' = turns + 1, asks' = AskRows(opened', trail'[place'], turns')
  PROVE  AsksKnown' /\ asks' \subseteq Asks /\ asks' # {} /\ turns' \in Nat
<1>1. turns \in Nat /\ turns' \in Nat /\ turns < turns'
  BY DEF BrowserTypes
<1> DEFINE new == [of |-> opened', after |-> trail'[place'], turn |-> turns', page |-> NoRows]
<1>2. asks' = asks \cup {new}
  BY DEF AskRows
<1>3. new \in Asks
  BY <1>1 DEF Asks
<1>4. ASSUME NEW q \in asks PROVE q.turn \in Nat /\ q.turn <= turns' /\ q.turn # turns'
  <2>1. q.turn \in Nat /\ q.turn <= turns
    BY DEF AsksKnown, BrowserTypes, Asks
  <2>2. QED BY <1>1, <2>1
<1>5. new.turn <= turns' /\ new.of = opened' /\ new.after = trail'[place'] /\ new.page = NoRows
  BY <1>1
<1>6. asks' \subseteq Asks
  BY <1>2, <1>3 DEF BrowserTypes
<1>7. AsksKnown'
  <2> SUFFICES ASSUME NEW q \in asks'
               PROVE  /\ q.turn <= turns'
                      /\ q.turn = turns' => q.of = opened' /\ q.after = trail'[place']
                      /\ q.page # NoRows =>
                           /\ q.page.of = q.of /\ q.page.after = q.after
                           /\ q.turn = turns' =>
                                \A k \in steady' : Within(q.page, k) => k \in q.page.keys
    BY DEF AsksKnown, Within
  <2>1. CASE q \in asks
    BY <1>4, <2>1 DEF AsksKnown
  <2>2. CASE q = new
    BY <1>5, <2>2
  <2>3. QED BY <1>2, <2>1, <2>2
<1>8. QED BY <1>1, <1>2, <1>6, <1>7

(* Turns that ask for nothing, and rows that go.                           *)
LEMMA AsksStay ==
  ASSUME BrowserTypes, AsksKnown, UNCHANGED <<opened, trail, place>>, asks' \subseteq asks,
         turns' = turns \/ turns' = turns + 1, steady' \subseteq steady
  PROVE  AsksKnown' /\ asks' \subseteq Asks /\ turns' \in Nat
<1>1. turns \in Nat /\ turns' \in Nat /\ turns <= turns'
  BY DEF BrowserTypes
<1>2. ASSUME NEW q \in asks PROVE q.turn \in Nat /\ q.turn <= turns' /\ (q.turn = turns' => q.turn = turns)
  <2>1. q.turn \in Nat /\ q.turn <= turns
    BY DEF AsksKnown, BrowserTypes, Asks
  <2>2. QED BY <1>1, <2>1
<1>3. AsksKnown'
  BY <1>2 DEF AsksKnown, Within
<1>4. QED BY <1>1, <1>3 DEF BrowserTypes

LEMMA CursorsTyped ==
  ASSUME BrowserTypes
  PROVE  \A i \in 1..Len(trail) : trail[i] \in Cursors
BY DEF BrowserTypes

LEMMA OpenTableKept ==
  ASSUME BrowserInv, NEW t \in Tables, OpenTable(t)
  PROVE  BrowserInv'
<1> USE DEF BrowserInv
<1>1. /\ opened' = t /\ trail' = <<0>> /\ place' = 1 /\ trail'[place'] = 0
      /\ reading' = TRUE /\ crossed' = FALSE /\ seen' = {} /\ steady' = db[t]
      /\ turns' = turns + 1 /\ asks' = AskRows(opened', trail'[place'], turns')
      /\ UNCHANGED <<db, grid>>
  BY DEF OpenTable, Turning
<1>2. /\ trail' \in Seq(Cursors) /\ Len(trail') = 1 /\ place' \in 1..Len(trail')
      /\ trail'[place'] \in Cursors
  BY <1>1 DEF Cursors
<1>3. AsksKnown' /\ asks' \subseteq Asks /\ asks' # {} /\ turns' \in Nat
  BY <1>1, <1>2, NewestAsk
<1>4. BrowserTypes'
  BY <1>1, <1>2, <1>3 DEF BrowserTypes
<1>5. GridKnown'
  BY <1>1, <1>3 DEF GridKnown
<1>6. ShownBefore'
  <2>1. ASSUME NEW k \in db[t] PROVE ~(k <= 0)
    BY Numbers DEF BrowserTypes
  <2>2. QED BY <1>1, <1>2, <2>1 DEF ShownBefore
<1>7. QED BY <1>3, <1>4, <1>5, <1>6

(* What was shown up to the next cursor: the pages before, and the page    *)
(* the cursor ends.                                                        *)
LEMMA NextPageKept ==
  ASSUME BrowserInv, NextPage
  PROVE  BrowserInv'
<1> USE DEF BrowserInv
<1>1. /\ trail' = Append(SubSeq(trail, 1, place), grid.next) /\ place' = place + 1
      /\ reading' = TRUE /\ turns' = turns + 1
      /\ asks' = AskRows(opened, grid.next, turns')
      /\ UNCHANGED <<db, opened, grid, seen, steady, crossed>>
      /\ grid # NoRows /\ grid.next # 0 /\ ~reading
  BY DEF NextPage, Turning
<1>2. grid.next \in Cursors /\ grid.next \in RowKeys /\ grid.after \in Cursors
  BY <1>1 DEF BrowserTypes, Pages, Cursors
<1>3. place \in 1..Len(trail) /\ trail \in Seq(Cursors)
  BY DEF BrowserTypes
<1>4. /\ trail' \in Seq(Cursors) /\ Len(trail') = place + 1 /\ trail'[place + 1] = grid.next
      /\ \A i \in 1..place : trail'[i] = trail[i]
  BY <1>1, <1>2, <1>3
<1>5. place' \in 1..Len(trail') /\ trail'[place'] = grid.next
  BY <1>1, <1>3, <1>4
<1>6. AsksKnown' /\ asks' \subseteq Asks /\ asks' # {} /\ turns' \in Nat
  BY <1>1, <1>2, <1>5, NewestAsk DEF BrowserTypes
<1>7. BrowserTypes'
  BY <1>1, <1>4, <1>5, <1>6 DEF BrowserTypes
<1>8. GridKnown'
  BY <1>1, <1>6 DEF GridKnown
<1>9. ShownBefore'
  <2>1. ASSUME ~crossed, NEW i \in 1..Len(trail'), NEW k \in steady, k <= trail'[i]
        PROVE  k \in seen
    <3>1. CASE i \in 1..place
      BY <1>3, <1>4, <2>1, <3>1 DEF ShownBefore
    <3>2. CASE i = place + 1
      <4>1. k \in Nat /\ grid.after \in Nat /\ k <= grid.next
        <5>1. k \in RowKeys
          BY DEF BrowserTypes, ShownBefore
        <5>2. QED BY <1>2, <1>4, <2>1, <3>2, <5>1, Numbers
      <4>2. grid.after = trail[place]
        BY <1>1, <2>1 DEF GridKnown
      <4>3. CASE k <= grid.after
        BY <1>3, <2>1, <4>2, <4>3 DEF ShownBefore
      <4>4. CASE k > grid.after
        <5>1. Within(grid, k)
          BY <4>1, <4>4 DEF Within
        <5>2. QED BY <1>1, <2>1, <5>1 DEF GridKnown
      <4>5. QED BY <4>1, <4>3, <4>4
    <3>3. QED BY <1>3, <1>4, <3>1, <3>2
  <2>2. QED BY <1>1, <2>1 DEF ShownBefore
<1>10. QED BY <1>6, <1>7, <1>8, <1>9

LEMMA PrevPageKept ==
  ASSUME BrowserInv, PrevPage
  PROVE  BrowserInv'
<1> USE DEF BrowserInv
<1>1. /\ place' = place - 1 /\ place > 1 /\ reading' = TRUE /\ turns' = turns + 1
      /\ asks' = AskRows(opened, trail[place - 1], turns')
      /\ UNCHANGED <<db, opened, grid, trail, seen, steady, crossed>>
  BY DEF PrevPage, Turning
<1>2. place' \in 1..Len(trail') /\ place - 1 \in 1..Len(trail)
  BY <1>1 DEF BrowserTypes
<1>3. trail'[place'] = trail[place - 1] /\ trail'[place'] \in Cursors
  BY <1>1, <1>2, CursorsTyped
<1>4. AsksKnown' /\ asks' \subseteq Asks /\ asks' # {} /\ turns' \in Nat
  BY <1>1, <1>3, NewestAsk DEF BrowserTypes
<1>5. BrowserTypes'
  BY <1>1, <1>2, <1>4 DEF BrowserTypes
<1>6. GridKnown'
  BY <1>1, <1>4 DEF GridKnown
<1>7. ShownBefore'
  BY <1>1 DEF ShownBefore
<1>8. QED BY <1>4, <1>5, <1>6, <1>7

(* What is served has every key that stayed: those are in the table.       *)
LEMMA ServeRowsKept ==
  ASSUME BrowserInv, NEW q \in asks, ServeRows(q)
  PROVE  BrowserInv'
<1> USE DEF BrowserInv
<1> DEFINE page == PageOf(q.of, q.after)
<1>1. q \in Asks /\ q.of \in Tables /\ q.after \in Cursors
  BY DEF BrowserTypes, Asks
<1>2. /\ page \in Pages /\ page.of = q.of /\ page.after = q.after
      /\ \A k \in db[q.of] : Within(page, k) => k \in page.keys
  BY <1>1, PageWhole DEF BrowserTypes
<1> HIDE DEF page
<1> DEFINE new == [q EXCEPT !.page = page]
<1>3. /\ asks' = (asks \ {q}) \cup {new}
      /\ UNCHANGED <<db, opened, grid, trail, place, reading, seen, steady, crossed, turns>>
  BY DEF ServeRows, page, pageState, counts
<1>4. /\ new \in Asks /\ new.of = q.of /\ new.after = q.after /\ new.turn = q.turn
      /\ new.page = page
  BY <1>1, <1>2 DEF Asks
<1>5. BrowserTypes'
  BY <1>3, <1>4 DEF BrowserTypes
<1>6. AsksKnown'
  <2> SUFFICES ASSUME NEW p \in asks'
               PROVE  /\ p.turn <= turns
                      /\ p.turn = turns => p.of = opened /\ p.after = trail[place]
                      /\ p.page # NoRows =>
                           /\ p.page.of = p.of /\ p.page.after = p.after
                           /\ p.turn = turns =>
                                \A k \in steady : Within(p.page, k) => k \in p.page.keys
    BY <1>3 DEF AsksKnown, Within
  <2>1. CASE p \in asks
    BY <2>1 DEF AsksKnown
  <2>2. CASE p = new
    <3>1. /\ q.turn <= turns
          /\ q.turn = turns => q.of = opened /\ q.after = trail[place]
      BY DEF AsksKnown
    <3>2. q.turn = turns => \A k \in steady : Within(page, k) => k \in page.keys
      BY <1>2, <3>1 DEF ShownBefore
    <3>3. QED BY <1>2, <1>4, <2>2, <3>1, <3>2
  <2>3. QED BY <1>3, <2>1, <2>2
<1>7. GridKnown'
  BY <1>3 DEF GridKnown, Within
<1>8. ShownBefore'
  BY <1>3 DEF ShownBefore
<1>9. QED BY <1>5, <1>6, <1>7, <1>8

(* A reply that is not late answers the newest request.                    *)
LEMMA RowsArriveKept ==
  ASSUME BrowserInv, NEW q \in asks, RowsArrive(q)
  PROVE  BrowserInv'
<1> USE DEF BrowserInv
<1>1. /\ grid' = q.page /\ reading' = FALSE /\ asks' = asks \ {q} /\ q.page # NoRows
      /\ seen' = (IF q.of = opened THEN seen \cup q.page.keys ELSE seen)
      /\ crossed' = (crossed \/ q.turn < turns)
      /\ UNCHANGED <<db, opened, trail, place, steady, turns>>
  BY DEF RowsArrive, Overtook, counts
<1>2. q \in Asks /\ q.turn \in Nat /\ q.page \in Pages
  BY <1>1 DEF BrowserTypes, Asks
<1>3. AsksKnown' /\ asks' \subseteq Asks /\ turns' \in Nat
  BY <1>1, AsksStay
<1>4. crossed' \in BOOLEAN
  BY <1>1 DEF BrowserTypes
<1>5. BrowserTypes'
  BY <1>1, <1>2, <1>3, <1>4 DEF BrowserTypes
<1>6. ~crossed' => ~crossed /\ q.turn = turns
  <2>1. q.turn <= turns /\ turns \in Nat
    BY DEF AsksKnown, BrowserTypes
  <2>2. ~(q.turn < turns) => q.turn = turns
    BY <1>2, <2>1
  <2>3. QED BY <1>1, <2>2
<1>7. GridKnown'
  <2>1. q.turn = turns =>
          /\ q.page.of = opened /\ q.page.after = trail[place]
          /\ q.of = opened
          /\ \A k \in steady : Within(q.page, k) => k \in q.page.keys
    BY <1>1 DEF AsksKnown
  <2>2. q.turn = turns => \A k \in steady : Within(q.page, k) => k \in seen'
    BY <1>1, <2>1
  <2>3. QED BY <1>1, <1>6, <2>1, <2>2 DEF GridKnown, Within
<1>8. ShownBefore'
  BY <1>1, <1>6 DEF ShownBefore
<1>9. QED BY <1>3, <1>5, <1>7, <1>8

LEMMA RowsFailKept ==
  ASSUME BrowserInv, NEW q \in asks, RowsFail(q)
  PROVE  BrowserInv'
<1> USE DEF BrowserInv
<1>1. /\ grid' = NoRows /\ reading' = FALSE /\ asks' = asks \ {q}
      /\ UNCHANGED <<db, opened, trail, place, seen, steady, turns, crossed>>
  BY DEF RowsFail
<1>2. AsksKnown' /\ asks' \subseteq Asks /\ turns' \in Nat
  BY <1>1, AsksStay
<1>3. BrowserTypes'
  BY <1>1, <1>2 DEF BrowserTypes
<1>4. GridKnown'
  BY <1>1 DEF GridKnown
<1>5. ShownBefore'
  BY <1>1 DEF ShownBefore
<1>6. QED BY <1>2, <1>3, <1>4, <1>5

(* Writes: the page is read again, or nothing is asked.  Rows that come    *)
(* are not among those that stayed, rows that go leave them.               *)
LEMMA WritesKept ==
  ASSUME BrowserInv, UNCHANGED <<opened, grid, trail, place, seen, crossed>>,
         db' \in [Tables -> SUBSET RowKeys], steady' = steady \cap db'[opened],
         \/ /\ turns' = turns + 1 /\ reading' = TRUE
            /\ asks' = AskRows(opened, trail[place], turns')
         \/ /\ turns' = turns \/ turns' = turns + 1
            /\ UNCHANGED <<asks, reading>>
  PROVE  BrowserInv'
<1> USE DEF BrowserInv
<1>1. trail[place] \in Cursors /\ opened \in Tables /\ steady' \subseteq steady
  BY CursorsTyped DEF BrowserTypes
<1>2. AsksKnown' /\ asks' \subseteq Asks /\ turns' \in Nat /\ (reading' => asks' # {})
  <2>1. CASE turns' = turns + 1 /\ reading' = TRUE /\ asks' = AskRows(opened, trail[place], turns')
    BY <1>1, <2>1, NewestAsk
  <2>2. CASE (turns' = turns \/ turns' = turns + 1) /\ UNCHANGED <<asks, reading>>
    BY <1>1, <2>2, AsksStay DEF GridKnown
  <2>3. QED BY <2>1, <2>2
<1>3. BrowserTypes'
  BY <1>2 DEF BrowserTypes
<1>4. GridKnown'
  BY <1>1, <1>2 DEF GridKnown, Within
<1>5. ShownBefore'
  BY <1>1 DEF ShownBefore
<1>6. QED BY <1>2, <1>3, <1>4, <1>5

LEMMA BrowserInvKept == BrowserInv /\ [BrowserNext]_browserVars => BrowserInv'
<1>0. BrowserInv => /\ steady \cap db[opened] = steady /\ db \in [Tables -> SUBSET RowKeys]
  BY DEF BrowserInv, ShownBefore, BrowserTypes
<1>1. ASSUME BrowserInv, NEW k \in RowKeys, Commit(k) PROVE BrowserInv'
  BY <1>0, <1>1, WritesKept DEF Commit, Turning
<1>2. ASSUME BrowserInv, NEW k \in RowKeys, RaisePrompt(k) PROVE BrowserInv'
  BY <1>0, <1>2, WritesKept DEF RaisePrompt, counts
<1>3. ASSUME BrowserInv, CancelDelete PROVE BrowserInv'
  BY <1>0, <1>3, WritesKept DEF CancelDelete, counts
<1>4. ASSUME BrowserInv, ConfirmDelete PROVE BrowserInv'
  <2>1. db' \in [Tables -> SUBSET RowKeys]
    BY <1>0, <1>4 DEF ConfirmDelete
  <2>2. QED BY <1>4, <2>1, WritesKept DEF ConfirmDelete
<1>5. ASSUME BrowserInv, NEW t \in Tables, NEW k \in RowKeys, Meddle(t, k) PROVE BrowserInv'
  <2>1. db' \in [Tables -> SUBSET RowKeys]
    BY <1>0, <1>5 DEF Meddle
  <2>2. QED BY <1>5, <2>1, WritesKept DEF Meddle, pageState
<1>6. ASSUME BrowserInv, UNCHANGED browserVars PROVE BrowserInv'
  BY <1>0, <1>6, WritesKept DEF browserVars, pageState, counts
<1>7. QED
  BY <1>1, <1>2, <1>3, <1>4, <1>5, <1>6, OpenTableKept, NextPageKept, PrevPageKept,
     ServeRowsKept, RowsArriveKept, RowsFailKept DEF BrowserNext

(* Reading on to the last page has shown every row that was there all      *)
(* along, and the page shown is the one the pager stands on, as long as    *)
(* replies came in order.                                                  *)
THEOREM PagesShowAll == BrowserSpec => []BrowserSafety
<1>1. BrowserInv => BrowserSafety
  <2> SUFFICES ASSUME BrowserInv PROVE BrowserSafety
    OBVIOUS
  <2>1. BrowserTypeOK
    BY DEF BrowserInv, BrowserTypes, BrowserTypeOK, Pages, Cursors
  <2>2. PageIsItsCursor
    BY DEF BrowserInv, GridKnown, PageIsItsCursor, InOrder
  <2>3. NothingSkipped
    <3> SUFFICES ASSUME InOrder, grid.next = 0, NEW k \in steady PROVE k \in seen
      BY DEF NothingSkipped
    <3>1. /\ grid.after = trail[place] /\ place \in 1..Len(trail)
          /\ Within(grid, k) => k \in seen
          /\ k <= trail[place] => k \in seen
      BY DEF BrowserInv, BrowserTypes, GridKnown, ShownBefore, InOrder
    <3>2. k \in Nat /\ trail[place] \in Nat
      <4>1. k \in RowKeys
        BY DEF BrowserInv, BrowserTypes, ShownBefore
      <4>2. trail[place] \in Cursors
        BY <3>1, CursorsTyped DEF BrowserInv
      <4>3. QED BY <4>1, <4>2, Numbers
    <3>3. QED BY <3>1, <3>2 DEF Within
  <2>4. QED BY <2>1, <2>2, <2>3 DEF BrowserSafety
<1>2. QED BY <1>1, BrowserStart, BrowserInvKept, PTL DEF BrowserSpec
=============================================================================
