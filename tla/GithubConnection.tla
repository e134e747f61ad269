-------------------------- MODULE GithubConnection -------------------------
(***************************************************************************)
(* The GitHub App of a deployment: the github_app row, the credentials in  *)
(* Secrets Manager, the installations and the single-use intents           *)
(* (services/github-app.ts), and the transport that signs with credentials *)
(* it caches for the life of its container (github-api/app-auth.ts).       *)
(* A request is a chain of database, secret and GitHub calls; two admins'  *)
(* requests interleave, and one may be stopped between two calls.          *)
(***************************************************************************)
EXTENDS Naturals, FiniteSets

CONSTANTS Apps,        \* the Apps that exist on GitHub
          Admins,      \* who starts and finishes handshakes
          GithubReqs,  \* requests in flight
          Intents,     \* state tokens, numbered as they are issued
          Spellings,   \* of a pasted key: "lines" or "escaped"
          GithubKills, \* requests stopped between two calls
          Recycles,    \* transport containers replaced
          Starts,      \* requests started in all
          NoApp

ASSUME GithubAssumption ==
  /\ NoApp \notin Apps /\ Intents \subseteq Nat
  /\ Spellings \subseteq {"lines", "escaped"}
  /\ GithubKills \in Nat /\ Recycles \in Nat /\ Starts \in Nat

VARIABLES app,         \* the github_app row: an App or NoApp
          secret,      \* what Secrets Manager holds
          signer,      \* the credentials the transport container cached
          grant,       \* on GitHub: the App an account has installed
          rows,        \* Apps whose installation is recorded
          intents,     \* github_install_intents
          ghq,         \* the requests
          gleft,       \* how much may still happen, and what has
          redeemed     \* how often each intent was accepted

githubVars == <<app, secret, signer, grant, rows, intents, ghq,
                gleft, redeemed>>

Key(a, spelling) == [app |-> a, spelling |-> spelling]
NoKey == [app |-> NoApp, spelling |-> "lines"]
Purposes == {"install", "manifest"}
GhIdle == [pc |-> "idle"]

GithubTypeOK ==
  /\ app \in Apps \cup {NoApp}
  /\ {secret, signer} \subseteq [app : Apps \cup {NoApp}, spelling : {"lines", "escaped"}]
  /\ grant \subseteq Apps /\ rows \subseteq Apps
  /\ \A i \in intents : i \in [id : Intents, purpose : Purposes, by : Admins]
  /\ DOMAIN redeemed = Intents

GithubInit ==
  /\ app = NoApp /\ secret = NoKey
  /\ signer = NoKey
  /\ grant = {} /\ rows = {} /\ intents = {}
  /\ ghq = [q \in GithubReqs |-> GhIdle]
  /\ gleft = [kills |-> GithubKills, recycles |-> Recycles, starts |-> Starts,
              alone |-> TRUE, pasted |-> FALSE,
              stale |-> FALSE]
  /\ redeemed = [i \in Intents |-> 0]

GhAt(q, pc) == ghq[q].pc = pc
GhGo(q, pc) == ghq' = [ghq EXCEPT ![q].pc = pc]
GhDone(q) == ghq' = [ghq EXCEPT ![q] = GhIdle]
GhBusy == \E q \in GithubReqs : ghq[q].pc # "idle"

BeginCall(q, request) ==
  /\ GhAt(q, "idle") /\ gleft.starts > 0
  /\ ghq' = [ghq EXCEPT ![q] = request]
  /\ gleft' = [gleft EXCEPT !.starts = @ - 1, !.alone = @ /\ ~GhBusy,
                 !.pasted = @ \/ request.op = "save"]

(***************************************************************************)
(* The transport                                                           *)
(***************************************************************************)

(* A key pasted through a JSON field may carry escaped newlines; what is   *)
(* signed with is what was stored: the replacement replaces a newline by a *)
(* newline.                                                                *)
normalizePem(key) == key

(* loadCredentials reads the secret once per container; an unusable secret *)
(* is not cached.                                                          *)
loadCredentials == IF signer.app # NoApp THEN signer ELSE normalizePem(secret)

Signs(key) == key.app # NoApp /\ key.spelling = "lines"

(* A call as the App; "stale" remembers that it signed with credentials    *)
(* the secret no longer holds.                                             *)
CallAsApp ==
  /\ signer' = loadCredentials
  /\ gleft' = [gleft EXCEPT !.stale = @ \/ loadCredentials # secret]

(***************************************************************************)
(* Intents                                                                 *)
(***************************************************************************)

Unissued == {i \in Intents : redeemed[i] = 0 /\ \A known \in intents : known.id # i}

(* Tokens are random: the next one is any that was not issued.             *)
NewIntent(purpose, admin) ==
  \E i \in Unissued :
    /\ \A j \in Unissued : i <= j
    /\ intents' = intents \cup {[id |-> i, purpose |-> purpose, by |-> admin]}

createManifestIntent(admin) ==
  /\ NewIntent("manifest", admin)
  /\ UNCHANGED <<app, secret, signer, grant, rows, ghq, gleft, redeemed>>

(* The page is left for GitHub with the slug of the recorded App, after    *)
(* the App was asked for its identity.                                     *)
createInstallIntent(admin) ==
  /\ app # NoApp /\ secret.app # NoApp
  /\ CallAsApp
  /\ NewIntent("install", admin)
  /\ UNCHANGED <<app, secret, grant, rows, ghq, redeemed>>

IntentExpires(i) ==
  /\ intents' = intents \ {i}
  /\ UNCHANGED <<app, secret, signer, grant, rows, ghq, gleft, redeemed>>

(* The bug of reading the intent and deleting it later. *)
MutSpend(i) == UNCHANGED intents

(* DELETE ... RETURNING: read and consumed in one statement. *)
Spend(i) == intents' = intents \ {i}

Accepts(i, purpose, admin) == i.purpose = purpose /\ i.by = admin

(* Mismatched attempts burn the intent as well. *)
redeemIntent(q, purpose, next) ==
  /\ GhAt(q, "redeem") /\ ghq[q].op = purpose
  /\ \E i \in intents :
       /\ i.id = ghq[q].intent
       /\ Spend(i)
       /\ IF Accepts(i, purpose, ghq[q].admin)
          THEN /\ GhGo(q, next)
               /\ redeemed' = [redeemed EXCEPT ![i.id] = @ + 1]
          ELSE /\ GhDone(q)
               /\ UNCHANGED redeemed
  /\ UNCHANGED <<app, secret, signer, grant, rows, gleft>>

NeverIssued(q) ==
  /\ GhAt(q, "redeem")
  /\ \A i \in intents : i.id # ghq[q].intent
  /\ GhDone(q)
  /\ UNCHANGED <<app, secret, signer, grant, rows, intents, gleft, redeemed>>

(***************************************************************************)
(* saveApp: the pasted credentials                                         *)
(***************************************************************************)

StartSave(q, a, spelling) ==
  /\ BeginCall(q, [pc |-> "put", op |-> "save", key |-> Key(a, spelling)])
  /\ UNCHANGED <<app, secret, signer, grant, rows, intents, redeemed>>

PutSecret(q) ==
  /\ GhAt(q, "put")
  /\ secret' = ghq[q].key
  /\ GhGo(q, "verify")
  /\ UNCHANGED <<app, signer, grant, rows, intents, gleft, redeemed>>

(* verifyApp answers with the App the transport signs as; saveApp refuses  *)
(* another App's identity, the manifest flow records what it was told.     *)
VerifySave(q) ==
  /\ GhAt(q, "verify") /\ ghq[q].op = "save"
  /\ CallAsApp
  /\ IF Signs(loadCredentials) /\ loadCredentials.app = ghq[q].key.app
     THEN GhGo(q, "record")
     ELSE GhDone(q)
  /\ UNCHANGED <<app, secret, grant, rows, intents, redeemed>>

RecordApp(q) ==
  /\ GhAt(q, "record")
  /\ app' = ghq[q].key.app
  /\ GhDone(q)
  /\ UNCHANGED <<secret, signer, grant, rows, intents, gleft, redeemed>>

(***************************************************************************)
(* completeManifest: GitHub redirects with a code and the state            *)
(***************************************************************************)

StartManifest(q, admin, i, a) ==
  /\ BeginCall(q, [pc |-> "redeem", op |-> "manifest", admin |-> admin,
               intent |-> i, key |-> Key(a, "lines")])
  /\ UNCHANGED <<app, secret, signer, grant, rows, intents, redeemed>>

RefuseReplacing(q) ==
  /\ GhAt(q, "list")
  /\ IF rows = {} THEN GhGo(q, "put") ELSE GhDone(q)
  /\ UNCHANGED <<app, secret, signer, grant, rows, intents, gleft, redeemed>>

(* A fresh App is unknown to GET /app for some seconds: four attempts, and *)
(* then it is recorded from the conversion.                                *)
verifyFreshApp(q) ==
  /\ GhAt(q, "verify") /\ ghq[q].op = "manifest"
  /\ CallAsApp
  /\ ghq' = [ghq EXCEPT ![q].pc = "record",
       ![q].key.app = IF Signs(loadCredentials) THEN loadCredentials.app ELSE @]
  /\ UNCHANGED <<app, secret, grant, rows, intents, redeemed>>

(***************************************************************************)
(* forgetApp                                                               *)
(***************************************************************************)

(* The installations are counted first. *)
StartForget(q) ==
  /\ rows = {}
  /\ BeginCall(q, [pc |-> "clear", op |-> "forget"])
  /\ UNCHANGED <<app, secret, signer, grant, rows, intents, redeemed>>

ClearSecret(q) ==
  /\ GhAt(q, "clear")
  /\ secret' = NoKey
  /\ GhGo(q, "deleteRow")
  /\ UNCHANGED <<app, signer, grant, rows, intents, gleft, redeemed>>

DeleteAppRow(q) ==
  /\ GhAt(q, "deleteRow")
  /\ app' = NoApp
  /\ GhDone(q)
  /\ UNCHANGED <<secret, signer, grant, rows, intents, gleft, redeemed>>

(***************************************************************************)
(* Installations; an installation belongs to the App it was made for       *)
(***************************************************************************)

StartInstall(q, admin, i, a) ==
  /\ a \in grant
  /\ BeginCall(q, [pc |-> "redeem", op |-> "install", admin |-> admin,
               intent |-> i, of |-> a])
  /\ UNCHANGED <<app, secret, signer, grant, rows, intents, redeemed>>

(* Asked of GitHub as the App that signs: another App's id is not found.   *)
getInstallation(q) ==
  /\ GhAt(q, "get")
  /\ CallAsApp
  /\ LET key == loadCredentials
     IN IF Signs(key) /\ key.app = ghq[q].of /\ key.app \in grant
        THEN GhGo(q, "insert") ELSE GhDone(q)
  /\ UNCHANGED <<app, secret, grant, rows, intents, redeemed>>

InsertInstallation(q) ==
  /\ GhAt(q, "insert")
  /\ rows' = rows \cup {ghq[q].of}
  /\ GhDone(q)
  /\ UNCHANGED <<app, secret, signer, grant, intents, gleft, redeemed>>

StartRemove(q, a) ==
  /\ a \in rows
  /\ BeginCall(q, [pc |-> "revoke", op |-> "remove", of |-> a])
  /\ UNCHANGED <<app, secret, signer, grant, rows, intents, redeemed>>

(* A refused uninstall does not keep the row. *)
Revoke(q) ==
  /\ GhAt(q, "revoke")
  /\ CallAsApp
  /\ grant' = IF Signs(loadCredentials) /\ loadCredentials.app = ghq[q].of
              THEN grant \ {ghq[q].of} ELSE grant
  /\ GhGo(q, "forgetRow")
  /\ UNCHANGED <<app, secret, rows, intents, redeemed>>

DeleteInstallation(q) ==
  /\ GhAt(q, "forgetRow")
  /\ rows' = rows \ {ghq[q].of}
  /\ GhDone(q)
  /\ UNCHANGED <<app, secret, signer, grant, intents, gleft, redeemed>>

(***************************************************************************)
(* Containers and the outside                                              *)
(***************************************************************************)

GhKilled(q) ==
  /\ gleft.kills > 0 /\ ghq[q].pc # "idle"
  /\ GhDone(q)
  /\ gleft' = [gleft EXCEPT !.kills = @ - 1]
  /\ UNCHANGED <<app, secret, signer, grant, rows, intents, redeemed>>

RecycleLambda ==
  /\ gleft.recycles > 0
  /\ gleft' = [gleft EXCEPT !.recycles = @ - 1]
  /\ signer' = NoKey
  /\ UNCHANGED <<app, secret, grant, rows, intents, ghq, redeemed>>

OwnerInstalls(a) ==
  /\ a = app /\ a \notin grant
  /\ grant' = grant \cup {a}
  /\ UNCHANGED <<app, secret, signer, rows, intents, ghq, gleft, redeemed>>

GithubNext ==
  \/ \E u \in Admins : createManifestIntent(u) \/ createInstallIntent(u)
  \/ \E i \in intents : IntentExpires(i)
  \/ \E q \in GithubReqs :
       \/ \E a \in Apps : \E s \in Spellings : StartSave(q, a, s)
       \/ \E u \in Admins, i \in Intents, a \in Apps :
            StartManifest(q, u, i, a) \/ StartInstall(q, u, i, a)
       \/ \E a \in Apps : StartRemove(q, a)
       \/ redeemIntent(q, "manifest", "list") \/ redeemIntent(q, "install", "get")
       \/ NeverIssued(q)
       \/ PutSecret(q) \/ VerifySave(q) \/ RecordApp(q)
       \/ RefuseReplacing(q) \/ verifyFreshApp(q)
       \/ StartForget(q) \/ ClearSecret(q) \/ DeleteAppRow(q)
       \/ getInstallation(q) \/ InsertInstallation(q)
       \/ Revoke(q) \/ DeleteInstallation(q)
       \/ GhKilled(q)
  \/ \E a \in Apps : OwnerInstalls(a)
  \/ RecycleLambda

GithubSpec == GithubInit /\ [][GithubNext]_githubVars

(***************************************************************************)
(* Properties                                                              *)
(***************************************************************************)

(* "two browsers replaying the same redirect cannot both succeed"          *)
(* (github-app.ts:884-886): an intent is accepted at most once however the *)
(* requests of two admins interleave.                                      *)
IntentSpentOnce == \A i \in Intents : redeemed[i] <= 1

(* One request at a time, none of them a paste and none signed with        *)
(* credentials that were replaced: recorded installations belong to the    *)
(* App whose credentials are stored, between any two calls of a request    *)
(* and after one that was stopped (github-app.ts:419-423, 701-707).        *)
GrantsKeepTheirApp ==
  gleft.alone /\ ~gleft.pasted /\ ~gleft.stale =>
    \A a \in rows : secret.app = a

(* A connection shown as configured can mint a token: its key signs and is *)
(* the key of the App on record (github-app.ts:620-629).                   *)
ConfiguredCanMint ==
  ~GhBusy /\ app # NoApp /\ secret.app # NoApp =>
    Signs(normalizePem(secret)) /\ secret.app = app

(* Handshakes are accepted once, and installations stay with their App.    *)
GithubSafety == GithubTypeOK /\ IntentSpentOnce /\ GrantsKeepTheirApp
=============================================================================
