----------------------------- MODULE ConsoleAccess -----------------------------
(***************************************************************************)
(* The admin console and the accounts it is used with.  A person's role is *)
(* the groups Cognito put in their ID token when it was issued; the        *)
(* console keeps the role it was told at sign-in, opens pages and shows    *)
(* buttons by it, and the admin API judges every request by the token      *)
(* alone.  On the Users page admins change each other's accounts, one      *)
(* Cognito call after another, and a deployment seeds the master account.  *)
(***************************************************************************)
EXTENDS AdminApi, FiniteSets, TLC

CONSTANTS
  Users,       \* console accounts
  Master,      \* the one the deployment seeds
  UserReqs,    \* user-management requests at a time
  UserEdits,   \* bound on those requests altogether
  TokenLife,   \* how long an ID token is good for
  Days,        \* bound on the clock
  CognitoFaults, \* bound on the Cognito calls that fail
  Deployments  \* bound on the deployments after the first

ASSUME ConsoleAssumption ==
  /\ Master \in Users /\ NoRole \notin Users
  /\ {UserEdits, TokenLife, Days, CognitoFaults, Deployments} \subseteq Nat /\ Days > 0

VARIABLES
  account,  \* per user: "none", "on" or "off"
  groups,   \* per user: the Cognito groups
  tab,      \* per user: the console they have open
  ureq,     \* user-management requests under way
  cnow,     \* the clock
  lost,     \* when a user last stopped being an admin; 0 while they are one
  mixed,    \* users whose groups a request left half done, or two shared
  cleft     \* what is left of the requests, faults and deployments

consoleVars == <<account, groups, tab, ureq, cnow, lost, mixed, cleft>>

-----------------------------------------------------------------------------
(* The console's requests, by the name of the function that sends each.    *)
Ask(verb, path, always, maybe) == Call(Gateway(path), verb, path, always, maybe)

Read(path) == Ask("GET", path, {}, {})

Do(path) == Ask("POST", path, {}, {})

DataApi ==
  [me |-> Read(<<"me">>),
   systemInfo |-> Read(<<"system", "info">>),
   mapsList |-> Read(<<"maps">>),
   mapDetail |-> Read(<<"maps", ":">>),
   valkeyOverview |-> Read(<<"db", "valkey", "overview">>),
   valkeyKey |-> Ask("GET", <<"db", "valkey", "key">>, {"?key"}, {}),
   valkeySetValue |->
     Ask("POST", <<"db", "valkey", "key", "value">>, {"key", "value", "ttl_seconds"}, {}),
   valkeySetField |->
     Ask("POST", <<"db", "valkey", "key", "field">>, {"key", "field", "value"}, {}),
   valkeySetTtl |-> Ask("POST", <<"db", "valkey", "key", "ttl">>, {"key", "seconds"}, {}),
   valkeyDeleteKey |-> Ask("DELETE", <<"db", "valkey", "key">>, {"?key"}, {}),
   auroraTables |-> Read(<<"db", "aurora", "tables">>),
   auroraRows |->
     Ask("GET", <<"db", "aurora", "tables", ":", "rows">>, {}, {"?cursor", "?limit"}),
   auroraQuery |-> Ask("POST", <<"db", "aurora", "query">>, {"sql"}, {"limit"}),
   auroraUpdateRow |->
     Ask("PATCH", <<"db", "aurora", "tables", ":", "rows", ":">>, {"changes"}, {}),
   auroraDeleteRow |->
     Ask("DELETE", <<"db", "aurora", "tables", ":", "rows", ":">>, {}, {})]

LogAndClientApi ==
  [logGroups |-> Read(<<"logs", "groups">>),
   logQueryStart |->
     Ask("POST", <<"logs", "query">>, {"groups"}, {"query", "start", "end", "limit"}),
   logQueryResults |-> Read(<<"logs", "query", ":">>),
   logQueryStop |-> Ask("DELETE", <<"logs", "query", ":">>, {}, {}),
   clientsSummary |-> Read(<<"clients", "summary">>),
   clientsSearch |->
     Ask("GET", <<"clients", "search">>, {"?app_id", "?lat", "?lon", "?radius_m"}, {"?limit"}),
   clientsSample |->
     Ask("GET", <<"clients", "sample">>, {"?app_id"}, {"?cursor", "?limit"}),
   clientsLookup |-> Ask("GET", <<"clients", "lookup">>, {"?app_id", "?client_id"}, {}),
   sensors |-> Read(<<"sensors">>),
   sensorAdd |-> Ask("POST", <<"sensors">>, {"name", "display_name"}, Ingest),
   sensorSetIngest |-> Ask("POST", <<"sensors", ":", "ingest">>, {}, Ingest),
   sensorSetEnabled |-> Ask("POST", <<"sensors", ":", "enabled">>, {"enabled"}, {}),
   sensorRemove |-> Ask("DELETE", <<"sensors", ":">>, {}, {}),
   sensorReconcile |-> Do(<<"sensors", "reconcile">>),
   apps |-> Read(<<"apps">>),
   appAdd |-> Ask("POST", <<"apps">>, {"app_id", "display_name"}, Streams),
   appUpdate |-> Ask("PATCH", <<"apps", ":">>, {}, {"display_name"} \union Streams),
   appRemove |-> Ask("DELETE", <<"apps", ":">>, {}, {})]

TokenToUserApi ==
  [mcpTokens |-> Read(<<"mcp-tokens">>),
   mcpTokenCreate |-> Ask("POST", <<"mcp-tokens">>, {"name"}, {"role", "expires_in_days"}),
   mcpTokenRevoke |-> Ask("DELETE", <<"mcp-tokens", ":">>, {}, {}),
   storages |-> Read(<<"storages">>),
   storagesAvailable |-> Read(<<"storages", "available">>),
   storageAdd |->
     Ask("POST", <<"storages">>, {"bucket", "display_name", "create", "cost_tracked"}, {}),
   storageReconcile |-> Do(<<"storages", "reconcile">>),
   storageUpdate |-> Ask("PATCH", <<"storages", ":">>, {}, {"display_name", "cost_tracked"}),
   storageRemove |-> Ask("DELETE", <<"storages", ":">>, {}, {}),
   storageObjects |->
     Ask("GET", <<"storages", ":", "objects">>, {}, {"?prefix", "?cursor", "?limit"}),
   networkTopology |-> Ask("GET", <<"network", "topology">>, {}, {"?refresh"}),
   costSummary |-> Ask("GET", <<"cost", "summary">>, {}, Period),
   costServiceDetail |-> Ask("GET", <<"cost", "service">>, {"?service"}, Period),
   listUsers |-> Read(<<"users">>),
   createUser |->
     Ask("POST", <<"users">>, {"username", "email", "role"}, {"temporary_password"}),
   deleteUser |-> Ask("DELETE", <<"users", ":">>, {}, {}),
   setRole |-> Ask("POST", <<"users", ":", "role">>, {"role"}, {}),
   setEnabled |-> Ask("POST", <<"users", ":", "enabled">>, {"enabled"}, {}),
   resetPassword |->
     Ask("POST", <<"users", ":", "password">>, {"password", "temporary"}, {})]

GithubAndClusterApi ==
  [githubApp |-> Read(<<"github", "app">>),
   githubSaveApp |->
     Ask("POST", <<"github", "app">>, {"app_id", "private_key"}, {"webhook_secret"}),
   githubManifestIntent |->
     Ask("POST", <<"github", "app", "manifest-intent">>, {"organization", "app_name"}, {}),
   githubCompleteManifest |->
     Ask("POST", <<"github", "app", "from-manifest">>, {"code", "state"}, {}),
   githubForgetApp |-> Ask("DELETE", <<"github", "app">>, {}, {}),
   githubInstallIntent |-> Do(<<"github", "install-intent">>),
   githubInstallations |-> Read(<<"github", "installations">>),
   githubCompleteInstall |->
     Ask("POST", <<"github", "installations">>, {"installation_id", "state"}, {}),
   githubInstallationRepos |-> Read(<<"github", "installations", ":", "repositories">>),
   githubRemoveInstallation |->
     Ask("DELETE", <<"github", "installations", ":">>, {}, {"?revoke"}),
   clusters |-> Read(<<"clusters">>),
   clusterCreate |->
     Ask("POST", <<"clusters">>, {"name", "display_name", "capacity"}, {}),
   clusterUpdate |-> Ask("PATCH", <<"clusters", ":">>, {"capacity"}, {"display_name"}),
   clusterRemove |-> Ask("DELETE", <<"clusters", ":">>, {}, {}),
   instanceTypes |-> Read(<<"clusters", "instance-types">>),
   clusterHealth |-> Read(<<"clusters", ":", "health">>),
   clusterProvision |-> Do(<<"clusters", ":", "provision">>),
   clusterDeprovision |-> Do(<<"clusters", ":", "deprovision">>)]

ServiceApi ==
  [microservices |-> Read(<<"microservices">>),
   microserviceCreate |->
     Ask("POST", <<"microservices">>, {"name", "installation_id", "repo_id"},
         {"display_name", "compute", "launch"} \union SourceFields \union RuntimeFields),
   microserviceUpdate |->
     Ask("PATCH", <<"microservices", ":">>, {},
         {"display_name", "repo_id", "auto_deploy"} \union SourceFields \union RuntimeFields),
   microserviceCheck |-> Do(<<"microservices", ":", "check">>),
   microserviceRemove |->
     Ask("DELETE", <<"microservices", ":">>, {"?delete_images", "?delete_logs"}, {}),
   microserviceStatus |-> Read(<<"microservices", ":", "status">>),
   microserviceLaunch |-> Do(<<"microservices", ":", "launch">>),
   microserviceEvents |-> Ask("GET", <<"microservices", ":", "events">>, {"?limit"}, {}),
   microserviceLaunchDismiss |-> Do(<<"microservices", ":", "launch", "dismiss">>),
   microserviceLogs |->
     Ask("GET", <<"microservices", ":", "logs">>, {"?source", "?limit"}, {"?stream"}),
   microserviceProvision |-> Do(<<"microservices", ":", "provision">>),
   microserviceBuild |-> Do(<<"microservices", ":", "build">>),
   microserviceBuildStop |-> Do(<<"microservices", ":", "build", "stop">>),
   microserviceDeploy |-> Do(<<"microservices", ":", "deploy">>),
   microserviceRestart |-> Do(<<"microservices", ":", "restart">>),
   microserviceDeprovision |->
     Ask("POST", <<"microservices", ":", "deprovision">>, {},
         {"delete_images", "delete_logs"}),
   microserviceLogRetention |->
     Ask("PUT", <<"microservices", ":", "logs", "retention">>, {"retention_days"}, {}),
   microserviceLogsClear |->
     Ask("POST", <<"microservices", ":", "logs", "clear">>, {"scope"}, {})]

api == DataApi @@ LogAndClientApi @@ TokenToUserApi @@ GithubAndClusterApi @@ ServiceApi

-----------------------------------------------------------------------------
(* The pages: the least role the router opens each for, what it asks for   *)
(* whoever opened it, and what only for an operator or an admin.           *)
Page(floor, all, operator, admin) ==
  [floor |-> floor, viewer |-> all, operator |-> operator, admin |-> admin]

OverviewPage ==
  Page("viewer", {"systemInfo", "sensors", "apps", "storages"}, {"microservices"}, {})

SensorsPage ==
  Page("viewer", {"sensors"}, {},
       {"storages", "sensorAdd", "sensorSetIngest", "sensorSetEnabled", "sensorRemove",
        "sensorReconcile"})

AppsPage == Page("viewer", {"apps"}, {}, {"appAdd", "appUpdate", "appRemove"})

LiveClientsPage ==
  Page("viewer", {"clientsSummary", "clientsSearch", "clientsSample", "clientsLookup"}, {}, {})

LogsPage ==
  Page("operator", {"logGroups", "logQueryStart", "logQueryResults", "logQueryStop"}, {}, {})

AuroraPage ==
  Page("operator", {"auroraTables", "auroraRows", "auroraQuery"}, {},
       {"auroraUpdateRow", "auroraDeleteRow"})

ValkeyPage ==
  Page("operator", {"valkeyOverview", "valkeyKey"}, {},
       {"valkeySetValue", "valkeySetField", "valkeySetTtl", "valkeyDeleteKey"})

StoragePage ==
  Page("viewer", {"storages", "storageObjects"}, {},
       {"storagesAvailable", "storageAdd", "storageReconcile", "storageUpdate",
        "storageRemove"})

MapsPage == Page("operator", {"mapsList", "mapDetail"}, {}, {})

ClustersPage ==
  Page("operator", {"instanceTypes", "clusters", "clusterHealth", "microservices"}, {},
       {"clusterProvision", "clusterDeprovision", "clusterUpdate", "clusterRemove"})

MicroservicesPage ==
  Page("operator",
       {"githubApp", "githubInstallations", "microservices", "clusters", "instanceTypes"}, {},
       {"githubInstallationRepos", "microserviceCreate", "microserviceUpdate",
        "microserviceLaunch"})

MicroservicePage ==
  Page("operator",
       {"microserviceStatus", "clusters", "clusterHealth", "microserviceLogs",
        "microserviceEvents"}, {},
       {"microserviceUpdate", "microserviceLaunch", "microserviceBuild",
        "microserviceBuildStop", "microserviceDeploy", "microserviceRestart",
        "microserviceProvision", "microserviceDeprovision", "microserviceRemove",
        "microserviceCheck"})

NetworkPage == Page("operator", {"networkTopology"}, {}, {})

ApiDocsPage == Page("viewer", {"systemInfo"}, {}, {})

McpPage == Page("viewer", {}, {"mcpTokens", "mcpTokenCreate", "mcpTokenRevoke"}, {})

SettingsPage == Page("operator", {"githubApp"}, {}, {})

GithubSettingsPage ==
  Page("operator", {"githubApp", "githubInstallations", "microservices"}, {},
       {"githubManifestIntent", "githubSaveApp", "githubForgetApp", "githubInstallIntent",
        "githubRemoveInstallation"})

GithubCallbackPage ==
  Page("admin", {"githubCompleteManifest", "githubInstallIntent", "githubCompleteInstall"},
       {}, {})

UsersPage ==
  Page("admin",
       {"listUsers", "createUser", "setRole", "setEnabled", "deleteUser", "resetPassword"},
       {}, {})

CostPage == Page("admin", {"costSummary", "costServiceDetail"}, {}, {})

MonitoringPages ==
  [overview |-> OverviewPage, sensors |-> SensorsPage, apps |-> AppsPage,
   clients |-> LiveClientsPage, logs |-> LogsPage, aurora |-> AuroraPage,
   valkey |-> ValkeyPage, storage |-> StoragePage, maps |-> MapsPage]

SystemPages ==
  [clusters |-> ClustersPage, microservices |-> MicroservicesPage,
   microservice |-> MicroservicePage, network |-> NetworkPage, docs |-> ApiDocsPage,
   mcp |-> McpPage, settings |-> SettingsPage, github |-> GithubSettingsPage,
   callback |-> GithubCallbackPage, users |-> UsersPage, cost |-> CostPage]

Pages == MonitoringPages @@ SystemPages

\* The requests a page makes, or has a button for, when this role is signed in.
Offered(page, role) ==
  UNION {Pages[page][r] : r \in {s \in Roles : AtLeast(role, s)}}

\* What the admin API does for a role: the requests it takes with the fields
\* they always carry, and those of which it reads every field sent.
Allowed ==
  [role \in Roles \union {NoRole} |->
     {name \in DOMAIN api : StatusOf(role, api[name], api[name].always) = 200}]

Served ==
  [role \in Roles \union {NoRole} |->
     {name \in Allowed[role] : \A full \in BOOLEAN :
        LET sent == Sent(api[name], full) IN
        StatusOf(role, api[name], sent) = 200 /\ Ignored(api[name], sent) = {}}]

\* The settings list: the page each entry leads to, and the least role that
\* sees it.
SettingsEntries ==
  [github |-> "operator", mcp |-> "operator", users |-> "admin", cost |-> "operator"]

-----------------------------------------------------------------------------
(* Signing in.  The token carries the groups of the moment it was issued.  *)
SignedOut == [me |-> NoRole, token |-> {}, issued |-> 0, page |-> "login"]

IdleUser == [pc |-> "idle", op |-> "", by |-> NoRole, on |-> NoRole, role |-> NoRole,
             drop |-> {}, add |-> FALSE, clean |-> TRUE]

\* A first deployment, done: the clock starts at 1, 0 being never.
ConsoleInit ==
  /\ account = [u \in Users |-> IF u = Master THEN "on" ELSE "none"]
  /\ groups = [u \in Users |-> IF u = Master THEN {"admin"} ELSE {}]
  /\ tab = [u \in Users |-> SignedOut]
  /\ ureq = [r \in UserReqs |-> IdleUser]
  /\ cnow = 1
  /\ lost = [u \in Users |-> IF u = Master THEN 0 ELSE 1]
  /\ mixed = {}
  /\ cleft = [edits |-> UserEdits, faults |-> CognitoFaults, deployments |-> Deployments]

SignedIn(u) == tab[u].me # NoRole

\* The router opens a page the role has, or the overview instead.
Landed(role, page) == IF AtLeast(role, Pages[page].floor) THEN page ELSE "overview"

TokenFresh(u) == cnow < tab[u].issued + TokenLife

\* Sign-in asks /me, which refuses a token that has no console role.
SignIn(u) ==
  /\ account[u] = "on" /\ ~SignedIn(u)
  /\ tab' = [tab EXCEPT ![u] =
       IF resolveRole(groups[u]) = NoRole THEN SignedOut
       ELSE [me |-> resolveRole(groups[u]), token |-> groups[u], issued |-> cnow,
             page |-> "overview"]]
  /\ UNCHANGED <<account, groups, ureq, cnow, lost, mixed, cleft>>

\* The next request finds the token expired and gets another, unless the
\* account is gone or disabled; the role on screen stays.
currentSession(u) ==
  /\ SignedIn(u) /\ ~TokenFresh(u)
  /\ account[u] = "on"
  /\ tab' = [tab EXCEPT ![u].token = groups[u], ![u].issued = cnow]
  /\ UNCHANGED <<account, groups, ureq, cnow, lost, mixed, cleft>>

\* The page is loaded anew: the role is asked for again, with the token there is
\* or, when that has expired and the account still gets one, another.
restore(u) ==
  /\ SignedIn(u)
  /\ LET renewed == IF TokenFresh(u) THEN tab[u]
                     ELSE [tab[u] EXCEPT !.token = groups[u], !.issued = cnow]
         role == resolveRole(renewed.token) IN
       tab' = [tab EXCEPT ![u] =
         IF role = NoRole \/ ~(TokenFresh(u) \/ account[u] = "on") THEN SignedOut
         ELSE [renewed EXCEPT !.me = role, !.page = Landed(role, @)]]
  /\ UNCHANGED <<account, groups, ureq, cnow, lost, mixed, cleft>>

signOut(u) ==
  /\ SignedIn(u)
  /\ tab' = [tab EXCEPT ![u] = SignedOut]
  /\ UNCHANGED <<account, groups, ureq, cnow, lost, mixed, cleft>>

Visit(u, page) ==
  /\ SignedIn(u)
  /\ tab' = [tab EXCEPT ![u].page = Landed(tab[u].me, page)]
  /\ UNCHANGED <<account, groups, ureq, cnow, lost, mixed, cleft>>

-----------------------------------------------------------------------------
(* User management.  A request is one handler, a Cognito call at a time;   *)
(* `Moving` are those that change an account's groups.                     *)
Moving(u) ==
  {r \in UserReqs : ureq[r].pc \notin {"idle", "enable", "disable"} /\ ureq[r].on = u}

IsAdmin(u) == account[u] = "on" /\ "admin" \in groups[u]

\* When each user was last an admin, once these are the accounts and groups.
Losing(accounts, memberships) ==
  [u \in Users |->
     IF accounts[u] = "on" /\ "admin" \in memberships[u] THEN 0
     ELSE IF lost[u] = 0 THEN cnow ELSE lost[u]]

Change(accounts, memberships) ==
  /\ account' = accounts /\ groups' = memberships
  /\ lost' = Losing(accounts, memberships)

\* Mutant: an admin may give up the role on their own account.
MutRefuseSelf(by, op, on, role) == by = on /\ op \in {"delete", "disable"}

\* What the routes refuse a caller to do to their own account.
refuseSelf(by, op, on, role) ==
  by = on /\ (op \in {"delete", "disable"} \/ (op = "role" /\ role # "admin"))

RouteOf ==
  [role |-> "setRole", create |-> "createUser", delete |-> "deleteUser",
   disable |-> "setEnabled", enable |-> "setEnabled"]

\* Two requests that move one account's groups at a time are neither clean.
Starting(r, op, by, on, role, pc) ==
  LET alone == Moving(on) = {} \/ op \in {"enable", "disable"} IN
  /\ ureq' = [s \in UserReqs |->
       IF s = r THEN [IdleUser EXCEPT !.pc = pc, !.op = op, !.by = by, !.on = on,
                                      !.role = role, !.clean = alone]
       ELSE IF s \in Moving(on) /\ ~alone THEN [ureq[s] EXCEPT !.clean = FALSE] ELSE ureq[s]]
  /\ mixed' = IF alone THEN mixed ELSE mixed \union {on}

\* The token's role is judged here, and not again.
BeginUserRequest(r, by, op, on, role) ==
  /\ ureq[r].pc = "idle" /\ cleft.edits > 0
  /\ SignedIn(by) /\ tab[by].page = "users" /\ TokenFresh(by)
  /\ RouteOf[op] \in Allowed[resolveRole(tab[by].token)]
  /\ ~refuseSelf(by, op, on, role)
  /\ Starting(r, op, by, on, role, IF op = "role" THEN "list" ELSE op)
  /\ cleft' = [cleft EXCEPT !.edits = @ - 1]
  /\ UNCHANGED <<account, groups, tab, cnow, lost>>

Finish(r) == ureq' = [ureq EXCEPT ![r] = IdleUser]

deleteUser(r) ==
  /\ ureq[r].pc = "delete" /\ account[ureq[r].on] # "none"
  /\ Change([account EXCEPT ![ureq[r].on] = "none"], [groups EXCEPT ![ureq[r].on] = {}])
  /\ Finish(r)
  /\ UNCHANGED <<tab, cnow, mixed, cleft>>

setEnabled(r) ==
  /\ ureq[r].pc \in {"enable", "disable"} /\ account[ureq[r].on] # "none"
  /\ Change([account EXCEPT ![ureq[r].on] = IF ureq[r].pc = "enable" THEN "on" ELSE "off"],
            groups)
  /\ Finish(r)
  /\ UNCHANGED <<tab, cnow, mixed, cleft>>

\* A new account has no group until its role is assigned.
createUser(r) ==
  /\ ureq[r].pc = "create" /\ account[ureq[r].on] = "none"
  /\ Change([account EXCEPT ![ureq[r].on] = "on"], groups)
  /\ ureq' = [ureq EXCEPT ![r].pc = "list"]
  /\ mixed' = mixed \union {ureq[r].on}
  /\ UNCHANGED <<tab, cnow, cleft>>

\* assignRole reads the groups first, and works from what it read.
groupsForUser(r) ==
  /\ ureq[r].pc = "list" /\ account[ureq[r].on] # "none"
  /\ LET current == groups[ureq[r].on] IN
       ureq' = [ureq EXCEPT ![r].pc = "assign",
                            ![r].drop = current \ {ureq[r].role},
                            ![r].add = ureq[r].role \notin current]
  /\ UNCHANGED <<account, groups, tab, cnow, lost, mixed, cleft>>

RemoveFromGroup(r) ==
  /\ ureq[r].pc = "assign" /\ account[ureq[r].on] # "none"
  /\ \E g \in ureq[r].drop :
       /\ Change(account, [groups EXCEPT ![ureq[r].on] = @ \ {g}])
       /\ ureq' = [ureq EXCEPT ![r].drop = @ \ {g}]
  /\ mixed' = mixed \union {ureq[r].on}
  /\ UNCHANGED <<tab, cnow, cleft>>

\* The last call, or none: a clean assignment leaves the one group.
AddToGroup(r) ==
  /\ ureq[r].pc = "assign" /\ ureq[r].drop = {} /\ account[ureq[r].on] # "none"
  /\ Change(account,
            IF ureq[r].add THEN [groups EXCEPT ![ureq[r].on] = @ \union {ureq[r].role}]
            ELSE groups)
  /\ Finish(r)
  /\ mixed' = IF ureq[r].clean /\ ureq[r].op # "deploy" THEN mixed \ {ureq[r].on}
              ELSE IF ureq[r].clean /\ groups[ureq[r].on] \subseteq {ureq[r].role} THEN mixed
              ELSE mixed \union {ureq[r].on}
  /\ UNCHANGED <<tab, cnow, cleft>>

\* A Cognito call that fails, or that finds no such account, or one already:
\* what came before it stays.
Refused(r) ==
  CASE ureq[r].pc = "create" -> account[ureq[r].on] # "none"
    [] ureq[r].pc \notin {"create", "deploy"} -> account[ureq[r].on] = "none"
    [] OTHER -> FALSE

CognitoRefuses(r) ==
  /\ ureq[r].pc # "idle"
  /\ \/ Refused(r) /\ UNCHANGED cleft
     \/ cleft.faults > 0 /\ cleft' = [cleft EXCEPT !.faults = @ - 1]
  /\ Finish(r)
  /\ UNCHANGED <<account, groups, tab, cnow, lost, mixed>>

\* A deployment with other settings seeds the master account: it is created, or
\* kept as it is, disabled or not, and joins its group without leaving another.
BeginDeployment(r) ==
  /\ ureq[r].pc = "idle" /\ cleft.deployments > 0
  /\ Starting(r, "deploy", NoRole, Master, "admin", "deploy")
  /\ cleft' = [cleft EXCEPT !.deployments = @ - 1]
  /\ UNCHANGED <<account, groups, tab, cnow, lost>>

SeedAccount(r) ==
  /\ ureq[r].pc = "deploy"
  /\ Change([account EXCEPT ![Master] = IF @ = "none" THEN "on" ELSE @], groups)
  /\ ureq' = [ureq EXCEPT ![r].pc = "assign", ![r].add = TRUE]
  /\ mixed' = IF account[Master] = "none" THEN mixed \union {Master} ELSE mixed
  /\ UNCHANGED <<tab, cnow, cleft>>

\* A request is short beside a token's life.
ConsoleTick ==
  /\ cnow < Days /\ \A r \in UserReqs : ureq[r].pc = "idle"
  /\ cnow' = cnow + 1
  /\ UNCHANGED <<account, groups, tab, ureq, lost, mixed, cleft>>

Browsing ==
  \E u \in Users : \/ SignIn(u) \/ currentSession(u) \/ restore(u) \/ signOut(u)
                   \/ \E page \in DOMAIN Pages : Visit(u, page)

UserManagement ==
  \E r \in UserReqs :
    \/ \E by, on \in Users, op \in {"role", "create"}, role \in Roles :
         BeginUserRequest(r, by, op, on, role)
    \/ \E by, on \in Users, op \in {"delete", "disable", "enable"} :
         BeginUserRequest(r, by, op, on, NoRole)
    \/ deleteUser(r) \/ setEnabled(r) \/ createUser(r) \/ groupsForUser(r)
    \/ RemoveFromGroup(r) \/ AddToGroup(r) \/ CognitoRefuses(r)
    \/ BeginDeployment(r) \/ SeedAccount(r)

ConsoleNext == Browsing \/ UserManagement \/ ConsoleTick

ConsoleSpec == ConsoleInit /\ [][ConsoleNext]_consoleVars

-----------------------------------------------------------------------------
(* Properties                                                              *)

\* Every variable holds a value of its kind.
ConsoleTypeOK ==
  /\ account \in [Users -> {"none", "on", "off"}]
  /\ groups \in [Users -> SUBSET Roles]
  /\ tab \in [Users -> [me : Roles \union {NoRole}, token : SUBSET Roles, issued : 0..Days,
                        page : DOMAIN Pages \union {"login"}]]
  /\ ureq \in [UserReqs -> [pc : {"idle", "list", "assign", "deploy"} \union DOMAIN RouteOf,
                            op : DOMAIN RouteOf \union {"", "deploy"},
                            by : Users \union {NoRole}, on : Users \union {NoRole},
                            role : Roles \union {NoRole}, drop : SUBSET Roles,
                            add : BOOLEAN, clean : BOOLEAN]]
  /\ cnow \in 1..Days
  /\ lost \in [Users -> 0..Days]
  /\ mixed \subseteq Users
  /\ cleft \in [edits : 0..UserEdits, faults : 0..CognitoFaults, deployments : 0..Deployments]

\* The tables of the pages, of the settings and of the user-management requests
\* against the table of the routes.  No constant occurs in them: TLC settles them
\* by evaluating them.
ASSUME PageTable ==
  /\ {"overview", "users"} \subseteq DOMAIN Pages /\ Pages["overview"].floor = "viewer"
  /\ \A page \in DOMAIN Pages, me, role \in Roles :
       AtLeast(me, Pages[page].floor) /\ AtLeast(role, me) =>
         Offered(page, me) \subseteq Served[role]

ASSUME SettingsTable ==
  \A me \in Roles, entry \in DOMAIN SettingsEntries :
    AtLeast(me, SettingsEntries[entry]) =>
      Landed(me, entry) = entry \/ (entry = "cost" /\ me = "operator")

ASSUME UserTable ==
  \A role \in Roles \union {NoRole}, op \in DOMAIN RouteOf :
    RouteOf[op] \in Allowed[role] => role = "admin"

\* An open page is one the role on screen may open, and while the token is no
\* lower than that role, all it asks for or has a button for is answered, by
\* whichever function, with every field read: console, gateway and routes agree.
PagesAnswered ==
  \A u \in Users : SignedIn(u) =>
    LET t == tab[u] IN
    /\ AtLeast(t.me, Pages[t.page].floor)
    /\ LET role == resolveRole(t.token) IN
       TokenFresh(u) /\ role # NoRole /\ AtLeast(role, t.me) =>
         Offered(t.page, t.me) \subseteq Served[role]

\* Every settings entry a role sees leads to its page, but for the cost entry
\* of an operator, which leads back to the overview.
SettingsLead ==
  \A u \in Users : SignedIn(u) /\ tab[u].page = "settings" =>
    \A entry \in DOMAIN SettingsEntries : AtLeast(tab[u].me, SettingsEntries[entry]) =>
      Landed(tab[u].me, entry) = entry \/ (entry = "cost" /\ tab[u].me = "operator")

\* An account has exactly one role group, unless a request on it is under way
\* or its last role assignment failed half way, overlapped another, or was a
\* deployment's: an assignment that ran alone and to its end repairs it.
OneRoleEach ==
  \A u \in Users : account[u] # "none" /\ Moving(u) = {} /\ u \notin mixed =>
    Cardinality(groups[u] \cap Roles) = 1

\* A user who has lost the admin role, or whose account was disabled or
\* deleted, starts no user-management request once an ID token's life is over.
FormerAdminsStop ==
  \A r \in UserReqs : ureq[r].by \in Users =>
    lost[ureq[r].by] = 0 \/ cnow < lost[ureq[r].by] + TokenLife

\* The last admin is taken away only by a request of someone who had by then
\* lost the role themselves, or who was deleted and is creating their own
\* account again: an admin who stays one locks nobody out.
LastAdminTaken ==
  (\E u \in Users : IsAdmin(u)) /\ (\A u \in Users : ~IsAdmin(u))' =>
    \E r \in UserReqs :
      /\ ureq'[r] # ureq[r] /\ ureq[r].by \in Users
      /\ ~IsAdmin(ureq[r].by) \/ (ureq[r].op = "create" /\ ureq[r].on = ureq[r].by)

ConsoleSafety ==
  /\ ConsoleTypeOK /\ PagesAnswered /\ SettingsLead /\ OneRoleEach /\ FormerAdminsStop
=============================================================================
