------------------------------- MODULE McpAccess -------------------------------
(***************************************************************************)
(* The MCP server and its tokens.  A person issues a token in the console  *)
(* and an assistant presents it on every request; the gateway asks the     *)
(* authorizer, keeps its answer a while, and starts the server with the    *)
(* token's role; each tool call is an admin API call made on its behalf.   *)
(* A row of mcp_tokens outlives its token: revoked, it is kept.            *)
(***************************************************************************)
EXTENDS AdminApi, FiniteSets, TLC

CONSTANTS
  Secrets,       \* the tokens that may be issued
  TokenNames,    \* the names they are given
  McpReqs,       \* requests to the MCP endpoint at a time
  CacheTtl,      \* how long the gateway keeps an authorizer's answer
  AuthTime,      \* the authorizer function's timeout
  RunTime,       \* the MCP function's timeout
  Lifetimes,     \* the lifetimes a token is issued with; 0 never expires
  Clock,         \* bound on the clock
  DatabaseFaults \* bound on the authorizer's database failures

ASSUME McpAssumption ==
  /\ {CacheTtl, AuthTime, RunTime, Clock, DatabaseFaults} \subseteq Nat /\ Clock > 0
  /\ Lifetimes \subseteq Nat

VARIABLES
  tokens,  \* mcp_tokens, by the token
  cached,  \* the gateway's authorizer cache
  mreq,    \* requests under way
  mnow,    \* the clock
  authFailed \* when the authorizer last failed on a token

mcpVars == <<tokens, cached, mreq, mnow, authFailed>>

-----------------------------------------------------------------------------
(* The tools, each with the least role it is listed for.                   *)
ServiceTools ==
  [get_system_info |-> "viewer", list_microservices |-> "viewer",
   get_microservice_status |-> "operator", get_microservice_events |-> "operator",
   get_microservice_logs |-> "operator", get_microservice_metrics |-> "operator",
   list_microservice_images |-> "operator", list_microservice_builds |-> "operator"]

ServiceEditTools ==
  [create_microservice |-> "admin", update_microservice |-> "admin",
   build_microservice |-> "admin", stop_build |-> "admin", deploy_microservice |-> "admin",
   restart_microservice |-> "admin", rollback_microservice |-> "admin",
   delete_microservice |-> "admin"]

SensorAndAppTools ==
  [list_sensors |-> "viewer", create_sensor |-> "admin", set_sensor_enabled |-> "admin",
   update_sensor_ingest |-> "admin", delete_sensor |-> "admin", reconcile_sensors |-> "admin",
   list_apps |-> "viewer", create_app |-> "admin", update_app |-> "admin",
   delete_app |-> "admin"]

AlarmToStorageTools ==
  [list_alarms |-> "viewer", suppress_alarm |-> "admin", unsuppress_alarm |-> "admin",
   get_clients_summary |-> "viewer", list_clients |-> "viewer", lookup_client |-> "viewer",
   list_storages |-> "viewer", list_storage_objects |-> "viewer",
   register_storage |-> "admin", update_storage |-> "admin", unregister_storage |-> "admin"]

ClusterToMapTools ==
  [list_clusters |-> "operator", get_cluster_health |-> "operator",
   provision_cluster |-> "admin", deprovision_cluster |-> "admin",
   get_valkey_overview |-> "operator", get_valkey_key |-> "operator",
   delete_valkey_key |-> "admin", list_aurora_tables |-> "operator",
   query_aurora |-> "operator", list_maps |-> "operator", get_map |-> "operator"]

GithubToCostTools ==
  [get_github_app |-> "operator", list_github_installations |-> "operator",
   query_logs |-> "operator", get_network_topology |-> "operator", list_users |-> "admin",
   create_user |-> "admin", set_user_role |-> "admin", set_user_enabled |-> "admin",
   delete_user |-> "admin", get_cost_summary |-> "admin"]

LifecycleTools ==
  [launch_microservice |-> "admin", dismiss_launch |-> "operator",
   check_microservice_source |-> "operator", provision_microservice |-> "admin",
   deprovision_microservice |-> "admin", set_log_retention |-> "operator",
   clear_microservice_logs |-> "operator"]

ClusterEditTools ==
  [create_cluster |-> "admin", update_cluster |-> "admin", delete_cluster |-> "admin",
   list_log_groups |-> "operator", list_available_storages |-> "admin",
   reconcile_storages |-> "admin"]

DataTools ==
  [list_aurora_rows |-> "operator", update_aurora_row |-> "admin",
   delete_aurora_row |-> "admin", set_valkey_value |-> "admin", set_valkey_field |-> "admin",
   set_valkey_ttl |-> "admin", get_cost_by_service |-> "admin",
   search_clients_nearby |-> "operator", whoami |-> "viewer"]

TOOLS ==
  ServiceTools @@ ServiceEditTools @@ SensorAndAppTools @@ AlarmToStorageTools
    @@ ClusterToMapTools @@ GithubToCostTools @@ LifecycleTools @@ ClusterEditTools @@ DataTools

toolsForRole(role) == {t \in DOMAIN TOOLS : AtLeast(role, TOOLS[t])}

-----------------------------------------------------------------------------
(* The admin API calls a tool makes of its arguments, in order.            *)
Vpc(verb, path, always, maybe) == <<Call("vpc", verb, path, always, maybe)>>

Api(verb, path, always, maybe) == <<Call("api", verb, path, always, maybe)>>

Get(path) == Vpc("GET", path, {}, {})

Post(path) == Vpc("POST", path, {}, {})

\* The fields of the answer to a started log query.
LogQueryStarted == {"query_id", "groups", "limit", "started_at"}

\* A field of an answer as a part of the next path: one the answer does not
\* have is spelled out as JavaScript spells what is not there.
enc(answer, field) == IF field \in answer THEN ":" ELSE "undefined"

ServiceCalls ==
  [get_system_info |-> Api("GET", <<"system", "info">>, {}, {}),
   list_microservices |-> Get(<<"microservices">>),
   get_microservice_status |-> Get(<<"microservices", ":", "status">>),
   get_microservice_events |-> Vpc("GET", <<"microservices", ":", "events">>, {"?limit"}, {}),
   get_microservice_logs |->
     Vpc("GET", <<"microservices", ":", "logs">>, {"?source", "?limit"}, {}),
   get_microservice_metrics |-> Get(<<"microservices", ":", "metrics">>),
   list_microservice_images |-> Get(<<"microservices", ":", "images">>),
   list_microservice_builds |-> Vpc("GET", <<"microservices", ":", "builds">>, {"?limit"}, {}),
   create_microservice |->
     Vpc("POST", <<"microservices">>,
         {"name", "installation_id", "repo_full_name", "cluster_name", "branch",
          "dockerfile_path", "cpu", "memory"},
         {"display_name", "build_context", "desired_count", "container_port"}),
   update_microservice |->
     Vpc("PATCH", <<"microservices", ":">>, {},
         {"display_name", "cpu", "memory", "desired_count", "container_port", "auto_deploy",
          "scaling"} \union SourceFields),
   build_microservice |-> Post(<<"microservices", ":", "build">>),
   stop_build |-> Post(<<"microservices", ":", "build", "stop">>),
   deploy_microservice |-> Post(<<"microservices", ":", "deploy">>),
   restart_microservice |-> Post(<<"microservices", ":", "restart">>),
   rollback_microservice |->
     Vpc("POST", <<"microservices", ":", "rollback">>, {"image_tag"}, {}),
   delete_microservice |->
     Vpc("DELETE", <<"microservices", ":">>, {"?delete_images", "?delete_logs"}, {})]

SensorAndAppCalls ==
  [list_sensors |-> Get(<<"sensors">>),
   create_sensor |-> Vpc("POST", <<"sensors">>, {"name"}, {"display_name"} \union Ingest),
   set_sensor_enabled |-> Vpc("POST", <<"sensors", ":", "enabled">>, {"enabled"}, {}),
   update_sensor_ingest |-> Vpc("POST", <<"sensors", ":", "ingest">>, {}, Ingest),
   delete_sensor |-> Vpc("DELETE", <<"sensors", ":">>, {}, {}),
   reconcile_sensors |-> Post(<<"sensors", "reconcile">>),
   list_apps |-> Get(<<"apps">>),
   create_app |-> Vpc("POST", <<"apps">>, {"app_id", "display_name"}, Streams),
   update_app |-> Vpc("PATCH", <<"apps", ":">>, {}, {"display_name"} \union Streams),
   delete_app |-> Vpc("DELETE", <<"apps", ":">>, {}, {})]

AlarmToStorageCalls ==
  [list_alarms |-> Vpc("GET", <<"alarms">>, {}, {"?state", "?prefix"}),
   suppress_alarm |-> Post(<<"alarms", ":", "suppress">>),
   unsuppress_alarm |-> Post(<<"alarms", ":", "unsuppress">>),
   get_clients_summary |-> Get(<<"clients", "summary">>),
   list_clients |-> Vpc("GET", <<"clients", "sample">>, {"?limit"}, {"?app_id"}),
   lookup_client |-> Vpc("GET", <<"clients", "lookup">>, {"?app_id", "?client_id"}, {}),
   list_storages |-> Get(<<"storages">>),
   list_storage_objects |->
     Vpc("GET", <<"storages", ":", "objects">>, {"?limit"}, {"?prefix"}),
   register_storage |->
     Vpc("POST", <<"storages">>, {"bucket", "display_name"}, {"create", "cost_tracked"}),
   update_storage |->
     Vpc("PATCH", <<"storages", ":">>, {}, {"display_name", "cost_tracked"}),
   unregister_storage |-> Vpc("DELETE", <<"storages", ":">>, {}, {})]

ClusterToMapCalls ==
  [list_clusters |-> Get(<<"clusters">>),
   get_cluster_health |-> Get(<<"clusters", ":", "health">>),
   provision_cluster |-> Post(<<"clusters", ":", "provision">>),
   deprovision_cluster |-> Post(<<"clusters", ":", "deprovision">>),
   get_valkey_overview |-> Get(<<"db", "valkey", "overview">>),
   get_valkey_key |-> Vpc("GET", <<"db", "valkey", "key">>, {"?key"}, {}),
   delete_valkey_key |-> Vpc("DELETE", <<"db", "valkey", "key">>, {"?key"}, {}),
   list_aurora_tables |-> Get(<<"db", "aurora", "tables">>),
   query_aurora |-> Vpc("POST", <<"db", "aurora", "query">>, {"sql", "limit"}, {}),
   list_maps |-> Get(<<"maps">>),
   get_map |-> Get(<<"maps", ":">>)]

GithubToCostCalls ==
  [get_github_app |-> Get(<<"github", "app">>),
   list_github_installations |-> Get(<<"github", "installations">>),
   query_logs |->
     Api("POST", <<"logs", "query">>, {"groups", "query", "limit"}, {"start", "end"})
       \o Api("GET", <<"logs", "query", enc(LogQueryStarted, "queryId")>>, {}, {}),
   get_network_topology |-> Api("GET", <<"network", "topology">>, {}, {}),
   list_users |-> Api("GET", <<"users">>, {}, {}),
   create_user |->
     Api("POST", <<"users">>, {"username", "email", "role", "temporary_password"}, {}),
   set_user_role |-> Api("POST", <<"users", ":", "role">>, {"role"}, {}),
   set_user_enabled |-> Api("POST", <<"users", ":", "enabled">>, {"enabled"}, {}),
   delete_user |-> Api("DELETE", <<"users", ":">>, {}, {}),
   get_cost_summary |-> Api("GET", <<"cost", "summary">>, {}, {"?start", "?end"})]

LifecycleCalls ==
  [launch_microservice |-> Post(<<"microservices", ":", "launch">>),
   dismiss_launch |-> Post(<<"microservices", ":", "launch", "dismiss">>),
   check_microservice_source |-> Post(<<"microservices", ":", "check">>),
   provision_microservice |-> Post(<<"microservices", ":", "provision">>),
   deprovision_microservice |->
     Vpc("POST", <<"microservices", ":", "deprovision">>, {"?delete_images", "?delete_logs"}, {}),
   set_log_retention |-> Vpc("PUT", <<"microservices", ":", "logs", "retention">>, {"days"}, {}),
   clear_microservice_logs |->
     Vpc("POST", <<"microservices", ":", "logs", "clear">>, {"source"}, {})]

ClusterEditCalls ==
  [create_cluster |->
     Vpc("POST", <<"clusters">>, {"name", "capacity_type"},
         {"display_name", "instance_type", "scaling_mode", "min_instances", "max_instances",
          "target_capacity", "gpu_mode"}),
   update_cluster |->
     Vpc("PATCH", <<"clusters", ":">>, {},
         {"display_name", "instance_type", "scaling_mode", "min_instances", "max_instances",
          "target_capacity", "gpu_mode"}),
   delete_cluster |-> Vpc("DELETE", <<"clusters", ":">>, {}, {}),
   list_log_groups |-> Api("GET", <<"logs", "groups">>, {}, {}),
   list_available_storages |-> Get(<<"storages", "available">>),
   reconcile_storages |-> Post(<<"storages", "reconcile">>)]

DataCalls ==
  [list_aurora_rows |->
     Vpc("GET", <<"db", "aurora", "tables", ":", "rows">>, {"?limit"}, {"?cursor"}),
   update_aurora_row |->
     Vpc("PATCH", <<"db", "aurora", "tables", ":", "rows", ":">>, {"a column"}, {}),
   delete_aurora_row |-> Vpc("DELETE", <<"db", "aurora", "tables", ":", "rows", ":">>, {}, {}),
   set_valkey_value |->
     Vpc("POST", <<"db", "valkey", "key", "value">>, {"key", "value", "ttl_seconds"}, {}),
   set_valkey_field |->
     Vpc("POST", <<"db", "valkey", "key", "field">>, {"key", "field", "value"}, {}),
   set_valkey_ttl |->
     Vpc("POST", <<"db", "valkey", "key", "ttl">>, {"key", "ttl_seconds"}, {}),
   get_cost_by_service |-> Api("GET", <<"cost", "service">>, {}, {"?start", "?end"}),
   search_clients_nearby |->
     Vpc("GET", <<"clients", "search">>, {"?lat", "?lon", "?radius_m", "?limit"}, {"?app_id"}),
   whoami |-> <<>>]

executeTool ==
  ServiceCalls @@ SensorAndAppCalls @@ AlarmToStorageCalls @@ ClusterToMapCalls
    @@ GithubToCostCalls @@ LifecycleCalls @@ ClusterEditCalls @@ DataCalls

-----------------------------------------------------------------------------
(* The rows.  A token dies when it is revoked or its time is up.           *)
NoName == "unnamed"

NoRow == [role |-> NoRole, name |-> NoName, made |-> 0, expires |-> 0, revoked |-> 0]

NoAnswer == [verdict |-> NoRole, until |-> 0]

IdleMcp == [pc |-> "idle", token |-> NoRole, role |-> NoRole, since |-> 0,
            tool |-> "", full |-> FALSE]

\* A clock that starts at 1, so that 0 is a column that is null.
McpInit ==
  /\ tokens = [k \in Secrets |-> NoRow]
  /\ cached = [k \in Secrets |-> NoAnswer]
  /\ mreq = [r \in McpReqs |-> IdleMcp]
  /\ mnow = 1
  /\ authFailed = [k \in Secrets |-> 0]

Issued == {k \in Secrets : tokens[k] # NoRow}

Unrevoked == {k \in Issued : tokens[k].revoked = 0}

Expired(k) == tokens[k].expires # 0 /\ tokens[k].expires <= mnow

\* Someone with this role issues a token, no higher than their own; a name is
\* one unrevoked row's at most.
createMcpToken(k, name, issuer, role, lifetime) ==
  /\ k \notin Issued
  /\ AtLeast(issuer, "operator")
  /\ Rank[role] >= Rank[issuer]
  /\ \A j \in Unrevoked : tokens[j].name # name
  /\ tokens' = [tokens EXCEPT ![k] =
       [role |-> role, name |-> name, made |-> mnow, revoked |-> 0,
        expires |-> IF lifetime = 0 THEN 0 ELSE mnow + lifetime]]
  /\ UNCHANGED <<cached, mreq, mnow, authFailed>>

\* One UPDATE, of the row that has the name and is not revoked.
revokeMcpToken(name) ==
  /\ \E k \in Unrevoked : tokens[k].name = name
  /\ tokens' = [k \in Secrets |->
       IF k \in Unrevoked /\ tokens[k].name = name THEN [tokens[k] EXCEPT !.revoked = mnow]
       ELSE tokens[k]]
  /\ UNCHANGED <<cached, mreq, mnow, authFailed>>

\* What the authorizer makes of a token; it denies with no role.
verifyMcpToken(k) == IF k \in Unrevoked /\ ~Expired(k) THEN tokens[k].role ELSE NoRole

-----------------------------------------------------------------------------
(* A request.  The gateway uses the answer it keeps for the token, or      *)
(* starts the authorizer.                                                  *)
Kept(k) == cached[k].until > mnow

Admit(r, role) ==
  mreq' = [mreq EXCEPT ![r] = [@ EXCEPT !.pc = IF role = NoRole THEN "denied" ELSE "running",
                                        !.role = role, !.since = mnow]]

Present(r, k) ==
  /\ mreq[r].pc = "idle" /\ k \in Issued
  /\ mreq' = [mreq EXCEPT ![r] =
       [IdleMcp EXCEPT !.token = k, !.since = mnow,
                       !.role = IF Kept(k) THEN cached[k].verdict ELSE NoRole,
                       !.pc = IF ~Kept(k) THEN "authorizing"
                              ELSE IF cached[k].verdict = NoRole THEN "denied" ELSE "running"]]
  /\ UNCHANGED <<tokens, cached, mnow, authFailed>>

\* The authorizer reads the row; a database that fails is a denial.
AuthorizerReads(r) ==
  /\ mreq[r].pc = "authorizing"
  /\ mreq' = [mreq EXCEPT ![r].pc = "verified", ![r].role = verifyMcpToken(mreq[r].token)]
  /\ UNCHANGED <<tokens, cached, mnow, authFailed>>

AuthorizerFails(r) ==
  /\ mreq[r].pc = "authorizing"
  /\ Cardinality({k \in Secrets : authFailed[k] # 0}) < DatabaseFaults
  /\ mreq' = [mreq EXCEPT ![r].pc = "verified"]
  /\ authFailed' = [authFailed EXCEPT ![mreq[r].token] = mnow]
  /\ UNCHANGED <<tokens, cached, mnow>>

\* The gateway keeps the answer, a denial too.
Authorized(r) ==
  /\ mreq[r].pc = "verified"
  /\ cached' = [cached EXCEPT ![mreq[r].token] =
       [verdict |-> mreq[r].role, until |-> mnow + CacheTtl]]
  /\ Admit(r, mreq[r].role)
  /\ UNCHANGED <<tokens, mnow, authFailed>>

\* The authorizer ran out of its time: the request fails, nothing is kept.
AuthorizerTimesOut(r) ==
  /\ mreq[r].pc \in {"authorizing", "verified"}
  /\ mnow >= mreq[r].since + AuthTime
  /\ mreq' = [mreq EXCEPT ![r] = IdleMcp]
  /\ UNCHANGED <<tokens, cached, mnow, authFailed>>

\* One tools/call of a request, which may hold several: only a tool that is
\* listed for the role, with no optional argument or with all of them.
CallTool(r, tool, full) ==
  /\ mreq[r].pc = "running"
  /\ tool \in toolsForRole(mreq[r].role)
  /\ mreq' = [mreq EXCEPT ![r].tool = tool, ![r].full = full]
  /\ UNCHANGED <<tokens, cached, mnow, authFailed>>

Reply(r) ==
  /\ mreq[r].pc \in {"running", "denied"}
  /\ mreq' = [mreq EXCEPT ![r] = IdleMcp]
  /\ UNCHANGED <<tokens, cached, mnow, authFailed>>

\* Neither function outlives its timeout, and a denial is answered at once.
McpTick ==
  /\ mnow < Clock
  /\ \A r \in McpReqs :
       /\ mreq[r].pc # "denied"
       /\ mreq[r].pc \in {"authorizing", "verified"} => mnow < mreq[r].since + AuthTime
       /\ mreq[r].pc = "running" => mnow < mreq[r].since + RunTime
  /\ mnow' = mnow + 1
  /\ UNCHANGED <<tokens, cached, mreq, authFailed>>

TokensAndTime ==
  \/ \E k \in Secrets, name \in TokenNames, issuer, role \in Roles, l \in Lifetimes :
       createMcpToken(k, name, issuer, role, l)
  \/ \E name \in TokenNames : revokeMcpToken(name)
  \/ \E r \in McpReqs, k \in Secrets : Present(r, k)
  \/ \E r \in McpReqs : \/ AuthorizerReads(r) \/ AuthorizerFails(r) \/ Authorized(r)
                        \/ AuthorizerTimesOut(r) \/ Reply(r)
  \/ McpTick

ToolCalls ==
  \E r \in McpReqs, tool \in DOMAIN TOOLS, full \in BOOLEAN : CallTool(r, tool, full)

McpNext == TokensAndTime \/ ToolCalls

McpSpec == McpInit /\ [][McpNext]_mcpVars

-----------------------------------------------------------------------------
(* Properties                                                              *)

\* Every variable holds a value of its kind.
McpTypeOK ==
  /\ tokens \in [Secrets -> [role : Roles \union {NoRole}, name : TokenNames \union {NoName},
                          made : 0..Clock, expires : Nat, revoked : 0..Clock]]
  /\ cached \in [Secrets -> [verdict : Roles \union {NoRole}, until : 0..(Clock + CacheTtl)]]
  /\ mreq \in [McpReqs -> [pc : {"idle", "authorizing", "verified", "running", "denied"},
                           token : Secrets \union {NoRole}, role : Roles \union {NoRole},
                           since : 0..Clock, tool : DOMAIN TOOLS \union {""}, full : BOOLEAN]]
  /\ mnow \in 1..Clock
  /\ authFailed \in [Secrets -> 0..Clock]

\* When a token died: revoked or expired, whichever came first; 0 while it lives.
Died(k) ==
  IF tokens[k].revoked # 0 /\ (tokens[k].expires = 0 \/ tokens[k].revoked <= tokens[k].expires)
  THEN tokens[k].revoked
  ELSE IF Expired(k) THEN tokens[k].expires ELSE 0

\* A token that was revoked or has expired runs nothing once the authorizer's,
\* the cache's and the function's times have all passed, whatever requests were
\* under way and whichever of two authorizers answered last.
DeadTokensStop ==
  \A r \in McpReqs : LET k == mreq[r].token IN
    mreq[r].pc = "running" /\ Died(k) # 0 => mnow <= Died(k) + AuthTime + CacheTtl + RunTime

\* A live token is turned away only on account of a database failure, and for
\* no longer than the denial it caused is kept.
LiveTokensServed ==
  \A r \in McpReqs : LET k == mreq[r].token IN
    mreq[r].pc = "denied" /\ Died(k) = 0 =>
      authFailed[k] # 0 /\ mnow <= authFailed[k] + AuthTime + CacheTtl

\* The lives of two tokens of one name do not overlap, so a name says which
\* token did what; a later revocation of the name leaves the old rows' dates.
LivesDoNotOverlap ==
  \A j, k \in Issued : j # k /\ tokens[j].name = tokens[k].name =>
    \/ tokens[j].revoked # 0 /\ tokens[j].revoked <= tokens[k].made
    \/ tokens[k].revoked # 0 /\ tokens[k].revoked <= tokens[j].made

\* Every admin API call of a tool is taken by a route, with every field read and
\* every part of its path known.  What the route's handler then makes of it is
\* left to the modules of the components.
Works(role, tool, full) ==
  \A i \in DOMAIN executeTool[tool] : LET call == executeTool[tool][i] IN
    /\ \A j \in DOMAIN call.path : call.path[j] # "undefined"
    /\ StatusOf(resolveRole({role}), call, Sent(call, full)) = 200
    /\ Ignored(call, Sent(call, full)) = {}

\* Listed for a role its route refuses.
ListedTooLow == {"list_microservices", "list_alarms"}

\* Sends other fields than its route asks for, or leaves one out that it calls
\* optional.
WrongFields ==
  {"set_log_retention", "set_valkey_ttl", "update_aurora_row", "create_cluster",
   "update_cluster", "get_cost_by_service", "register_storage", "list_clients",
   "search_clients_nearby"}

\* Sends something its route takes no notice of.
PartlyIgnored == {"clear_microservice_logs", "deprovision_microservice", "create_microservice"}

\* Looks in an answer for a field by another name than the route gives it, so
\* that what it started is never found again.
MisreadAnswer == {"query_logs"}

\* How a listed tool does: its calls are taken, but for those four sets.
Answered(role, tool, full) ==
  \/ tool \in ListedTooLow /\ role = "viewer"
  \/ tool \in WrongFields \union PartlyIgnored \union MisreadAnswer
  \/ Works(role, tool, full)

\* The table of the tools against the table of the routes.  No constant occurs
\* in it: TLC settles it by evaluating it.
ASSUME ToolTable ==
  \A role \in Roles, full \in BOOLEAN : \A tool \in toolsForRole(role) :
    Answered(role, tool, full)

\* The calls of a tool are taken by the routes with the role it was called with,
\* whole and addressed to what an earlier call named, but for those four sets:
\* the tools, the routes, the roles and the answers agree.
ListedToolsWork ==
  \A r \in McpReqs : mreq[r].pc = "running" /\ mreq[r].tool # "" =>
    Answered(mreq[r].role, mreq[r].tool, mreq[r].full)

McpSafety ==
  /\ McpTypeOK /\ DeadTokensStop /\ LiveTokensServed /\ LivesDoNotOverlap /\ ListedToolsWork
=============================================================================
