------------------------------- MODULE AdminApi -------------------------------
(***************************************************************************)
(* How the admin API answers a request: which of the two Lambda functions  *)
(* the gateway gives it to, which route of that function's router takes    *)
(* it, and whether the caller's role and the fields sent are enough.  It   *)
(* has no state; McpAccess and ConsoleAccess are the two clients.          *)
(*                                                                         *)
(* A path is the sequence of its segments after /v1/admin, ":" standing    *)
(* for a captured one.  A field is its name; a query parameter's name      *)
(* starts with a question mark.  What a handler does once it is reached is *)
(* the other modules' subject.                                             *)
(***************************************************************************)
EXTENDS Naturals, Sequences

Roles == {"admin", "operator", "viewer"}

Rank == [admin |-> 1, operator |-> 2, viewer |-> 3]

AtLeast(role, required) == Rank[role] <= Rank[required]

NoRole == "none"

\* The most privileged console role among a caller's groups.
resolveRole(groups) ==
  IF groups \cap Roles = {} THEN NoRole
  ELSE CHOOSE r \in groups \cap Roles : \A s \in groups \cap Roles : Rank[r] <= Rank[s]

-----------------------------------------------------------------------------
(* A route: its method and path, the least role it takes, the fields a     *)
(* request must carry and those it may; `either` is a set of which one     *)
(* must be there.                                                          *)
Route(verb, path, floor, needs, may) ==
  [verb |-> verb, path |-> path, floor |-> floor, needs |-> needs, may |-> may, either |-> {}]

SourceFields == {"branch", "dockerfile_path", "build_context"}

RuntimeFields == {"desired_count", "cpu", "memory", "container_port", "gpu_vram_mb", "scaling"}

Streams == {"receive_sdsm", "receive_spat", "receive_critical_spat"}

Ingest == {"stream_enabled", "archive_enabled", "storage_bucket", "storage_prefix"}

Period == {"?start", "?end", "?refresh"}

ClientRoutes == <<
  Route("GET", <<"clients", "summary">>, "viewer", {}, {}),
  Route("GET", <<"clients", "search">>, "viewer", {"?app_id", "?lat", "?lon"},
        {"?radius_m", "?limit"}),
  Route("GET", <<"clients", "sample">>, "viewer", {"?app_id"}, {"?cursor", "?limit"}),
  Route("GET", <<"clients", "lookup">>, "viewer", {"?app_id", "?client_id"}, {}) >>

ClusterRoutes == <<
  Route("GET", <<"clusters">>, "operator", {}, {}),
  Route("GET", <<"clusters", "instance-types">>, "operator", {}, {}),
  Route("GET", <<"clusters", ":", "health">>, "operator", {}, {}),
  Route("POST", <<"clusters", ":", "provision">>, "admin", {}, {}),
  Route("POST", <<"clusters", ":", "deprovision">>, "admin", {}, {}),
  Route("POST", <<"clusters">>, "admin", {"name", "capacity"}, {"display_name"}),
  Route("PATCH", <<"clusters", ":">>, "admin", {"capacity"}, {"display_name"}),
  Route("DELETE", <<"clusters", ":">>, "admin", {}, {}) >>

AuroraRoutes == <<
  Route("GET", <<"db", "aurora", "tables">>, "operator", {}, {}),
  Route("GET", <<"db", "aurora", "tables", ":", "rows">>, "operator", {}, {"?cursor", "?limit"}),
  Route("POST", <<"db", "aurora", "query">>, "operator", {"sql"}, {"limit"}),
  Route("DELETE", <<"db", "aurora", "tables", ":", "rows", ":">>, "admin", {}, {}),
  Route("PATCH", <<"db", "aurora", "tables", ":", "rows", ":">>, "admin", {"changes"}, {}) >>

ValkeyRoutes == <<
  Route("GET", <<"db", "valkey", "overview">>, "operator", {}, {}),
  Route("GET", <<"db", "valkey", "key">>, "operator", {"?key"}, {}),
  Route("POST", <<"db", "valkey", "key", "value">>, "admin", {"key", "value"}, {"ttl_seconds"}),
  Route("POST", <<"db", "valkey", "key", "field">>, "admin", {"key", "field", "value"}, {}),
  Route("POST", <<"db", "valkey", "key", "ttl">>, "admin", {"key", "seconds"}, {}),
  Route("DELETE", <<"db", "valkey", "key">>, "admin", {"?key"}, {}) >>

MapRoutes == <<
  Route("GET", <<"maps">>, "operator", {}, {}),
  Route("GET", <<"maps", ":">>, "operator", {}, {}) >>

SensorRoutes == <<
  Route("GET", <<"sensors">>, "viewer", {}, {}),
  Route("POST", <<"sensors">>, "admin", {"name"}, {"display_name"} \union Ingest),
  Route("POST", <<"sensors", ":", "enabled">>, "admin", {"enabled"}, {}),
  Route("POST", <<"sensors", ":", "ingest">>, "admin", {}, Ingest),
  Route("DELETE", <<"sensors", ":">>, "admin", {}, {}),
  Route("POST", <<"sensors", "reconcile">>, "admin", {}, {}) >>

AppRoutes == <<
  Route("GET", <<"apps">>, "viewer", {}, {}),
  Route("POST", <<"apps">>, "admin", {"app_id"}, {"display_name"} \union Streams),
  Route("PATCH", <<"apps", ":">>, "admin", {}, {"display_name"} \union Streams),
  Route("DELETE", <<"apps", ":">>, "admin", {}, {}) >>

StorageRoutes == <<
  Route("GET", <<"storages">>, "viewer", {}, {}),
  Route("GET", <<"storages", "available">>, "admin", {}, {}),
  Route("POST", <<"storages", "reconcile">>, "admin", {}, {}),
  Route("POST", <<"storages">>, "admin", {"bucket", "create"}, {"display_name", "cost_tracked"}),
  Route("PATCH", <<"storages", ":">>, "admin", {}, {"display_name", "cost_tracked"}),
  Route("DELETE", <<"storages", ":">>, "admin", {}, {}),
  Route("GET", <<"storages", ":", "objects">>, "viewer", {}, {"?prefix", "?cursor", "?limit"}) >>

GithubRoutes == <<
  Route("GET", <<"github", "app">>, "operator", {}, {}),
  Route("POST", <<"github", "app">>, "admin", {"app_id", "private_key"}, {"webhook_secret"}),
  Route("POST", <<"github", "app", "manifest-intent">>, "admin", {},
        {"organization", "app_name"}),
  Route("POST", <<"github", "app", "from-manifest">>, "admin", {"code", "state"}, {}),
  Route("DELETE", <<"github", "app">>, "admin", {}, {}),
  Route("POST", <<"github", "install-intent">>, "admin", {}, {}),
  Route("GET", <<"github", "installations">>, "operator", {}, {}),
  Route("POST", <<"github", "installations">>, "admin", {"installation_id", "state"}, {}),
  Route("GET", <<"github", "installations", ":", "repositories">>, "operator", {}, {}),
  Route("DELETE", <<"github", "installations", ":">>, "admin", {}, {"?revoke"}) >>

ServiceRoutes == <<
  Route("GET", <<"microservices">>, "operator", {}, {}),
  [Route("POST", <<"microservices">>, "admin", {"name", "installation_id"},
         {"display_name", "compute", "launch"} \union SourceFields \union RuntimeFields)
     EXCEPT !.either = {"repo_id", "repo_full_name"}],
  Route("POST", <<"microservices", ":", "check">>, "operator", {}, {}),
  Route("GET", <<"microservices", ":", "status">>, "operator", {}, {}) >>

LifecycleRoutes == <<
  Route("POST", <<"microservices", ":", "provision">>, "admin", {}, {}),
  Route("POST", <<"microservices", ":", "launch">>, "admin", {}, {}),
  Route("POST", <<"microservices", ":", "launch", "dismiss">>, "operator", {}, {}),
  Route("POST", <<"microservices", "github-push">>, "admin",
        {"repo_full_name", "branch", "pusher"}, {"commit_sha", "message", "delivery_id"}),
  Route("GET", <<"microservices", ":", "events">>, "operator", {}, {"?limit"}),
  Route("POST", <<"microservices", ":", "build">>, "admin", {}, {}),
  Route("POST", <<"microservices", ":", "build", "stop">>, "admin", {}, {}),
  Route("POST", <<"microservices", ":", "deploy">>, "admin", {}, {}),
  Route("POST", <<"microservices", ":", "restart">>, "operator", {}, {}),
  Route("POST", <<"microservices", ":", "deprovision">>, "admin", {},
        {"delete_images", "delete_logs"}) >>

LogAndImageRoutes == <<
  Route("GET", <<"microservices", ":", "logs">>, "operator", {},
        {"?source", "?limit", "?stream"}),
  Route("PUT", <<"microservices", ":", "logs", "retention">>, "operator", {"retention_days"}, {}),
  Route("POST", <<"microservices", ":", "logs", "clear">>, "operator", {}, {"scope"}),
  Route("GET", <<"microservices", ":", "images">>, "operator", {}, {}),
  Route("POST", <<"microservices", ":", "rollback">>, "admin", {"image_tag"}, {}),
  Route("GET", <<"microservices", ":", "builds">>, "operator", {}, {"?limit"}),
  Route("PATCH", <<"microservices", ":">>, "admin", {},
        {"display_name", "repo_id", "repo_full_name", "cluster_name", "auto_deploy"}
          \union SourceFields \union RuntimeFields),
  Route("DELETE", <<"microservices", ":">>, "admin", {}, {"?delete_images", "?delete_logs"}) >>

AlarmRoutes == <<
  Route("GET", <<"alarms">>, "operator", {}, {"?state", "?prefix"}),
  Route("POST", <<"alarms", ":", "suppress">>, "admin", {}, {}),
  Route("POST", <<"alarms", ":", "unsuppress">>, "admin", {}, {}) >>

MetricsRoutes == <<
  Route("GET", <<"microservices", ":", "metrics">>, "operator", {},
        {"?period", "?start", "?end"}) >>

TokenRoutes == <<
  Route("GET", <<"mcp-tokens">>, "operator", {}, {}),
  Route("POST", <<"mcp-tokens">>, "operator", {"name"}, {"role", "expires_in_days"}),
  Route("DELETE", <<"mcp-tokens", ":">>, "operator", {}, {}) >>

CostRoutes == <<
  Route("GET", <<"cost", "summary">>, "admin", {}, Period),
  Route("GET", <<"cost", "service">>, "admin", {"?service"}, Period) >>

IdentityRoutes == << Route("GET", <<"me">>, "viewer", {}, {}) >>

LogRoutes == <<
  Route("GET", <<"logs", "groups">>, "operator", {}, {}),
  Route("POST", <<"logs", "query">>, "operator", {"groups"}, {"query", "start", "end", "limit"}),
  Route("GET", <<"logs", "query", ":">>, "operator", {}, {}),
  Route("DELETE", <<"logs", "query", ":">>, "operator", {}, {}) >>

NetworkRoutes == << Route("GET", <<"network", "topology">>, "operator", {}, {"?refresh"}) >>

SystemRoutes == << Route("GET", <<"system", "info">>, "viewer", {}, {}) >>

UserRoutes == <<
  Route("GET", <<"users">>, "admin", {}, {}),
  Route("POST", <<"users">>, "admin", {"username", "email", "role"}, {"temporary_password"}),
  Route("DELETE", <<"users", ":">>, "admin", {}, {}),
  Route("POST", <<"users", ":", "role">>, "admin", {"role"}, {}),
  Route("POST", <<"users", ":", "enabled">>, "admin", {"enabled"}, {}),
  Route("POST", <<"users", ":", "password">>, "admin", {"password"}, {"temporary"}) >>

-----------------------------------------------------------------------------
(* The two functions, and how a request finds its route in one.            *)
VpcRouter ==
  ClientRoutes \o ClusterRoutes \o AuroraRoutes \o ValkeyRoutes \o MapRoutes \o SensorRoutes
    \o AppRoutes \o StorageRoutes \o GithubRoutes \o ServiceRoutes \o LifecycleRoutes
    \o LogAndImageRoutes \o AlarmRoutes \o MetricsRoutes \o TokenRoutes

ApiRouter ==
  IdentityRoutes \o SystemRoutes \o CostRoutes \o NetworkRoutes \o LogRoutes \o UserRoutes

Router == [vpc |-> VpcRouter, api |-> ApiRouter]

VpcPrefixes ==
  {"alarms", "apps", "clients", "clusters", "db", "github", "maps", "mcp-tokens",
   "microservices", "sensors", "storages"}

\* The function the gateway hands a path to.
Gateway(path) == IF Head(path) \in VpcPrefixes THEN "vpc" ELSE "api"

\* A request: the function it reaches, its method and path, the fields it
\* always carries and those it may.
Call(to, verb, path, always, maybe) ==
  [to |-> to, verb |-> verb, path |-> path, always |-> always, maybe |-> maybe]

Fits(route, path) ==
  /\ Len(route.path) = Len(path)
  /\ \A i \in 1..Len(path) : route.path[i] \in {":", path[i]}

Matching(call) == SelectSeq(Router[call.to], LAMBDA r : Fits(r, call.path))

Taken(call) == SelectSeq(Matching(call), LAMBDA r : r.verb = call.verb)

\* The status a call with these fields gets, up to what its handler does.
StatusOf(role, call, sent) ==
  CASE role = NoRole -> 403
    [] role # NoRole /\ Matching(call) = <<>> -> 404
    [] role # NoRole /\ Matching(call) # <<>> /\ Taken(call) = <<>> -> 405
    [] role # NoRole /\ Taken(call) # <<>> ->
         LET route == Head(Taken(call)) IN
         IF ~AtLeast(role, route.floor) THEN 403
         ELSE IF /\ route.needs \subseteq sent
                 /\ route.either = {} \/ route.either \cap sent # {}
              THEN 200 ELSE 400

\* The fields of a request: those it always carries, or all it may.
Sent(call, full) == call.always \union (IF full THEN call.maybe ELSE {})

\* What of it the route takes no notice of: an unknown field is stripped.
Ignored(call, sent) ==
  IF Taken(call) = <<>> THEN {}
  ELSE LET route == Head(Taken(call)) IN sent \ (route.needs \union route.may \union route.either)
=============================================================================
