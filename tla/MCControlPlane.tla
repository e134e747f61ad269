---------------------------- MODULE MCControlPlane ----------------------------
(***************************************************************************)
(* For TLC: what administrators change, and what is read of it.  The       *)
(* configuration the SPaT consumers cache (ConfigTiers), the clusters      *)
(* (ClusterCapacity), the GitHub App (GithubConnection), the row editor    *)
(* (RowBrowser), and who may ask for it: the MCP tokens (McpAccess) and    *)
(* the console's accounts (ConsoleAccess).  A behaviour runs one of them,  *)
(* `part`; the others stay as they start.                                  *)
(***************************************************************************)
EXTENDS ConfigTiers, ClusterCapacity, GithubConnection, RowBrowser, McpAccess, ConsoleAccess

VARIABLE part

controlVars ==
  <<part, tierVars, clusterVars, githubVars, browserVars, mcpVars, consoleVars>>

\* A GPU cluster of fixed size, CPU clusters that scale, of both kinds, and a
\* form that asks a CPU instance for a GPU.
ClusterForms ==
  {[type |-> "ec2", kind |-> "gpu", mode |-> "fixed", gpus |-> 1],
   [type |-> "ec2", kind |-> "cpu", mode |-> "auto", gpus |-> 0],
   [type |-> "ec2", kind |-> "cpu", mode |-> "auto", gpus |-> 1],
   [type |-> "fargate", kind |-> "cpu", mode |-> "auto", gpus |-> 0]}

\* Two containers differ in nothing but their names.
AnyContainer == Permutations(Containers)

ControlInit ==
  /\ part \in {"tiers", "clusters", "github", "rows", "tokens", "accounts"}
  /\ TiersInit /\ ClusterInit /\ GithubInit /\ BrowserInit /\ McpInit /\ ConsoleInit
  /\ db = [t \in Tables |-> IF t = "apps" THEN RowKeys ELSE {2}]
  /\ part = "rows" \/ opened = "apps"

-----------------------------------------------------------------------------
(* Requests on an EC2 cluster that scales overlap; on any, one of them     *)
(* meets a failure, a kill or an edit of the row.                          *)
Overlapping == Cardinality({q \in Requests : req[q].pc # "idle"}) > 1

Disturbed == ClusterFaults + ClusterKills + ClusterEdits - left.faults - left.kills - left.edits

ClusterPart ==
  /\ ClusterNext
  /\ Overlapping' => Disturbed' = 0 /\ row'.there /\ row'.spec.type = "ec2"
                       /\ row'.spec.mode = "auto"
  /\ Disturbed' <= 1

(* Requests of the GitHub connection overlap, or one of them is killed or  *)
(* the transport's container replaced.                                     *)
GithubPart ==
  /\ GithubNext
  /\ \/ gleft'.kills = GithubKills /\ gleft'.recycles = Recycles
     \/ /\ gleft'.kills + gleft'.recycles = GithubKills + Recycles - 1
        /\ gleft'.alone

(* A read fails or another writer is at work, not both, and a behaviour    *)
(* ends with the first reply that comes late.                              *)
BrowserPart == ~crossed /\ BrowserNext /\ meddled' + broken' <= 1

(* A tool is called of the token a request has, alone and at the start;    *)
(* two tokens, or a second request, go without tools.                      *)
McpBusy == {r \in McpReqs : mreq[r] # IdleMcp}

McpPart ==
  \/ /\ TokensAndTime
     /\ (\E r \in McpBusy : mreq[r].tool # "") => McpBusy' = {}
     /\ mnow' > 1 => \A k \in Issued' : tokens'[k].role = "viewer"
     /\ Cardinality(Issued') > 1 =>
          /\ \A k \in Issued' : tokens'[k].role = "viewer"
          /\ \A k \in Secrets : cached'[k] = NoAnswer
          /\ McpBusy' = {}
  \/ /\ mnow = 1 /\ Cardinality(McpBusy) = 1 /\ \A r \in McpBusy : mreq[r].tool = ""
     /\ ToolCalls

(* People look round the console while nothing has gone wrong, one at a    *)
(* time; after that the admins alone are on it, for the Users page.  Two   *)
(* requests overlap when nothing else is amiss.                            *)
NoRequest == \A r \in UserReqs : ureq[r].pc = "idle"

Calm == cnow = 1 /\ NoRequest /\ mixed = {} /\ cleft.faults = CognitoFaults

Alone(u) == \A v \in Users \ {u} : tab[v] = SignedOut

Touring == \E u \in Users : tab[u].page \notin {"login", "overview", "users"}

Look(u) ==
  \/ IsAdmin(u) /\ SignIn(u)
  \/ ~Touring /\ currentSession(u)
  \/ restore(u) /\ (Alone(u) \/ tab'[u].page # tab[u].page)
  \/ tab[u].page = "overview" /\ tab[u].me = "admin" /\ IsAdmin(u) /\ Visit(u, "users")
  \/ /\ Alone(u)
     /\ \/ signOut(u)
        \/ Calm /\ (SignIn(u) \/ \E page \in DOMAIN Pages : Visit(u, page))

ConsolePart ==
  /\ \/ NoRequest /\ \E u \in Users : Look(u)
     \/ ~Touring /\ (UserManagement \/ ConsoleTick)
  /\ Cardinality({r \in UserReqs : ureq'[r].pc # "idle"}) > 1 =>
       /\ cleft'.faults = CognitoFaults /\ cnow = 1
       /\ \A r \in UserReqs :
            ureq'[r].role # "viewer" /\ ureq'[r].op \notin {"enable", "disable"}
  /\ (CognitoFaults - cleft'.faults) + (Deployments - cleft'.deployments) + (cnow' - 1) <= 1

ControlNext ==
  /\ UNCHANGED part
  /\ \/ /\ part = "tiers" /\ TiersNext
        /\ UNCHANGED <<clusterVars, githubVars, browserVars, mcpVars, consoleVars>>
     \/ /\ part = "clusters" /\ ClusterPart
        /\ UNCHANGED <<tierVars, githubVars, browserVars, mcpVars, consoleVars>>
     \/ /\ part = "github" /\ GithubPart
        /\ UNCHANGED <<tierVars, clusterVars, browserVars, mcpVars, consoleVars>>
     \/ /\ part = "rows" /\ BrowserPart
        /\ UNCHANGED <<tierVars, clusterVars, githubVars, mcpVars, consoleVars>>
     \/ /\ part = "tokens" /\ McpPart
        /\ UNCHANGED <<tierVars, clusterVars, githubVars, browserVars, consoleVars>>
     \/ /\ part = "accounts" /\ ConsolePart
        /\ UNCHANGED <<tierVars, clusterVars, githubVars, browserVars, mcpVars>>

ControlSpec == ControlInit /\ [][ControlNext]_controlVars

-----------------------------------------------------------------------------
\* Who may do what, to the end: the tokens' and the accounts' safety, and that
\* the last admin is taken only by someone who is none any more.
AccessSafety ==
  /\ []((part = "tokens" => McpSafety) /\ (part = "accounts" => ConsoleSafety))
  /\ [][LastAdminTaken]_consoleVars
=============================================================================
