----------------------------- MODULE AccessProofs -----------------------------
(***************************************************************************)
(* Who may do what: the tokens of the MCP server (McpAccess) and the       *)
(* accounts of the console (ConsoleAccess), for any number of tokens,      *)
(* users and requests, any times and any failures.                         *)
(***************************************************************************)
EXTENDS MCControlPlane, FiniteSetTheorems, TLAPS

-----------------------------------------------------------------------------
(* THE TOKENS.                                                             *)
(*                                                                         *)
(* A role is believed in three places: what an authorizer has read, the    *)
(* answer the gateway keeps, and the role a server was started with.  Each *)
(* bounds how long before it the token may have died by the time spent in  *)
(* the places before it; a denial is bounded by the failure that caused it *)
(* in the same way.                                                        *)

RowOK(k) ==
  tokens[k] # NoRow =>
    /\ tokens[k].role \in Roles
    /\ tokens[k].made # 0 /\ tokens[k].made <= mnow /\ tokens[k].revoked <= mnow

\* What the gateway keeps: a role no longer than AuthTime + CacheTtl after the
\* token died, a denial no longer after the failure.
AnswerOK(k) ==
  cached[k] # NoAnswer =>
    /\ k \in Issued
    /\ cached[k].until <= mnow + CacheTtl
    /\ cached[k].verdict # NoRole =>
         Died(k) = 0 \/ cached[k].until <= Died(k) + AuthTime + CacheTtl
    /\ cached[k].verdict = NoRole =>
         \/ Died(k) # 0
         \/ authFailed[k] # 0 /\ cached[k].until <= authFailed[k] + AuthTime + CacheTtl

\* A request the authorizer has, before and after it read the row.
Judging(r) ==
  mreq[r].pc \in {"authorizing", "verified"} =>
    /\ mreq[r].token \in Issued /\ mreq[r].tool = ""
    /\ mreq[r].since <= mnow /\ mnow <= mreq[r].since + AuthTime
    /\ mreq[r].pc = "authorizing" => mreq[r].role = NoRole
    /\ mreq[r].role # NoRole =>
         Died(mreq[r].token) = 0 \/ mreq[r].since <= Died(mreq[r].token)
    /\ (mreq[r].pc = "verified" /\ mreq[r].role = NoRole) =>
         \/ Died(mreq[r].token) # 0
         \/ authFailed[mreq[r].token] # 0 /\ mreq[r].since <= authFailed[mreq[r].token]

\* A request the server runs, and one that is turned away.
Serving(r) ==
  mreq[r].pc = "running" =>
    /\ mreq[r].token \in Issued /\ mreq[r].role \in Roles
    /\ mreq[r].since <= mnow /\ mnow <= mreq[r].since + RunTime
    /\ Died(mreq[r].token) = 0 \/ mreq[r].since <= Died(mreq[r].token) + AuthTime + CacheTtl
    /\ mreq[r].tool # "" => mreq[r].tool \in toolsForRole(mreq[r].role)

TurnedAway(r) ==
  mreq[r].pc = "denied" =>
    /\ mreq[r].token \in Issued
    /\ \/ Died(mreq[r].token) # 0
       \/ /\ authFailed[mreq[r].token] # 0
          /\ mnow <= authFailed[mreq[r].token] + AuthTime + CacheTtl

FailuresPast == \A k \in Secrets : authFailed[k] <= mnow

Requested == \A r \in McpReqs : Judging(r) /\ Serving(r) /\ TurnedAway(r)

McpInv ==
  /\ McpTypeOK /\ FailuresPast /\ LivesDoNotOverlap /\ Requested
  /\ \A k \in Secrets : RowOK(k) /\ AnswerOK(k)

-----------------------------------------------------------------------------
(* A death does not move, and one that comes is not in the past.           *)

Forward ==
  /\ mnow \in Nat /\ mnow' \in Nat /\ mnow <= mnow'
  /\ \A k \in Secrets : authFailed'[k] \in Nat /\ authFailed[k] <= authFailed'[k]

Deaths ==
  \A k \in Issued :
    /\ k \in Issued' /\ Died(k) \in Nat /\ Died(k)' \in Nat
    /\ Died(k) # 0 => Died(k)' = Died(k)
    /\ Died(k) = 0 => (Died(k)' = 0 \/ mnow <= Died(k)')

LEMMA McpNaturals ==
  /\ CacheTtl \in Nat /\ AuthTime \in Nat /\ RunTime \in Nat /\ Clock \in Nat /\ Clock > 0
  /\ \A l \in Lifetimes : l \in Nat
BY McpAssumption DEF McpAssumption

\* What a row, an answer and a request are made of.
LEMMA McpFields ==
  ASSUME McpTypeOK
  PROVE  /\ mnow \in Nat /\ mnow # 0 /\ mnow <= Clock
         /\ \A k \in Secrets :
              /\ tokens[k] = [role |-> tokens[k].role, name |-> tokens[k].name,
                              made |-> tokens[k].made, expires |-> tokens[k].expires,
                              revoked |-> tokens[k].revoked]
              /\ tokens[k].role \in Roles \union {NoRole}
              /\ tokens[k].name \in TokenNames \union {NoName}
              /\ tokens[k].made \in 0..Clock /\ tokens[k].expires \in Nat
              /\ tokens[k].revoked \in 0..Clock
              /\ cached[k].verdict \in Roles \union {NoRole} /\ cached[k].until \in Nat
              /\ authFailed[k] \in Nat
              /\ Died(k) \in Nat
         /\ \A r \in McpReqs :
              /\ mreq[r].pc \in {"idle", "authorizing", "verified", "running", "denied"}
              /\ mreq[r].token \in Secrets \union {NoRole}
              /\ mreq[r].role \in Roles \union {NoRole} /\ mreq[r].since \in Nat
<1>1. mnow \in Nat /\ mnow # 0 /\ mnow <= Clock
  <2>1. mnow \in 1..Clock
    BY DEF McpTypeOK
  <2> QED
    BY <2>1, McpNaturals
<1>2. ASSUME NEW k \in Secrets
      PROVE  /\ tokens[k] = [role |-> tokens[k].role, name |-> tokens[k].name,
                             made |-> tokens[k].made, expires |-> tokens[k].expires,
                             revoked |-> tokens[k].revoked]
             /\ tokens[k].role \in Roles \union {NoRole}
             /\ tokens[k].name \in TokenNames \union {NoName}
             /\ tokens[k].made \in 0..Clock /\ tokens[k].expires \in Nat
             /\ tokens[k].revoked \in 0..Clock
             /\ cached[k].verdict \in Roles \union {NoRole}
             /\ cached[k].until \in 0..(Clock + CacheTtl)
             /\ authFailed[k] \in 0..Clock
  <2>1. tokens[k] \in [role : Roles \union {NoRole}, name : TokenNames \union {NoName},
                       made : 0..Clock, expires : Nat, revoked : 0..Clock]
    BY DEF McpTypeOK
  <2>2. cached[k] \in [verdict : Roles \union {NoRole}, until : 0..(Clock + CacheTtl)]
    BY DEF McpTypeOK
  <2>3. authFailed[k] \in 0..Clock
    BY DEF McpTypeOK
  <2> QED
    BY <2>1, <2>2, <2>3
<1>3. ASSUME NEW k \in Secrets
      PROVE  /\ tokens[k].revoked \in Nat /\ tokens[k].expires \in Nat
             /\ cached[k].until \in Nat /\ authFailed[k] \in Nat
  <2>1. /\ tokens[k].revoked \in 0..Clock /\ tokens[k].expires \in Nat
        /\ cached[k].until \in 0..(Clock + CacheTtl) /\ authFailed[k] \in 0..Clock
    BY <1>2
  <2> QED
    BY <2>1, McpNaturals
<1>4. ASSUME NEW k \in Secrets PROVE Died(k) \in Nat
  BY <1>3 DEF Died
<1>5. ASSUME NEW r \in McpReqs
      PROVE  /\ mreq[r].pc \in {"idle", "authorizing", "verified", "running", "denied"}
             /\ mreq[r].token \in Secrets \union {NoRole}
             /\ mreq[r].role \in Roles \union {NoRole} /\ mreq[r].since \in 0..Clock
  BY DEF McpTypeOK
<1>6. ASSUME NEW r \in McpReqs PROVE mreq[r].since \in Nat
  BY <1>5, McpNaturals
<1> QED
  BY <1>1, <1>2, <1>3, <1>4, <1>5, <1>6

LEMMA StillDead ==
  ASSUME McpInv, UNCHANGED <<tokens, mnow>>
  PROVE  Deaths
<1>1. \A k \in Secrets : Died(k)' = Died(k)
  BY DEF Died, Expired
<1> QED
  BY <1>1, McpFields DEF Deaths, Issued, McpInv

LEMMA IssuingKillsNone ==
  ASSUME McpInv, NEW k \in Secrets, NEW name \in TokenNames, NEW issuer \in Roles,
         NEW role \in Roles, NEW l \in Lifetimes, createMcpToken(k, name, issuer, role, l)
  PROVE  Deaths
<1>1. \A j \in Issued : tokens'[j] = tokens[j]
  BY DEF McpInv, McpTypeOK, createMcpToken, Issued
<1>2. mnow' = mnow
  BY DEF createMcpToken
<1>3. \A j \in Issued : Died(j)' = Died(j)
  BY <1>1, <1>2 DEF Died, Expired
<1>4. \A j \in Issued : Died(j) \in Nat
  BY McpFields DEF Issued, McpInv
<1> QED
  BY <1>1, <1>3, <1>4 DEF Deaths, Issued

\* What a revocation does to one row.
LEMMA OneRevoked ==
  ASSUME McpInv, NEW name \in TokenNames, revokeMcpToken(name), NEW k \in Issued
  PROVE  /\ tokens'[k] = IF k \in Unrevoked /\ tokens[k].name = name
                         THEN [tokens[k] EXCEPT !.revoked = mnow] ELSE tokens[k]
         /\ tokens'[k].expires = tokens[k].expires /\ tokens'[k].made = tokens[k].made
         /\ tokens'[k].name = tokens[k].name /\ tokens'[k].role = tokens[k].role
         /\ tokens'[k].revoked = IF tokens[k].revoked = 0 /\ tokens[k].name = name
                                 THEN mnow ELSE tokens[k].revoked
<1>1. tokens'[k] = IF k \in Unrevoked /\ tokens[k].name = name
                   THEN [tokens[k] EXCEPT !.revoked = mnow] ELSE tokens[k]
  BY DEF revokeMcpToken, Issued
<1>2. k \in Secrets /\ (k \in Unrevoked <=> tokens[k].revoked = 0)
  BY DEF Issued, Unrevoked
<1>3. tokens[k] \in [role : Roles \union {NoRole}, name : TokenNames \union {NoName},
                     made : 0..Clock, expires : Nat, revoked : 0..Clock]
  BY <1>2 DEF McpInv, McpTypeOK
<1> QED
  BY <1>1, <1>2, <1>3

LEMMA RevokingKillsNow ==
  ASSUME McpInv, NEW name \in TokenNames, revokeMcpToken(name)
  PROVE  Deaths
<1> SUFFICES ASSUME NEW k \in Issued
             PROVE  /\ k \in Issued' /\ Died(k) \in Nat /\ Died(k)' \in Nat
                    /\ Died(k) # 0 => Died(k)' = Died(k)
                    /\ Died(k) = 0 => (Died(k)' = 0 \/ mnow <= Died(k)')
  BY DEF Deaths
<1>1. /\ k \in Secrets /\ mnow' = mnow /\ mnow \in Nat /\ mnow # 0
      /\ tokens[k].expires \in Nat /\ tokens[k].revoked \in Nat /\ tokens[k].made \in Nat
      /\ tokens[k].made # 0 /\ tokens[k].revoked <= mnow
  <2>1. k \in Secrets /\ mnow' = mnow /\ tokens[k] # NoRow
    BY DEF revokeMcpToken, Issued
  <2>2. /\ mnow \in Nat /\ mnow # 0 /\ tokens[k].expires \in Nat
        /\ tokens[k].made \in 0..Clock /\ tokens[k].revoked \in 0..Clock
    BY <2>1, McpFields DEF McpInv
  <2>3. tokens[k].made # 0 /\ tokens[k].revoked <= mnow
    BY <2>1 DEF McpInv, RowOK
  <2> QED
    BY <2>1, <2>2, <2>3, McpNaturals
<1>2. /\ tokens'[k].expires = tokens[k].expires /\ tokens'[k].made = tokens[k].made
      /\ tokens'[k].revoked = IF tokens[k].revoked = 0 /\ tokens[k].name = name
                              THEN mnow ELSE tokens[k].revoked
  BY OneRevoked
<1>3. k \in Issued'
  BY <1>1, <1>2 DEF Issued, NoRow
<1>4. /\ Died(k) \in Nat /\ Died(k)' \in Nat
      /\ Died(k) # 0 => Died(k)' = Died(k)
      /\ Died(k) = 0 => (Died(k)' = 0 \/ mnow <= Died(k)')
  BY <1>1, <1>2 DEF Died, Expired
<1> QED
  BY <1>3, <1>4

LEMMA TimeKillsNow ==
  ASSUME McpInv, McpTick
  PROVE  Deaths
<1> SUFFICES ASSUME NEW k \in Issued
             PROVE  /\ k \in Issued' /\ Died(k) \in Nat /\ Died(k)' \in Nat
                    /\ Died(k) # 0 => Died(k)' = Died(k)
                    /\ Died(k) = 0 => (Died(k)' = 0 \/ mnow <= Died(k)')
  BY DEF Deaths
<1>1. /\ k \in Secrets /\ mnow' = mnow + 1 /\ mnow \in Nat /\ tokens' = tokens
      /\ tokens[k].expires \in Nat /\ tokens[k].revoked \in Nat /\ tokens[k].revoked <= mnow
  <2>1. k \in Secrets /\ mnow' = mnow + 1 /\ tokens' = tokens /\ tokens[k] # NoRow
    BY DEF McpTick, Issued
  <2>2. mnow \in Nat /\ tokens[k].expires \in Nat /\ tokens[k].revoked \in 0..Clock
    BY <2>1, McpFields DEF McpInv
  <2>3. tokens[k].revoked <= mnow
    BY <2>1 DEF McpInv, RowOK
  <2> QED
    BY <2>1, <2>2, <2>3, McpNaturals
<1> QED
  BY <1>1 DEF Died, Expired, Issued

-----------------------------------------------------------------------------
(* What is cached or under way, and left alone by a step, stays within its *)
(* bounds: the deaths and failures that come are none of the past.         *)

LEMMA AnswerStands ==
  ASSUME McpInv, Forward, Deaths, NEW k \in Secrets, cached'[k] = cached[k]
  PROVE  AnswerOK(k)'
<1>1. /\ cached[k].until \in Nat /\ mnow \in Nat /\ mnow' \in Nat /\ mnow <= mnow'
      /\ authFailed[k] \in Nat /\ authFailed'[k] \in Nat /\ authFailed[k] <= authFailed'[k]
  BY McpFields DEF McpInv, Forward
<1>2. CASE cached[k] = NoAnswer
  BY <1>2 DEF AnswerOK
<1>3. CASE cached[k] # NoAnswer
  <2>1. k \in Issued /\ AnswerOK(k)
    BY <1>3 DEF McpInv, AnswerOK
  <2>2. /\ k \in Issued' /\ Died(k) \in Nat /\ Died(k)' \in Nat
        /\ Died(k) # 0 => Died(k)' = Died(k)
        /\ Died(k) = 0 => (Died(k)' = 0 \/ mnow <= Died(k)')
    BY <2>1 DEF Deaths
  <2>3. cached[k].until <= mnow + CacheTtl
    BY <1>3, <2>1 DEF AnswerOK
  <2>4. ASSUME cached[k].verdict # NoRole
        PROVE  Died(k)' = 0 \/ cached[k].until <= Died(k)' + AuthTime + CacheTtl
    <3>1. Died(k) = 0 \/ cached[k].until <= Died(k) + AuthTime + CacheTtl
      BY <1>3, <2>1, <2>4 DEF AnswerOK
    <3> QED
      BY <1>1, <2>2, <2>3, <3>1, McpNaturals
  <2>5. ASSUME cached[k].verdict = NoRole
        PROVE  \/ Died(k)' # 0
               \/ authFailed'[k] # 0 /\ cached[k].until <= authFailed'[k] + AuthTime + CacheTtl
    <3>1. \/ Died(k) # 0
          \/ authFailed[k] # 0 /\ cached[k].until <= authFailed[k] + AuthTime + CacheTtl
      BY <1>3, <2>1, <2>5 DEF AnswerOK
    <3> QED
      BY <1>1, <2>2, <3>1, McpNaturals
  <2>6. cached[k].until <= mnow' + CacheTtl
    BY <1>1, <2>3, McpNaturals
  <2> QED
    BY <2>2, <2>4, <2>5, <2>6 DEF AnswerOK
<1> QED
  BY <1>2, <1>3

LEMMA RequestStands ==
  ASSUME McpInv, Forward, Deaths, mnow' = mnow \/ McpTick,
         NEW r \in McpReqs, mreq'[r] = mreq[r]
  PROVE  Judging(r)' /\ Serving(r)' /\ TurnedAway(r)'
<1> DEFINE k == mreq[r].token
<1>1. /\ Judging(r) /\ Serving(r) /\ TurnedAway(r)
      /\ mreq[r].since \in Nat /\ mnow \in Nat /\ mnow' \in Nat /\ mnow <= mnow'
  BY McpFields DEF McpInv, Requested, Forward
<1>2. ASSUME k \in Issued
      PROVE  /\ k \in Issued' /\ Died(k) \in Nat /\ Died(k)' \in Nat
             /\ Died(k) # 0 => Died(k)' = Died(k)
             /\ Died(k) = 0 => (Died(k)' = 0 \/ mnow <= Died(k)')
             /\ authFailed[k] \in Nat /\ authFailed'[k] \in Nat
             /\ authFailed[k] <= authFailed'[k]
  BY <1>2, McpFields DEF Deaths, Forward, Issued, McpInv
<1>3. Judging(r)'
  <2>1. CASE mreq[r].pc \notin {"authorizing", "verified"}
    BY <2>1 DEF Judging
  <2>2. CASE mreq[r].pc \in {"authorizing", "verified"}
    <3>1. k \in Issued /\ mreq[r].since <= mnow /\ mnow <= mreq[r].since + AuthTime
      BY <1>1, <2>2 DEF Judging
    <3>2. mnow' <= mreq[r].since + AuthTime
      BY <1>1, <2>2, <3>1, McpNaturals DEF McpTick
    <3>3. (Died(k) = 0 \/ mreq[r].since <= Died(k)) =>
            (Died(k)' = 0 \/ mreq[r].since <= Died(k)')
      BY <1>1, <1>2, <3>1
    <3>4. /\ Died(k) # 0 => Died(k)' # 0
          /\ (authFailed[k] # 0 /\ mreq[r].since <= authFailed[k]) =>
               (authFailed'[k] # 0 /\ mreq[r].since <= authFailed'[k])
      BY <1>1, <1>2, <3>1
    <3>5. mreq[r].since <= mnow'
      BY <1>1, <3>1
    <3> QED
      BY <1>1, <1>2, <2>2, <3>1, <3>2, <3>3, <3>4, <3>5 DEF Judging
  <2> QED
    BY <2>1, <2>2
<1>4. Serving(r)'
  <2>1. CASE mreq[r].pc # "running"
    BY <2>1 DEF Serving
  <2>2. CASE mreq[r].pc = "running"
    <3>1. k \in Issued /\ mreq[r].since <= mnow /\ mnow <= mreq[r].since + RunTime
      BY <1>1, <2>2 DEF Serving
    <3>2. mreq[r].since <= mnow' /\ mnow' <= mreq[r].since + RunTime
      BY <1>1, <2>2, <3>1, McpNaturals DEF McpTick
    <3>3. (Died(k) = 0 \/ mreq[r].since <= Died(k) + AuthTime + CacheTtl) =>
            (Died(k)' = 0 \/ mreq[r].since <= Died(k)' + AuthTime + CacheTtl)
      BY <1>1, <1>2, <3>1, McpNaturals
    <3> QED
      BY <1>1, <1>2, <2>2, <3>1, <3>2, <3>3 DEF Serving
  <2> QED
    BY <2>1, <2>2
<1>5. TurnedAway(r)'
  <2>1. CASE mreq[r].pc # "denied"
    BY <2>1 DEF TurnedAway
  <2>2. CASE mreq[r].pc = "denied"
    <3>1. mnow' = mnow
      BY <2>2 DEF McpTick
    <3>2. k \in Issued
      BY <1>1, <2>2 DEF TurnedAway
    <3>3. /\ Died(k) # 0 => Died(k)' # 0
          /\ (authFailed[k] # 0 /\ mnow <= authFailed[k] + AuthTime + CacheTtl) =>
               (authFailed'[k] # 0 /\ mnow <= authFailed'[k] + AuthTime + CacheTtl)
      BY <1>1, <1>2, <3>2, McpNaturals
    <3> QED
      BY <1>1, <1>2, <2>2, <3>1, <3>2, <3>3 DEF TurnedAway
  <2> QED
    BY <2>1, <2>2
<1> QED
  BY <1>3, <1>4, <1>5
-----------------------------------------------------------------------------
(* The actions.                                                            *)
McpRow ==
  [role : Roles \union {NoRole}, name : TokenNames \union {NoName},
   made : 0..Clock, expires : Nat, revoked : 0..Clock]

McpAnswer == [verdict : Roles \union {NoRole}, until : 0..(Clock + CacheTtl)]

McpRequest ==
  [pc : {"idle", "authorizing", "verified", "running", "denied"},
   token : Secrets \union {NoRole}, role : Roles \union {NoRole},
   since : 0..Clock, tool : DOMAIN TOOLS \union {""}, full : BOOLEAN]

LEMMA McpTypes ==
  McpTypeOK <=>
    /\ tokens \in [Secrets -> McpRow] /\ cached \in [Secrets -> McpAnswer]
    /\ mreq \in [McpReqs -> McpRequest]
    /\ mnow \in 1..Clock /\ authFailed \in [Secrets -> 0..Clock]
BY DEF McpTypeOK, McpRow, McpAnswer, McpRequest

LEMMA IdleIsRequest == IdleMcp \in McpRequest
BY McpNaturals DEF IdleMcp, McpRequest

LEMMA McpInitially ==
  ASSUME McpInit
  PROVE  McpInv
<1>1. NoRow \in McpRow /\ NoAnswer \in McpAnswer /\ 1 \in 1..Clock /\ 0 \in 0..Clock
  BY McpNaturals DEF NoRow, NoAnswer, McpRow, McpAnswer
<1>2. McpTypeOK
  BY <1>1, IdleIsRequest DEF McpInit, McpTypeOK, McpRow, McpAnswer, McpRequest
<1>3. FailuresPast /\ LivesDoNotOverlap
  BY DEF McpInit, FailuresPast, LivesDoNotOverlap, Issued
<1>4. Requested
  BY DEF McpInit, Requested, Judging, Serving, TurnedAway, IdleMcp
<1>5. \A k \in Secrets : RowOK(k) /\ AnswerOK(k)
  BY DEF McpInit, RowOK, AnswerOK
<1> QED
  BY <1>2, <1>3, <1>4, <1>5 DEF McpInv

\* A step that leaves the rows and the time alone, and one request at most
\* makes.
LEMMA OneRequest ==
  ASSUME McpInv, UNCHANGED <<tokens, mnow>>, NEW r \in McpReqs,
         \A s \in McpReqs \ {r} : mreq'[s] = mreq[s],
         mreq' \in [McpReqs -> McpRequest],
         cached' \in [Secrets -> McpAnswer],
         \A k \in Secrets : cached'[k] = cached[k] \/ AnswerOK(k)',
         authFailed' \in [Secrets -> 0..Clock], FailuresPast',
         \A k \in Secrets : authFailed[k] <= authFailed'[k],
         Judging(r)', Serving(r)', TurnedAway(r)'
  PROVE  McpInv'
<1>1. McpTypeOK'
  <2>1. tokens' \in [Secrets -> McpRow] /\ mnow' \in 1..Clock
    BY McpTypes DEF McpInv
  <2> QED
    BY <2>1 DEF McpTypeOK, McpRow, McpAnswer, McpRequest
<1>2. Deaths
  BY StillDead
<1>3. Forward
  <2>1. mnow \in Nat /\ mnow' = mnow
    BY McpFields DEF McpInv
  <2>2. \A k \in Secrets : authFailed'[k] \in 0..Clock
    OBVIOUS
  <2>3. \A k \in Secrets : authFailed'[k] \in Nat
    BY <2>2, McpNaturals
  <2> QED
    BY <2>1, <2>3 DEF Forward
<1>4. Requested'
  <2>1. ASSUME NEW s \in McpReqs PROVE Judging(s)' /\ Serving(s)' /\ TurnedAway(s)'
    <3>1. CASE s = r
      BY <3>1
    <3>2. CASE s # r
      BY <1>2, <1>3, <3>2, RequestStands
    <3> QED
      BY <3>1, <3>2
  <2> QED
    BY <2>1 DEF Requested
<1>5. ASSUME NEW k \in Secrets PROVE RowOK(k)' /\ AnswerOK(k)'
  <2>1. RowOK(k)'
    BY DEF McpInv, RowOK
  <2>2. AnswerOK(k)'
    BY <1>2, <1>3, AnswerStands
  <2> QED
    BY <2>1, <2>2
<1>6. LivesDoNotOverlap'
  BY DEF McpInv, LivesDoNotOverlap, Issued
<1> QED
  BY <1>1, <1>4, <1>5, <1>6 DEF McpInv

LEMMA PresentKeeps ==
  ASSUME McpInv, NEW r \in McpReqs, NEW k \in Secrets, Present(r, k)
  PROVE  McpInv'
<1> DEFINE q == [IdleMcp EXCEPT !.token = k, !.since = mnow,
                       !.role = IF Kept(k) THEN cached[k].verdict ELSE NoRole,
                       !.pc = IF ~Kept(k) THEN "authorizing"
                              ELSE IF cached[k].verdict = NoRole THEN "denied" ELSE "running"]
<1>1. /\ mreq \in [McpReqs -> McpRequest] /\ cached \in [Secrets -> McpAnswer]
      /\ authFailed \in [Secrets -> 0..Clock] /\ mnow \in 1..Clock
  BY McpTypes DEF McpInv
<1>2. /\ mreq' = [mreq EXCEPT ![r] = q] /\ k \in Issued
      /\ UNCHANGED <<tokens, cached, mnow, authFailed>>
  BY DEF Present
<1>3. /\ mnow \in 0..Clock /\ mnow \in Nat /\ mnow # 0
      /\ cached[k].verdict \in Roles \union {NoRole} /\ cached[k].until \in Nat
      /\ \A j \in Secrets : authFailed[j] \in Nat
      /\ Died(k) \in Nat
  <2>1. mnow \in Nat /\ mnow # 0 /\ mnow <= Clock
    BY McpFields DEF McpInv
  <2>2. /\ cached[k].verdict \in Roles \union {NoRole} /\ cached[k].until \in Nat
        /\ \A j \in Secrets : authFailed[j] \in Nat
        /\ Died(k) \in Nat
    BY McpFields DEF McpInv
  <2> QED
    BY <2>1, <2>2, McpNaturals
<1>4. /\ q.pc = IF ~Kept(k) THEN "authorizing"
                ELSE IF cached[k].verdict = NoRole THEN "denied" ELSE "running"
      /\ q.token = k /\ q.since = mnow /\ q.tool = ""
      /\ q.role = IF Kept(k) THEN cached[k].verdict ELSE NoRole
      /\ q \in McpRequest
  BY <1>3 DEF IdleMcp, McpRequest
<1> HIDE DEF q
<1>5. mreq'[r] = q /\ mreq' \in [McpReqs -> McpRequest]
  BY <1>1, <1>2, <1>4
<1>6. Died(k)' = Died(k) /\ k \in Issued' /\ mnow' = mnow
  BY <1>2 DEF Died, Expired, Issued
<1>7. ASSUME Kept(k)
      PROVE  /\ cached[k].verdict # NoRole =>
                  Died(k) = 0 \/ mnow <= Died(k) + AuthTime + CacheTtl
             /\ cached[k].verdict = NoRole =>
                  \/ Died(k) # 0
                  \/ authFailed[k] # 0 /\ mnow <= authFailed[k] + AuthTime + CacheTtl
  <2>1. mnow < cached[k].until
    BY <1>7, <1>3 DEF Kept
  <2>2. cached[k] # NoAnswer
    BY <1>3, <2>1 DEF NoAnswer
  <2>3. /\ cached[k].verdict # NoRole =>
             Died(k) = 0 \/ cached[k].until <= Died(k) + AuthTime + CacheTtl
        /\ cached[k].verdict = NoRole =>
             \/ Died(k) # 0
             \/ authFailed[k] # 0 /\ cached[k].until <= authFailed[k] + AuthTime + CacheTtl
    BY <2>2 DEF McpInv, AnswerOK
  <2> QED
    BY <1>3, <2>1, <2>3, McpNaturals
<1>8. Judging(r)'
  <2>1. CASE Kept(k)
    BY <1>4, <1>5, <2>1 DEF Judging
  <2>2. CASE ~Kept(k)
    <3>1. /\ mreq'[r].pc = "authorizing" /\ mreq'[r].token = k
          /\ mreq'[r].since = mnow /\ mreq'[r].role = NoRole /\ mreq'[r].tool = ""
      BY <1>4, <1>5, <2>2
    <3>2. mnow <= mnow' /\ mnow' <= mnow + AuthTime
      BY <1>3, <1>6, McpNaturals
    <3> QED
      BY <1>6, <3>1, <3>2 DEF Judging
  <2> QED
    BY <2>1, <2>2
<1>9. Serving(r)'
  <2>1. CASE Kept(k) /\ cached[k].verdict # NoRole
    <3>1. /\ mreq'[r].pc = "running" /\ mreq'[r].token = k /\ mreq'[r].tool = ""
          /\ mreq'[r].since = mnow /\ mreq'[r].role = cached[k].verdict
      BY <1>4, <1>5, <2>1
    <3>2. mnow <= mnow' /\ mnow' <= mnow + RunTime
      BY <1>3, <1>6, McpNaturals
    <3>3. Died(k)' = 0 \/ mnow <= Died(k)' + AuthTime + CacheTtl
      BY <1>6, <1>7, <2>1
    <3> QED
      BY <1>3, <1>6, <2>1, <3>1, <3>2, <3>3 DEF Serving
  <2>2. CASE ~(Kept(k) /\ cached[k].verdict # NoRole)
    BY <1>4, <1>5, <2>2 DEF Serving
  <2> QED
    BY <2>1, <2>2
<1>10. TurnedAway(r)'
  BY <1>2, <1>3, <1>4, <1>5, <1>6, <1>7, McpNaturals DEF TurnedAway
<1>11. \A s \in McpReqs \ {r} : mreq'[s] = mreq[s]
  BY <1>1, <1>2
<1>12. FailuresPast' /\ \A j \in Secrets : authFailed[j] <= authFailed'[j]
  BY <1>2, <1>3 DEF McpInv, FailuresPast
<1> QED
  BY <1>1, <1>2, <1>5, <1>8, <1>9, <1>10, <1>11, <1>12, OneRequest

LEMMA ToIdleKeeps ==
  ASSUME McpInv, NEW r \in McpReqs, mreq' = [mreq EXCEPT ![r] = IdleMcp],
         UNCHANGED <<tokens, cached, mnow, authFailed>>
  PROVE  McpInv'
<1>1. /\ mreq \in [McpReqs -> McpRequest] /\ cached \in [Secrets -> McpAnswer]
      /\ authFailed \in [Secrets -> 0..Clock]
  BY McpTypes DEF McpInv
<1>2. mreq' \in [McpReqs -> McpRequest] /\ mreq'[r].pc = "idle"
  BY <1>1, IdleIsRequest DEF IdleMcp
<1>3. Judging(r)' /\ Serving(r)' /\ TurnedAway(r)'
  BY <1>2 DEF Judging, Serving, TurnedAway
<1>4. \A s \in McpReqs \ {r} : mreq'[s] = mreq[s]
  BY <1>1
<1>5. \A j \in Secrets : authFailed[j] \in Nat
  BY McpFields DEF McpInv
<1>6. FailuresPast' /\ \A j \in Secrets : authFailed[j] <= authFailed'[j]
  BY <1>5 DEF McpInv, FailuresPast
<1> QED
  BY <1>1, <1>2, <1>3, <1>4, <1>6, OneRequest

LEMMA ReadsKeeps ==
  ASSUME McpInv, NEW r \in McpReqs, AuthorizerReads(r)
  PROVE  McpInv'
<1>0. PICK k \in Issued : k = mreq[r].token
  BY DEF McpInv, Requested, Judging, AuthorizerReads
<1> DEFINE q == [mreq[r] EXCEPT !.pc = "verified", !.role = verifyMcpToken(k)]
<1>1. /\ mreq \in [McpReqs -> McpRequest] /\ cached \in [Secrets -> McpAnswer]
      /\ authFailed \in [Secrets -> 0..Clock]
  BY McpTypes DEF McpInv
<1>2. /\ mreq[r].since <= mnow /\ mnow <= mreq[r].since + AuthTime
      /\ mreq[r].pc = "authorizing" /\ mreq[r].tool = ""
  BY DEF McpInv, Requested, Judging, AuthorizerReads
<1>3. /\ k \in Secrets /\ mnow \in Nat /\ mreq[r].since \in Nat
      /\ tokens[k].expires \in Nat /\ tokens[k].revoked \in Nat /\ tokens[k].role \in Roles
      /\ tokens[k].revoked <= mnow
  <2>1. k \in Secrets /\ tokens[k] # NoRow
    BY DEF Issued
  <2>2. tokens[k].role \in Roles /\ tokens[k].revoked <= mnow
    BY <2>1 DEF McpInv, RowOK
  <2>3. tokens[k].revoked \in 0..Clock /\ tokens[k].expires \in Nat
    BY <2>1, McpFields DEF McpInv
  <2>4. mnow \in Nat /\ mreq[r].since \in Nat
    BY McpFields DEF McpInv
  <2> QED
    BY <2>1, <2>2, <2>3, <2>4, McpNaturals
<1>4. /\ verifyMcpToken(k) \in Roles \union {NoRole}
      /\ verifyMcpToken(k) # NoRole <=> Died(k) = 0
  <2>1. k \in Unrevoked <=> tokens[k].revoked = 0
    BY DEF Unrevoked
  <2>2. Died(k) = 0 <=> (tokens[k].revoked = 0 /\ ~Expired(k))
    BY <1>3 DEF Died, Expired
  <2>3. tokens[k].role # NoRole
    BY <1>3 DEF Roles, NoRole
  <2> QED
    BY <1>3, <2>1, <2>2, <2>3 DEF verifyMcpToken
<1>5. /\ q \in McpRequest /\ q.pc = "verified" /\ q.role = verifyMcpToken(k)
      /\ q.token = k /\ q.since = mreq[r].since /\ q.tool = ""
  <2>1. mreq[r] \in McpRequest
    BY <1>1
  <2> QED
    BY <1>0, <1>2, <1>4, <2>1 DEF McpRequest
<1>6. /\ mreq' = [mreq EXCEPT ![r] = q]
      /\ UNCHANGED <<tokens, cached, mnow, authFailed>>
  BY <1>0, <1>1 DEF AuthorizerReads, McpRequest
<1> HIDE DEF q
<1>7. mreq'[r] = q /\ mreq' \in [McpReqs -> McpRequest]
  BY <1>1, <1>5, <1>6
<1>8. Died(k)' = Died(k) /\ k \in Issued' /\ mnow' = mnow
  BY <1>6 DEF Died, Expired, Issued
<1>9. Judging(r)'
  <2>1. /\ mreq'[r].token = k /\ mreq'[r].since = mreq[r].since /\ mreq'[r].tool = ""
        /\ mreq'[r].pc = "verified" /\ mreq'[r].role = verifyMcpToken(k)
    BY <1>5, <1>7
  <2> QED
    BY <1>2, <1>4, <1>8, <2>1 DEF Judging
<1>10. Serving(r)' /\ TurnedAway(r)'
  BY <1>5, <1>7 DEF Serving, TurnedAway
<1>11. \A s \in McpReqs \ {r} : mreq'[s] = mreq[s]
  BY <1>1, <1>6
<1>12. \A j \in Secrets : authFailed[j] \in Nat
  BY McpFields DEF McpInv
<1>13. FailuresPast' /\ \A j \in Secrets : authFailed[j] <= authFailed'[j]
  BY <1>6, <1>12 DEF McpInv, FailuresPast
<1> QED
  BY <1>1, <1>6, <1>7, <1>9, <1>10, <1>11, <1>13, OneRequest
LEMMA FailsKeeps ==
  ASSUME McpInv, NEW r \in McpReqs, AuthorizerFails(r)
  PROVE  McpInv'
<1>0. PICK k \in Issued : k = mreq[r].token
  BY DEF McpInv, Requested, Judging, AuthorizerFails
<1>1. /\ mreq \in [McpReqs -> McpRequest] /\ cached \in [Secrets -> McpAnswer]
      /\ authFailed \in [Secrets -> 0..Clock] /\ k \in Secrets
  BY McpTypes DEF McpInv, Issued
<1>2. /\ mreq[r].since <= mnow /\ mnow <= mreq[r].since + AuthTime
      /\ mreq[r].pc = "authorizing" /\ mreq[r].role = NoRole /\ mreq[r].tool = ""
  BY DEF McpInv, Requested, Judging, AuthorizerFails
<1>3. mnow \in Nat /\ mnow # 0 /\ mnow <= Clock /\ mreq[r].since \in Nat
  BY McpFields DEF McpInv
<1>4. mnow \in 0..Clock
  BY <1>3, McpNaturals
<1>5. /\ mreq' = [mreq EXCEPT ![r] = [mreq[r] EXCEPT !.pc = "verified"]]
      /\ authFailed' = [authFailed EXCEPT ![k] = mnow]
      /\ UNCHANGED <<tokens, cached, mnow>>
  BY <1>0, <1>1 DEF AuthorizerFails
<1>6. mreq[r] \in McpRequest
  BY <1>1
<1>7. /\ [mreq[r] EXCEPT !.pc = "verified"] \in McpRequest
      /\ mreq' \in [McpReqs -> McpRequest]
      /\ mreq'[r].pc = "verified" /\ mreq'[r].role = NoRole
      /\ mreq'[r].token = k /\ mreq'[r].since = mreq[r].since /\ mreq'[r].tool = ""
  <2>1. [mreq[r] EXCEPT !.pc = "verified"] \in McpRequest
    BY <1>6 DEF McpRequest
  <2>2. mreq'[r] = [mreq[r] EXCEPT !.pc = "verified"]
    BY <1>1, <1>5
  <2> QED
    BY <1>0, <1>1, <1>2, <1>5, <1>6, <2>1, <2>2 DEF McpRequest
<1>8. k \in Issued' /\ mnow' = mnow
  BY <1>5 DEF Issued
<1>9. authFailed' \in [Secrets -> 0..Clock] /\ authFailed'[k] = mnow
  BY <1>1, <1>4, <1>5
<1>10. \A j \in Secrets : authFailed[j] \in Nat /\ authFailed[j] <= mnow
  BY McpFields DEF McpInv, FailuresPast
<1>11. \A j \in Secrets : authFailed[j] <= authFailed'[j] /\ authFailed'[j] <= mnow'
  BY <1>1, <1>3, <1>5, <1>10
<1>12. FailuresPast'
  BY <1>11 DEF FailuresPast
<1>13. Judging(r)'
  BY <1>2, <1>3, <1>7, <1>8, <1>9 DEF Judging
<1>14. Serving(r)' /\ TurnedAway(r)'
  BY <1>7 DEF Serving, TurnedAway
<1>15. \A s \in McpReqs \ {r} : mreq'[s] = mreq[s]
  BY <1>1, <1>5
<1> QED
  BY <1>1, <1>5, <1>7, <1>9, <1>11, <1>12, <1>13, <1>14, <1>15, OneRequest

LEMMA AuthorizedKeeps ==
  ASSUME McpInv, NEW r \in McpReqs, Authorized(r)
  PROVE  McpInv'
<1>0. PICK k \in Issued : k = mreq[r].token
  BY DEF McpInv, Requested, Judging, Authorized
<1>1. /\ mreq \in [McpReqs -> McpRequest] /\ cached \in [Secrets -> McpAnswer]
      /\ authFailed \in [Secrets -> 0..Clock] /\ k \in Secrets
  BY McpTypes DEF McpInv, Issued
<1> DEFINE answer == [verdict |-> mreq[r].role, until |-> mnow + CacheTtl]
           q == [mreq[r] EXCEPT !.pc = IF mreq[r].role = NoRole THEN "denied" ELSE "running",
                                !.role = mreq[r].role, !.since = mnow]
<1>2. /\ mreq[r].since <= mnow /\ mnow <= mreq[r].since + AuthTime
      /\ mreq[r].pc = "verified" /\ mreq[r].tool = ""
      /\ mreq[r].role # NoRole => Died(k) = 0 \/ mreq[r].since <= Died(k)
      /\ mreq[r].role = NoRole =>
           Died(k) # 0 \/ (authFailed[k] # 0 /\ mreq[r].since <= authFailed[k])
  BY <1>0 DEF McpInv, Requested, Judging, Authorized
<1>3. /\ mnow \in Nat /\ mnow # 0 /\ mnow <= Clock /\ mreq[r].since \in Nat
      /\ mreq[r].role \in Roles \union {NoRole} /\ authFailed[k] \in Nat /\ Died(k) \in Nat
  BY <1>1, McpFields DEF McpInv
<1>4. mnow \in 0..Clock /\ mnow + CacheTtl \in 0..(Clock + CacheTtl)
  BY <1>3, McpNaturals
<1>5. /\ mreq' = [mreq EXCEPT ![r] = q] /\ cached' = [cached EXCEPT ![k] = answer]
      /\ UNCHANGED <<tokens, mnow, authFailed>>
  BY <1>0, <1>1 DEF Authorized, Admit
<1>6. mreq[r] \in McpRequest
  BY <1>1
<1>7. /\ q \in McpRequest /\ q.token = k /\ q.role = mreq[r].role /\ q.since = mnow
      /\ q.pc = IF mreq[r].role = NoRole THEN "denied" ELSE "running"
      /\ q.tool = mreq[r].tool
  BY <1>0, <1>3, <1>4, <1>6 DEF McpRequest
<1>8. answer \in McpAnswer /\ answer.verdict = mreq[r].role /\ answer.until = mnow + CacheTtl
  BY <1>3, <1>4 DEF McpAnswer
<1> HIDE DEF q, answer
<1>9. /\ mreq' \in [McpReqs -> McpRequest] /\ mreq'[r] = q
      /\ cached' \in [Secrets -> McpAnswer] /\ cached'[k] = answer
  BY <1>1, <1>5, <1>7, <1>8
<1>10. k \in Issued' /\ mnow' = mnow /\ Died(k)' = Died(k) /\ authFailed' = authFailed
  BY <1>5 DEF Issued, Died, Expired
<1>11. /\ mreq[r].role # NoRole =>
            Died(k) = 0 \/ (mnow + CacheTtl <= Died(k) + AuthTime + CacheTtl
                              /\ mnow <= Died(k) + AuthTime + CacheTtl)
       /\ mreq[r].role = NoRole =>
            \/ Died(k) # 0
            \/ /\ authFailed[k] # 0
               /\ mnow + CacheTtl <= authFailed[k] + AuthTime + CacheTtl
               /\ mnow <= authFailed[k] + AuthTime + CacheTtl
  <2>1. /\ mreq[r].since <= mnow /\ mnow <= mreq[r].since + AuthTime
        /\ mreq[r].role # NoRole => Died(k) = 0 \/ mreq[r].since <= Died(k)
        /\ mreq[r].role = NoRole =>
             Died(k) # 0 \/ (authFailed[k] # 0 /\ mreq[r].since <= authFailed[k])
    BY <1>2
  <2>2. /\ mnow \in Nat /\ mreq[r].since \in Nat /\ authFailed[k] \in Nat
        /\ Died(k) \in Nat
    BY <1>3
  <2> QED
    BY <2>1, <2>2, McpNaturals
<1>12. AnswerOK(k)'
  <2>1. cached'[k].verdict = mreq[r].role /\ cached'[k].until = mnow + CacheTtl
    BY <1>8, <1>9
  <2>2. mnow + CacheTtl <= mnow' + CacheTtl
    BY <1>3, <1>10, McpNaturals
  <2> QED
    BY <1>10, <1>11, <2>1, <2>2 DEF AnswerOK
<1>13. \A j \in Secrets : cached'[j] = cached[j] \/ AnswerOK(j)'
  BY <1>1, <1>5, <1>12
<1>14. Serving(r)'
  <2>1. CASE mreq[r].role = NoRole
    BY <1>7, <1>9, <2>1 DEF Serving
  <2>2. CASE mreq[r].role # NoRole
    <3>1. /\ mreq'[r].pc = "running" /\ mreq'[r].token = k /\ mreq'[r].tool = ""
          /\ mreq'[r].since = mnow /\ mreq'[r].role = mreq[r].role
      BY <1>2, <1>7, <1>9, <2>2
    <3>2. mnow <= mnow' /\ mnow' <= mnow + RunTime
      BY <1>3, <1>10, McpNaturals
    <3>3. Died(k)' = 0 \/ mnow <= Died(k)' + AuthTime + CacheTtl
      BY <1>10, <1>11, <2>2
    <3> QED
      BY <1>3, <1>10, <2>2, <3>1, <3>2, <3>3 DEF Serving
  <2> QED
    BY <2>1, <2>2
<1>15. Judging(r)'
  BY <1>7, <1>9 DEF Judging
<1>16. TurnedAway(r)'
  BY <1>7, <1>9, <1>10, <1>11 DEF TurnedAway
<1>17. \A s \in McpReqs \ {r} : mreq'[s] = mreq[s]
  BY <1>1, <1>5
<1>18. \A j \in Secrets : authFailed[j] \in Nat
  BY McpFields DEF McpInv
<1>19. FailuresPast' /\ \A j \in Secrets : authFailed[j] <= authFailed'[j]
  BY <1>5, <1>18 DEF McpInv, FailuresPast
<1> QED
  BY <1>1, <1>5, <1>9, <1>13, <1>14, <1>15, <1>16, <1>17, <1>19, OneRequest

LEMMA CallKeeps ==
  ASSUME McpInv, NEW r \in McpReqs, NEW tool \in DOMAIN TOOLS, NEW full \in BOOLEAN,
         CallTool(r, tool, full)
  PROVE  McpInv'
<1>1. /\ mreq \in [McpReqs -> McpRequest] /\ cached \in [Secrets -> McpAnswer]
      /\ authFailed \in [Secrets -> 0..Clock]
  BY McpTypes DEF McpInv
<1>2. /\ mreq' = [mreq EXCEPT ![r] = [mreq[r] EXCEPT !.tool = tool, !.full = full]]
      /\ mreq[r].pc = "running" /\ tool \in toolsForRole(mreq[r].role)
      /\ UNCHANGED <<tokens, cached, mnow, authFailed>>
  BY <1>1 DEF CallTool, McpRequest
<1>3. mreq[r] \in McpRequest
  BY <1>1
<1>4. /\ [mreq[r] EXCEPT !.tool = tool, !.full = full] \in McpRequest
      /\ mreq' \in [McpReqs -> McpRequest]
      /\ mreq'[r].pc = "running" /\ mreq'[r].role = mreq[r].role
      /\ mreq'[r].token = mreq[r].token /\ mreq'[r].since = mreq[r].since
      /\ mreq'[r].tool = tool
  <2>1. [mreq[r] EXCEPT !.tool = tool, !.full = full] \in McpRequest
    BY <1>3 DEF McpRequest
  <2>2. mreq'[r] = [mreq[r] EXCEPT !.tool = tool, !.full = full]
    BY <1>1, <1>2
  <2> QED
    BY <1>1, <1>2, <1>3, <2>1, <2>2 DEF McpRequest
<1>5. Judging(r)' /\ TurnedAway(r)'
  BY <1>4 DEF Judging, TurnedAway
<1>6. Serving(r)'
  <2>1. Serving(r)
    BY DEF McpInv, Requested
  <2>2. /\ mnow' = mnow /\ mreq[r].token \in Issued <=> mreq[r].token \in Issued'
        /\ \A k \in Secrets : Died(k)' = Died(k)
    BY <1>2 DEF Issued, Died, Expired
  <2>3. PICK k \in Issued : k = mreq[r].token
    BY <1>2, <2>1 DEF Serving
  <2>4. k \in Issued' /\ Died(k)' = Died(k)
    BY <1>2 DEF Issued, Died, Expired
  <2>5. /\ mreq[r].role \in Roles
        /\ mreq[r].since <= mnow /\ mnow <= mreq[r].since + RunTime
        /\ Died(k) = 0 \/ mreq[r].since <= Died(k) + AuthTime + CacheTtl
    BY <1>2, <2>1, <2>3 DEF Serving
  <2>6. mreq'[r].token = k
    BY <1>4, <2>3
  <2> QED
    BY <1>2, <1>4, <2>2, <2>4, <2>5, <2>6 DEF Serving
<1>7. \A s \in McpReqs \ {r} : mreq'[s] = mreq[s]
  BY <1>1, <1>2
<1>8. \A j \in Secrets : authFailed[j] \in Nat
  BY McpFields DEF McpInv
<1>9. FailuresPast' /\ \A j \in Secrets : authFailed[j] <= authFailed'[j]
  BY <1>2, <1>8 DEF McpInv, FailuresPast
<1> QED
  BY <1>1, <1>2, <1>4, <1>5, <1>6, <1>7, <1>9, OneRequest

\* A step of the rows or the clock: nothing is cached and no request moves.
LEMMA NoRequestMoves ==
  ASSUME McpInv, Deaths, UNCHANGED <<cached, mreq, authFailed>>,
         mnow' = mnow \/ McpTick, mnow' \in 1..Clock, mnow <= mnow',
         tokens' \in [Secrets -> McpRow], \A k \in Secrets : RowOK(k)', LivesDoNotOverlap'
  PROVE  McpInv'
<1>1. McpTypeOK'
  <2>1. /\ cached' \in [Secrets -> McpAnswer] /\ mreq' \in [McpReqs -> McpRequest]
        /\ authFailed' \in [Secrets -> 0..Clock]
    BY McpTypes DEF McpInv
  <2> QED
    BY <2>1 DEF McpTypeOK, McpRow, McpAnswer, McpRequest
<1>2. mnow \in Nat /\ mnow' \in Nat /\ \A k \in Secrets : authFailed[k] \in Nat
  <2>1. mnow \in Nat /\ \A k \in Secrets : authFailed[k] \in Nat
    BY McpFields DEF McpInv
  <2> QED
    BY <2>1, McpNaturals
<1>3. Forward
  BY <1>2 DEF Forward
<1>4. Requested'
  BY <1>3, RequestStands DEF Requested
<1>5. \A k \in Secrets : AnswerOK(k)'
  BY <1>3, AnswerStands
<1>6. FailuresPast'
  BY <1>2 DEF McpInv, FailuresPast
<1> QED
  BY <1>1, <1>4, <1>5, <1>6 DEF McpInv

LEMMA McpTickKeeps ==
  ASSUME McpInv, McpTick
  PROVE  McpInv'
<1>1. Deaths
  BY TimeKillsNow
<1>2. tokens \in [Secrets -> McpRow]
  BY McpTypes DEF McpInv
<1>3. mnow \in Nat /\ mnow # 0 /\ mnow < Clock /\ mnow' = mnow + 1
  BY McpFields DEF McpInv, McpTick
<1>4. UNCHANGED <<tokens, cached, mreq, authFailed>>
  BY DEF McpTick
<1>5. mnow' \in 1..Clock /\ mnow <= mnow'
  BY <1>3, McpNaturals
<1>6. ASSUME NEW k \in Secrets PROVE RowOK(k)'
  <2>1. tokens[k].made \in 0..Clock /\ tokens[k].revoked \in 0..Clock
    BY McpFields DEF McpInv
  <2>2. RowOK(k)
    BY DEF McpInv
  <2> QED
    BY <1>3, <1>4, <2>1, <2>2, McpNaturals DEF RowOK
<1>7. LivesDoNotOverlap'
  BY <1>4 DEF McpInv, LivesDoNotOverlap, Issued
<1> QED
  BY <1>1, <1>2, <1>4, <1>5, <1>6, <1>7, NoRequestMoves

LEMMA CreateKeeps ==
  ASSUME McpInv, NEW k \in Secrets, NEW name \in TokenNames, NEW issuer \in Roles,
         NEW role \in Roles, NEW l \in Lifetimes, createMcpToken(k, name, issuer, role, l)
  PROVE  McpInv'
<1> DEFINE issued == [role |-> role, name |-> name, made |-> mnow, revoked |-> 0,
                   expires |-> IF l = 0 THEN 0 ELSE mnow + l]
<1>1. Deaths
  BY IssuingKillsNone
<1>2. tokens \in [Secrets -> McpRow]
  BY McpTypes DEF McpInv
<1>3. mnow \in Nat /\ mnow # 0 /\ mnow <= Clock
  BY McpFields DEF McpInv
<1>4. mnow \in 0..Clock /\ mnow \in 1..Clock /\ l \in Nat /\ 0 \in 0..Clock
  BY <1>3, McpNaturals
<1>5. /\ tokens' = [tokens EXCEPT ![k] = issued] /\ k \notin Issued
      /\ UNCHANGED <<cached, mreq, mnow, authFailed>>
      /\ \A j \in Unrevoked : tokens[j].name # name
  BY DEF createMcpToken
<1>6. /\ issued \in McpRow /\ issued.role = role /\ issued.name = name /\ issued.made = mnow
      /\ issued.revoked = 0
  BY <1>3, <1>4 DEF McpRow
<1> HIDE DEF issued
<1>7. tokens' \in [Secrets -> McpRow] /\ tokens'[k] = issued
  BY <1>2, <1>5, <1>6
<1>8. ASSUME NEW j \in Secrets PROVE RowOK(j)'
  <2>1. CASE j = k
    BY <1>3, <1>5, <1>6, <1>7, <2>1 DEF RowOK
  <2>2. CASE j # k
    BY <1>2, <1>5, <2>2 DEF RowOK, McpInv
  <2> QED
    BY <2>1, <2>2
<1>9. ASSUME NEW i \in Issued', NEW j \in Issued', i # j, tokens'[i].name = tokens'[j].name
      PROVE  \/ tokens'[i].revoked # 0 /\ tokens'[i].revoked <= tokens'[j].made
             \/ tokens'[j].revoked # 0 /\ tokens'[j].revoked <= tokens'[i].made
  <2>1. i \in Secrets /\ j \in Secrets
    BY <1>9 DEF Issued
  <2>2. \A h \in Secrets \ {k} : tokens'[h] = tokens[h] /\ (h \in Issued' => h \in Issued)
    BY <1>2, <1>5 DEF Issued
  <2>3. ASSUME NEW h \in Issued, tokens[h].name = name
        PROVE  tokens[h].revoked # 0 /\ tokens[h].revoked <= mnow
    <3>1. tokens[h].revoked # 0
      BY <1>5, <2>3 DEF Unrevoked
    <3>2. tokens[h].revoked <= mnow
      BY DEF McpInv, RowOK, Issued
    <3> QED
      BY <3>1, <3>2
  <2>4. CASE i = k
    BY <1>6, <1>7, <1>9, <2>1, <2>2, <2>3, <2>4
  <2>5. CASE j = k
    BY <1>6, <1>7, <1>9, <2>1, <2>2, <2>3, <2>5
  <2>6. CASE i # k /\ j # k
    BY <1>9, <2>1, <2>2, <2>6 DEF McpInv, LivesDoNotOverlap
  <2> QED
    BY <2>4, <2>5, <2>6
<1>10. LivesDoNotOverlap'
  BY <1>9 DEF LivesDoNotOverlap
<1> QED
  BY <1>1, <1>3, <1>4, <1>5, <1>7, <1>8, <1>10, NoRequestMoves

LEMMA RevokeKeeps ==
  ASSUME McpInv, NEW name \in TokenNames, revokeMcpToken(name)
  PROVE  McpInv'
<1>1. Deaths
  BY RevokingKillsNow
<1>2. tokens \in [Secrets -> McpRow]
  BY McpTypes DEF McpInv
<1>3. mnow \in Nat /\ mnow # 0 /\ mnow <= Clock
  BY McpFields DEF McpInv
<1>4. mnow \in 0..Clock /\ mnow \in 1..Clock
  BY <1>3, McpNaturals
<1>5. /\ tokens' = [h \in Secrets |->
           IF h \in Unrevoked /\ tokens[h].name = name THEN [tokens[h] EXCEPT !.revoked = mnow]
           ELSE tokens[h]]
      /\ UNCHANGED <<cached, mreq, mnow, authFailed>>
  BY DEF revokeMcpToken
<1>6. ASSUME NEW h \in Secrets PROVE tokens'[h] \in McpRow
  <2>1. tokens[h] \in McpRow
    BY <1>2
  <2>2. [tokens[h] EXCEPT !.revoked = mnow] \in McpRow
    BY <1>4, <2>1 DEF McpRow
  <2> QED
    BY <1>5, <2>1, <2>2
<1>7. tokens' \in [Secrets -> McpRow]
  BY <1>5, <1>6
<1>8. \A h \in Secrets : h \in Issued' => h \in Issued
  <2> SUFFICES ASSUME NEW h \in Secrets, h \notin Issued PROVE h \notin Issued'
    OBVIOUS
  <2>1. h \notin Unrevoked
    BY DEF Unrevoked
  <2>2. tokens'[h] = NoRow
    BY <1>5, <2>1 DEF Issued
  <2> QED
    BY <2>2 DEF Issued
<1>9. ASSUME NEW h \in Secrets PROVE RowOK(h)'
  <2>1. CASE h \in Issued
    <3>1. RowOK(h) /\ tokens[h] # NoRow
      BY <2>1 DEF McpInv, Issued
    <3>2. /\ tokens'[h].made = tokens[h].made /\ tokens'[h].role = tokens[h].role
          /\ tokens'[h].revoked \in {mnow, tokens[h].revoked}
      BY <2>1, OneRevoked
    <3> QED
      BY <1>3, <1>5, <3>1, <3>2 DEF RowOK
  <2>2. CASE h \notin Issued
    <3>1. h \notin Issued'
      BY <1>8, <2>2
    <3> QED
      BY <3>1 DEF RowOK, Issued
  <2> QED
    BY <2>1, <2>2
<1>10. ASSUME NEW i \in Issued', NEW j \in Issued', i # j, tokens'[i].name = tokens'[j].name
       PROVE  \/ tokens'[i].revoked # 0 /\ tokens'[i].revoked <= tokens'[j].made
              \/ tokens'[j].revoked # 0 /\ tokens'[j].revoked <= tokens'[i].made
  <2>1. i \in Issued /\ j \in Issued
    BY <1>8, <1>10 DEF Issued
  <2>2. /\ tokens'[i].made = tokens[i].made /\ tokens'[i].name = tokens[i].name
        /\ tokens[i].revoked # 0 => tokens'[i].revoked = tokens[i].revoked
    BY <2>1, OneRevoked
  <2>3. /\ tokens'[j].made = tokens[j].made /\ tokens'[j].name = tokens[j].name
        /\ tokens[j].revoked # 0 => tokens'[j].revoked = tokens[j].revoked
    BY <2>1, OneRevoked
  <2>4. \/ tokens[i].revoked # 0 /\ tokens[i].revoked <= tokens[j].made
        \/ tokens[j].revoked # 0 /\ tokens[j].revoked <= tokens[i].made
    BY <1>10, <2>1, <2>2, <2>3 DEF McpInv, LivesDoNotOverlap
  <2> QED
    BY <2>2, <2>3, <2>4
<1>11. LivesDoNotOverlap'
  BY <1>10 DEF LivesDoNotOverlap
<1> QED
  BY <1>1, <1>3, <1>4, <1>5, <1>7, <1>9, <1>11, NoRequestMoves

LEMMA McpInvStands ==
  ASSUME McpInv, [McpNext]_mcpVars
  PROVE  McpInv'
<1>1. CASE UNCHANGED mcpVars
  <2>1. UNCHANGED <<tokens, cached, mreq, mnow, authFailed>>
    BY <1>1 DEF mcpVars
  <2>2. Deaths
    BY <2>1, StillDead
  <2>3. tokens \in [Secrets -> McpRow] /\ mnow \in 1..Clock
    BY McpTypes DEF McpInv
  <2>4. mnow <= mnow'
    BY <2>1, McpFields DEF McpInv
  <2>5. LivesDoNotOverlap' /\ \A k \in Secrets : RowOK(k)'
    BY <2>1 DEF McpInv, LivesDoNotOverlap, RowOK, Issued
  <2> QED
    BY <2>1, <2>2, <2>3, <2>4, <2>5, NoRequestMoves
<1>2. ASSUME NEW r \in McpReqs, AuthorizerTimesOut(r) \/ Reply(r) PROVE McpInv'
  BY <1>2, ToIdleKeeps DEF AuthorizerTimesOut, Reply
<1>3. CASE TokensAndTime
  BY <1>2, <1>3, CreateKeeps, RevokeKeeps, PresentKeeps, ReadsKeeps, FailsKeeps,
     AuthorizedKeeps, McpTickKeeps DEF TokensAndTime
<1>4. CASE ToolCalls
  BY <1>4, CallKeeps DEF ToolCalls
<1> QED
  BY <1>1, <1>3, <1>4 DEF McpNext

LEMMA McpInvIsSafe ==
  ASSUME McpInv
  PROVE  McpSafety
<1>1. DeadTokensStop
  <2> SUFFICES ASSUME NEW r \in McpReqs, mreq[r].pc = "running", Died(mreq[r].token) # 0
               PROVE  mnow <= Died(mreq[r].token) + AuthTime + CacheTtl + RunTime
    BY DEF DeadTokensStop
  <2>1. PICK k \in Issued : k = mreq[r].token
    BY DEF McpInv, Requested, Serving
  <2>2. /\ mnow <= mreq[r].since + RunTime
        /\ mreq[r].since <= Died(k) + AuthTime + CacheTtl
    BY <2>1 DEF McpInv, Requested, Serving
  <2>3. mnow \in Nat /\ mreq[r].since \in Nat /\ Died(k) \in Nat
    BY McpFields DEF McpInv, Issued
  <2> QED
    BY <2>1, <2>2, <2>3, McpNaturals
<1>2. LiveTokensServed
  BY DEF McpInv, Requested, TurnedAway, LiveTokensServed
<1>3. ListedToolsWork
  <2> SUFFICES ASSUME NEW r \in McpReqs, mreq[r].pc = "running", mreq[r].tool # ""
               PROVE  Answered(mreq[r].role, mreq[r].tool, mreq[r].full)
    BY DEF ListedToolsWork
  <2>1. mreq[r].role \in Roles /\ mreq[r].tool \in toolsForRole(mreq[r].role)
    BY DEF McpInv, Requested, Serving
  <2>2. mreq[r].full \in BOOLEAN
    BY DEF McpInv, McpTypeOK
  <2> QED
    BY <2>1, <2>2, ToolTable DEF ToolTable
<1> QED
  BY <1>1, <1>2, <1>3 DEF McpInv, McpSafety

\* However many tokens and requests, and whatever the three times: a token that
\* was revoked or has expired runs nothing once they have passed, a live one is
\* turned away only within a failed authorizer's time, two tokens of one name
\* never live at once, and the calls of a listed tool are ones the routes take
\* but for the four sets of tools the module names.
THEOREM DeadTokensAreStopped == McpSpec => []McpSafety
<1>1. McpInv /\ [McpNext]_mcpVars => McpInv'
  BY McpInvStands
<1>2. McpInit => McpInv
  BY McpInitially
<1>3. McpInv => McpSafety
  BY McpInvIsSafe
<1> QED
  BY <1>1, <1>2, <1>3, PTL DEF McpSpec
-----------------------------------------------------------------------------
(* THE ACCOUNTS.                                                           *)
(*                                                                         *)
(* A role is believed in two places: in a token, from the moment it was    *)
(* issued, and in a request, from the moment it was let in; each bounds    *)
(* how long before it the user may have lost the role.  An account that is *)
(* not `mixed` has one group, because an assignment that runs alone has    *)
(* read, when it starts removing, the groups it will leave or add to.      *)

UserRequest ==
  [pc : {"idle", "list", "assign", "deploy"} \union DOMAIN RouteOf,
   op : DOMAIN RouteOf \union {"", "deploy"},
   by : Users \union {NoRole}, on : Users \union {NoRole},
   role : Roles \union {NoRole}, drop : SUBSET Roles, add : BOOLEAN, clean : BOOLEAN]

ConsoleTab ==
  [me : Roles \union {NoRole}, token : SUBSET Roles, issued : 0..Days,
   page : DOMAIN Pages \union {"login"}]

Left == [edits : 0..UserEdits, faults : 0..CognitoFaults, deployments : 0..Deployments]

\* What a request carries at each of its calls.
SoundRequest(q) ==
  /\ q.pc = "idle" => q = IdleUser
  /\ q.pc # "idle" =>
       /\ q.on \in Users
       /\ IF q.op = "deploy"
          THEN q.by = NoRole /\ q.on = Master /\ q.drop = {} /\ q.role = "admin"
          ELSE q.by \in Users /\ ~refuseSelf(q.by, q.op, q.on, q.role)
       /\ q.pc \in {"create", "delete", "disable", "enable", "deploy"} => q.op = q.pc
       /\ q.pc = "list" => q.op \in {"role", "create"} /\ q.role \in Roles
       /\ q.pc = "assign" => q.op \in {"role", "create", "deploy"} /\ q.role \in Roles
       /\ q.pc = "create" => q.role \in Roles
       /\ (q.pc = "assign" /\ q.op = "deploy") => q.add
       /\ q.role \notin q.drop

\* A request that moves groups.
Moves(r) == ureq[r].pc \notin {"idle", "enable", "disable"}

Apart ==
  \A r, s \in UserReqs :
    (r # s /\ Moves(r) /\ Moves(s) /\ ureq[r].on = ureq[s].on) => ~ureq[r].clean

\* An assignment that ran alone so far.
Working(r) ==
  (ureq[r].pc = "assign" /\ ureq[r].clean /\ ureq[r].op # "deploy") =>
    /\ ureq[r].drop \subseteq groups[ureq[r].on]
    /\ groups[ureq[r].on] \ ureq[r].drop = IF ureq[r].add THEN {} ELSE {ureq[r].role}

\* Whoever asked was an admin less than a token's life ago.
Recent(r) ==
  ureq[r].by \in Users =>
    /\ TokenLife # 0
    /\ lost[ureq[r].by] = 0 \/ cnow < lost[ureq[r].by] + TokenLife

\* A user's token, and the page it opened.
Believed(u) ==
  /\ lost[u] = 0 <=> IsAdmin(u)
  /\ lost[u] <= cnow /\ tab[u].issued <= cnow
  /\ "admin" \in tab[u].token => lost[u] = 0 \/ tab[u].issued <= lost[u]
  /\ SignedIn(u) => /\ tab[u].page \in DOMAIN Pages
                    /\ AtLeast(tab[u].me, Pages[tab[u].page].floor)

OneGroup(u) == account[u] # "none" /\ u \notin mixed => \E g \in Roles : groups[u] = {g}

ConsoleInv ==
  /\ ConsoleTypeOK /\ Apart
  /\ \A r \in UserReqs : SoundRequest(ureq[r]) /\ Working(r) /\ Recent(r)
  /\ \A u \in Users : Believed(u) /\ OneGroup(u)

-----------------------------------------------------------------------------
LEMMA ConsoleNaturals ==
  /\ Master \in Users /\ NoRole \notin Users
  /\ TokenLife \in Nat /\ Days \in Nat /\ Days # 0
  /\ UserEdits \in Nat /\ CognitoFaults \in Nat /\ Deployments \in Nat
BY ConsoleAssumption DEF ConsoleAssumption

LEMMA ConsoleTypes ==
  ConsoleTypeOK <=>
    /\ account \in [Users -> {"none", "on", "off"}] /\ groups \in [Users -> SUBSET Roles]
    /\ tab \in [Users -> ConsoleTab] /\ ureq \in [UserReqs -> UserRequest]
    /\ cnow \in 1..Days /\ lost \in [Users -> 0..Days] /\ mixed \subseteq Users
    /\ cleft \in Left
BY DEF ConsoleTypeOK, ConsoleTab, UserRequest, Left

LEMMA ConsoleTimes ==
  ASSUME ConsoleTypeOK
  PROVE  /\ cnow \in Nat /\ cnow # 0 /\ cnow <= Days
         /\ \A u \in Users : lost[u] \in Nat /\ tab[u].issued \in Nat
<1>1. cnow \in 1..Days
  BY ConsoleTypes
<1>2. ASSUME NEW u \in Users PROVE lost[u] \in 0..Days /\ tab[u].issued \in 0..Days
  BY ConsoleTypes DEF ConsoleTab
<1>3. \A u \in Users : lost[u] \in Nat /\ tab[u].issued \in Nat
  BY <1>2, ConsoleNaturals
<1> QED
  BY <1>1, <1>3, ConsoleNaturals

\* The role of a token is one of its groups.
LEMMA BestGroup ==
  ASSUME NEW g \in SUBSET Roles
  PROVE  /\ g = {} => resolveRole(g) = NoRole
         /\ g # {} => resolveRole(g) \in g
<1>1. g \cap Roles = g
  OBVIOUS
<1>2. ASSUME g # {} PROVE \E r \in g : \A s \in g : Rank[r] <= Rank[s]
  <2>1. CASE "admin" \in g
    BY <2>1 DEF Roles, Rank
  <2>2. CASE "admin" \notin g /\ "operator" \in g
    BY <2>2 DEF Roles, Rank
  <2>3. CASE "admin" \notin g /\ "operator" \notin g
    <3>1. g = {"viewer"}
      BY <1>2, <2>3 DEF Roles
    <3> QED
      BY <3>1 DEF Rank
  <2> QED
    BY <2>1, <2>2, <2>3
<1> QED
  BY <1>1, <1>2 DEF resolveRole

LEMMA Resolved ==
  ASSUME NEW g \in SUBSET Roles
  PROVE  /\ resolveRole(g) \in Roles \union {NoRole}
         /\ resolveRole(g) = "admin" => "admin" \in g
<1>1. CASE g = {}
  BY <1>1, BestGroup DEF NoRole
<1>2. CASE g # {}
  BY <1>2, BestGroup
<1> QED
  BY <1>1, <1>2

\* Where the router lands is a page the role may open.
LEMMA LandedOpens ==
  ASSUME NEW role \in Roles, NEW page \in DOMAIN Pages
  PROVE  /\ Landed(role, page) \in DOMAIN Pages
         /\ AtLeast(role, Pages[Landed(role, page)].floor)
<1>1. "overview" \in DOMAIN Pages /\ Pages["overview"].floor = "viewer"
  BY PageTable DEF PageTable
<1>2. AtLeast(role, "viewer")
  BY DEF AtLeast, Rank, Roles
<1> QED
  BY <1>1, <1>2 DEF Landed

LEMMA OverviewOpens ==
  ASSUME NEW role \in Roles
  PROVE  "overview" \in DOMAIN Pages /\ AtLeast(role, Pages["overview"].floor)
<1>1. "overview" \in DOMAIN Pages /\ Pages["overview"].floor = "viewer"
  BY PageTable DEF PageTable
<1>2. AtLeast(role, "viewer")
  BY DEF AtLeast, Rank, Roles
<1> QED
  BY <1>1, <1>2

LEMMA IdleIsSound == IdleUser \in UserRequest /\ SoundRequest(IdleUser)
BY DEF IdleUser, UserRequest, SoundRequest, Roles

LEMMA IdleFields == IdleUser.pc = "idle" /\ IdleUser.by = NoRole
BY DEF IdleUser

LEMMA ConsoleInitially ==
  ASSUME ConsoleInit
  PROVE  ConsoleInv
<1>1. SignedOut \in ConsoleTab /\ cleft \in Left /\ 1 \in 1..Days /\ 0 \in 0..Days /\ 1 \in 0..Days
  BY ConsoleNaturals DEF ConsoleInit, SignedOut, ConsoleTab, Left
<1>2. /\ account \in [Users -> {"none", "on", "off"}] /\ groups \in [Users -> SUBSET Roles]
      /\ tab \in [Users -> ConsoleTab] /\ ureq \in [UserReqs -> UserRequest]
      /\ lost \in [Users -> 0..Days] /\ mixed \subseteq Users /\ cnow \in 1..Days
  BY <1>1, IdleIsSound DEF ConsoleInit, Roles
<1>3. ConsoleTypeOK
  BY <1>1, <1>2, ConsoleTypes
<1>4. Apart
  BY DEF ConsoleInit, Apart, Moves, IdleUser
<1>5. \A r \in UserReqs : SoundRequest(ureq[r]) /\ Working(r)
  BY IdleIsSound DEF ConsoleInit, Working, IdleUser
<1>6. \A r \in UserReqs : Recent(r)
  BY ConsoleNaturals DEF ConsoleInit, Recent, IdleUser
<1>7. ASSUME NEW u \in Users PROVE Believed(u) /\ OneGroup(u)
  <2>1. lost[u] = 0 <=> IsAdmin(u)
    BY DEF ConsoleInit, IsAdmin
  <2>2. lost[u] <= cnow /\ tab[u].issued <= cnow
    BY DEF ConsoleInit, SignedOut
  <2>3. "admin" \notin tab[u].token /\ ~SignedIn(u)
    BY DEF ConsoleInit, SignedOut, SignedIn
  <2>4. OneGroup(u)
    BY DEF ConsoleInit, OneGroup, Roles
  <2> QED
    BY <2>1, <2>2, <2>3, <2>4 DEF Believed
<1> QED
  BY <1>3, <1>4, <1>5, <1>6, <1>7 DEF ConsoleInv
-----------------------------------------------------------------------------
(* A Cognito call.  Whatever the accounts and groups become, a role that   *)
(* is lost is lost now.                                                    *)

Relost ==
  \/ UNCHANGED <<account, groups, lost>>
  \/ lost' = Losing(account', groups')

LEMMA LosingIsNow ==
  ASSUME ConsoleInv, Relost, NEW u \in Users
  PROVE  /\ lost'[u] = 0 <=> IsAdmin(u)'
         /\ lost'[u] \in {0, lost[u], cnow}
         /\ lost'[u] = lost[u] \/ lost'[u] = 0 \/ lost[u] = 0
<1>1. (lost[u] = 0 <=> IsAdmin(u)) /\ cnow # 0
  BY ConsoleTimes DEF ConsoleInv, Believed
<1>2. CASE UNCHANGED <<account, groups, lost>>
  BY <1>1, <1>2 DEF IsAdmin
<1>3. CASE lost' = Losing(account', groups')
  <2>1. lost'[u] = IF IsAdmin(u)' THEN 0 ELSE IF lost[u] = 0 THEN cnow ELSE lost[u]
    BY <1>3 DEF Losing, IsAdmin
  <2> QED
    BY <1>1, <2>1
<1> QED
  BY <1>2, <1>3 DEF Relost

LEMMA BeliefStands ==
  ASSUME ConsoleInv, Relost, UNCHANGED <<tab, cnow>>, NEW u \in Users
  PROVE  Believed(u)' /\ lost'[u] \in 0..Days
<1>1. /\ lost'[u] = 0 <=> IsAdmin(u)'
      /\ lost'[u] \in {0, lost[u], cnow}
      /\ lost'[u] = lost[u] \/ lost'[u] = 0 \/ lost[u] = 0
  BY LosingIsNow
<1>2. /\ cnow \in Nat /\ cnow # 0 /\ cnow <= Days /\ lost[u] \in Nat /\ tab[u].issued \in Nat
  BY ConsoleTimes DEF ConsoleInv
<1>3. /\ lost[u] <= cnow /\ tab[u].issued <= cnow
      /\ "admin" \in tab[u].token => lost[u] = 0 \/ tab[u].issued <= lost[u]
  BY DEF ConsoleInv, Believed
<1>4. lost'[u] \in 0..Days /\ lost'[u] <= cnow
  BY <1>1, <1>2, <1>3, ConsoleNaturals
<1>5. "admin" \in tab[u].token => lost'[u] = 0 \/ tab[u].issued <= lost'[u]
  BY <1>1, <1>2, <1>3
<1>6. SignedIn(u)' => /\ tab[u].page \in DOMAIN Pages
                      /\ AtLeast(tab[u].me, Pages[tab[u].page].floor)
  BY DEF ConsoleInv, Believed, SignedIn
<1> QED
  BY <1>1, <1>3, <1>4, <1>5, <1>6 DEF Believed

LEMMA RecentStands ==
  ASSUME ConsoleInv, Relost, UNCHANGED cnow, NEW r \in UserReqs,
         ureq'[r].by = ureq[r].by
  PROVE  Recent(r)'
<1> SUFFICES ASSUME NEW u \in Users, ureq[r].by = u
             PROVE  TokenLife # 0 /\ (lost'[u] = 0 \/ cnow < lost'[u] + TokenLife)
  BY DEF Recent
<1>1. TokenLife # 0 /\ (lost[u] = 0 \/ cnow < lost[u] + TokenLife)
  BY DEF ConsoleInv, Recent
<1>2. lost'[u] \in {0, lost[u], cnow}
  BY LosingIsNow
<1>3. cnow \in Nat
  BY ConsoleTimes DEF ConsoleInv
<1> QED
  BY <1>1, <1>2, <1>3, ConsoleNaturals

\* The step of one request, on the account it is about.
LEMMA OneUserStep ==
  ASSUME ConsoleInv, Relost, UNCHANGED <<tab, cnow>>,
         NEW r \in UserReqs, NEW v \in Users, ureq[r].on = v,
         \A s \in UserReqs \ {r} : ureq'[s] = ureq[s],
         ureq' \in [UserReqs -> UserRequest], SoundRequest(ureq'[r]),
         \/ ureq'[r] = IdleUser
         \/ /\ ureq'[r].on = v /\ ureq'[r].by = ureq[r].by /\ ureq'[r].clean = ureq[r].clean
            /\ Moves(r),
         account' \in [Users -> {"none", "on", "off"}], groups' \in [Users -> SUBSET Roles],
         \A u \in Users \ {v} : /\ account'[u] = account[u] /\ groups'[u] = groups[u]
                                /\ u \in mixed' <=> u \in mixed,
         groups'[v] = groups[v] \/ Moves(r),
         lost' \in [Users -> 0..Days], mixed' \subseteq Users, cleft' \in Left,
         Working(r)', OneGroup(v)'
  PROVE  ConsoleInv'
<1>1. ConsoleTypeOK'
  <2>1. tab' \in [Users -> ConsoleTab] /\ cnow' \in 1..Days
    BY ConsoleTypes DEF ConsoleInv
  <2> QED
    BY <2>1 DEF ConsoleTypeOK, ConsoleTab, UserRequest, Left
<1>2. \A s \in UserReqs \ {r} : ureq'[s] = ureq[s]
  OBVIOUS
<1>3. Apart'
  <2> SUFFICES ASSUME NEW p \in UserReqs, NEW s \in UserReqs, p # s, Moves(p)', Moves(s)',
                      ureq'[p].on = ureq'[s].on
               PROVE  ~ureq'[p].clean
    BY DEF Apart
  <2>1. ASSUME NEW h \in UserReqs, Moves(h)'
        PROVE  Moves(h) /\ ureq'[h].on = ureq[h].on /\ ureq'[h].clean = ureq[h].clean
    <3>1. CASE h # r
      BY <1>2, <2>1, <3>1 DEF Moves
    <3>2. CASE h = r
      <4>1. CASE ureq'[r] = IdleUser
        BY <2>1, <3>2, <4>1, IdleFields DEF Moves
      <4>2. CASE ureq'[r] # IdleUser
        BY <3>2, <4>2
      <4> QED
        BY <4>1, <4>2
    <3> QED
      BY <3>1, <3>2
  <2>2. Moves(p) /\ ureq'[p].on = ureq[p].on /\ ureq'[p].clean = ureq[p].clean
    BY <2>1
  <2>3. Moves(s) /\ ureq'[s].on = ureq[s].on
    BY <2>1
  <2> QED
    BY <2>2, <2>3 DEF ConsoleInv, Apart
<1>4. ASSUME NEW s \in UserReqs PROVE SoundRequest(ureq'[s]) /\ Working(s)' /\ Recent(s)'
  <2>1. SoundRequest(ureq'[s])
    BY <1>2 DEF ConsoleInv
  <2>2. Working(s)'
    <3>1. CASE s = r
      BY <3>1
    <3>2. CASE s # r
      <4> SUFFICES ASSUME ureq[s].pc = "assign", ureq[s].clean, ureq[s].op # "deploy"
                   PROVE  /\ ureq[s].drop \subseteq groups'[ureq[s].on]
                          /\ groups'[ureq[s].on] \ ureq[s].drop =
                               IF ureq[s].add THEN {} ELSE {ureq[s].role}
        BY <1>2, <3>2 DEF Working
      <4>1. Working(s) /\ ureq[s].on \in Users /\ Moves(s)
        BY DEF ConsoleInv, SoundRequest, Moves
      <4>2. groups'[ureq[s].on] = groups[ureq[s].on]
        <5>1. CASE ureq[s].on # v
          BY <4>1, <5>1
        <5>2. CASE ureq[s].on = v
          <6>1. ~Moves(r)
            BY <3>2, <4>1, <5>2 DEF ConsoleInv, Apart
          <6> QED
            BY <5>2, <6>1
        <5> QED
          BY <5>1, <5>2
      <4> QED
        BY <4>1, <4>2 DEF Working
    <3> QED
      BY <3>1, <3>2
  <2>3. Recent(s)'
    <3>1. CASE ureq'[s].by = ureq[s].by
      BY <3>1, RecentStands
    <3>2. CASE ureq'[s].by # ureq[s].by
      <4>1. s = r /\ ureq'[r] = IdleUser
        BY <1>2, <3>2
      <4>2. ureq'[s].by = NoRole
        BY <4>1, IdleFields
      <4> QED
        BY <4>2, ConsoleNaturals DEF Recent
    <3> QED
      BY <3>1, <3>2
  <2> QED
    BY <2>1, <2>2, <2>3
<1>5. ASSUME NEW u \in Users PROVE Believed(u)' /\ OneGroup(u)'
  <2>1. Believed(u)'
    BY BeliefStands
  <2>2. OneGroup(u)'
    <3>1. CASE u = v
      BY <3>1
    <3>2. CASE u # v
      BY <3>2 DEF ConsoleInv, OneGroup
    <3> QED
      BY <3>1, <3>2
  <2> QED
    BY <2>1, <2>2
<1> QED
  BY <1>1, <1>3, <1>4, <1>5 DEF ConsoleInv
LEMMA LostTyped ==
  ASSUME ConsoleInv, Relost, UNCHANGED <<tab, cnow>>
  PROVE  lost' \in [Users -> 0..Days]
<1>1. \A u \in Users : lost'[u] \in 0..Days
  BY BeliefStands
<1>2. CASE UNCHANGED <<account, groups, lost>>
  BY <1>2, ConsoleTypes DEF ConsoleInv
<1>3. CASE lost' = Losing(account', groups')
  <2>1. lost' = [u \in Users |-> lost'[u]]
    BY <1>3 DEF Losing
  <2> QED
    BY <1>1, <2>1
<1> QED
  BY <1>2, <1>3 DEF Relost

\* A request under way, and its account.
LEMMA UnderWay ==
  ASSUME ConsoleInv, NEW r \in UserReqs, ureq[r].pc # "idle"
  PROVE  /\ ureq[r] \in UserRequest /\ ureq \in [UserReqs -> UserRequest]
         /\ account \in [Users -> {"none", "on", "off"}] /\ groups \in [Users -> SUBSET Roles]
         /\ cleft \in Left /\ mixed \subseteq Users
         /\ ureq[r].on \in Users /\ SoundRequest(ureq[r])
         /\ IF ureq[r].op = "deploy"
            THEN ureq[r].by = NoRole /\ ureq[r].drop = {} /\ ureq[r].role = "admin"
            ELSE /\ ureq[r].by \in Users
                 /\ ~refuseSelf(ureq[r].by, ureq[r].op, ureq[r].on, ureq[r].role)
<1>1. SoundRequest(ureq[r]) /\ ConsoleTypeOK
  BY DEF ConsoleInv
<1>2. ureq \in [UserReqs -> UserRequest]
  BY <1>1, ConsoleTypes
<1> QED
  BY <1>1, <1>2, ConsoleTypes DEF SoundRequest

\* A request that is over.
LEMMA LastCall ==
  ASSUME ConsoleInv, Relost, UNCHANGED <<tab, cnow>>,
         NEW r \in UserReqs, NEW v \in Users, ureq[r].on = v, Finish(r),
         account' \in [Users -> {"none", "on", "off"}], groups' \in [Users -> SUBSET Roles],
         \A u \in Users \ {v} : /\ account'[u] = account[u] /\ groups'[u] = groups[u]
                                /\ u \in mixed' <=> u \in mixed,
         groups'[v] = groups[v] \/ Moves(r), mixed' \subseteq Users, cleft' \in Left,
         OneGroup(v)'
  PROVE  ConsoleInv'
<1>1. ureq \in [UserReqs -> UserRequest]
  BY ConsoleTypes DEF ConsoleInv
<1>2. /\ ureq' \in [UserReqs -> UserRequest] /\ ureq'[r] = IdleUser
      /\ \A s \in UserReqs \ {r} : ureq'[s] = ureq[s]
  BY <1>1, IdleIsSound DEF Finish
<1>3. Working(r)'
  BY <1>2, IdleFields DEF Working
<1>4. lost' \in [Users -> 0..Days]
  BY LostTyped
<1>5. SoundRequest(ureq'[r])
  BY <1>2, IdleIsSound
<1> QED
  BY <1>2, <1>3, <1>4, <1>5, OneUserStep

LEMMA DeleteUserKeeps ==
  ASSUME ConsoleInv, NEW r \in UserReqs, deleteUser(r)
  PROVE  ConsoleInv'
<1>1. ureq[r].pc = "delete"
  BY DEF deleteUser
<1>2. PICK v \in Users : ureq[r].on = v
  BY <1>1, UnderWay
<1>3. /\ account \in [Users -> {"none", "on", "off"}] /\ groups \in [Users -> SUBSET Roles]
      /\ cleft \in Left /\ mixed \subseteq Users
  BY <1>1, UnderWay
<1>4. /\ account' = [account EXCEPT ![v] = "none"] /\ groups' = [groups EXCEPT ![v] = {}]
      /\ lost' = Losing(account', groups') /\ Finish(r) /\ UNCHANGED <<tab, cnow, mixed, cleft>>
  BY <1>2 DEF deleteUser, Change
<1>5. Relost /\ Moves(r)
  BY <1>1, <1>4 DEF Relost, Moves
<1>6. OneGroup(v)'
  BY <1>3, <1>4 DEF OneGroup
<1>7. /\ account' \in [Users -> {"none", "on", "off"}] /\ groups' \in [Users -> SUBSET Roles]
      /\ \A u \in Users \ {v} : account'[u] = account[u] /\ groups'[u] = groups[u]
  BY <1>3, <1>4
<1> QED
  BY <1>2, <1>3, <1>4, <1>5, <1>6, <1>7, LastCall

LEMMA SetEnabledKeeps ==
  ASSUME ConsoleInv, NEW r \in UserReqs, setEnabled(r)
  PROVE  ConsoleInv'
<1>1. ureq[r].pc \in {"enable", "disable"}
  BY DEF setEnabled
<1>2. PICK v \in Users : ureq[r].on = v
  BY <1>1, UnderWay
<1>3. /\ account \in [Users -> {"none", "on", "off"}] /\ groups \in [Users -> SUBSET Roles]
      /\ cleft \in Left /\ mixed \subseteq Users
  BY <1>1, UnderWay
<1>4. /\ account' = [account EXCEPT ![v] = IF ureq[r].pc = "enable" THEN "on" ELSE "off"]
      /\ groups' = groups /\ account[v] # "none"
      /\ lost' = Losing(account', groups') /\ Finish(r) /\ UNCHANGED <<tab, cnow, mixed, cleft>>
  BY <1>2 DEF setEnabled, Change
<1>5. Relost
  BY <1>4 DEF Relost
<1>6. OneGroup(v)'
  BY <1>3, <1>4 DEF OneGroup, ConsoleInv
<1>7. /\ account' \in [Users -> {"none", "on", "off"}] /\ groups' \in [Users -> SUBSET Roles]
      /\ \A u \in Users \ {v} : account'[u] = account[u] /\ groups'[u] = groups[u]
  BY <1>3, <1>4
<1> QED
  BY <1>2, <1>3, <1>4, <1>5, <1>6, <1>7, LastCall

LEMMA RefusalKeeps ==
  ASSUME ConsoleInv, NEW r \in UserReqs, CognitoRefuses(r)
  PROVE  ConsoleInv'
<1>1. ureq[r].pc # "idle"
  BY DEF CognitoRefuses
<1>2. PICK v \in Users : ureq[r].on = v
  BY <1>1, UnderWay
<1>3. /\ account \in [Users -> {"none", "on", "off"}] /\ groups \in [Users -> SUBSET Roles]
      /\ cleft \in Left /\ mixed \subseteq Users
  BY <1>1, UnderWay
<1>4. Finish(r) /\ UNCHANGED <<account, groups, tab, cnow, lost, mixed>>
  BY DEF CognitoRefuses
<1>5. cleft' \in Left
  <2>1. CASE UNCHANGED cleft
    BY <1>3, <2>1
  <2>2. CASE cleft.faults > 0 /\ cleft' = [cleft EXCEPT !.faults = cleft.faults - 1]
    <3>1. cleft.faults - 1 \in 0..CognitoFaults
      BY <1>3, <2>2, ConsoleNaturals DEF Left
    <3> QED
      BY <1>3, <2>2, <3>1 DEF Left
  <2> QED
    BY <2>1, <2>2 DEF CognitoRefuses
<1>6. Relost
  BY <1>4 DEF Relost
<1>7. OneGroup(v)'
  BY <1>4 DEF OneGroup, ConsoleInv
<1> QED
  BY <1>2, <1>3, <1>4, <1>5, <1>6, <1>7, LastCall

\* A request that goes on.
LEMMA NextCall ==
  ASSUME ConsoleInv, Relost, UNCHANGED <<tab, cnow>>,
         NEW r \in UserReqs, NEW v \in Users, ureq[r].on = v, Moves(r),
         NEW q \in UserRequest, SoundRequest(q),
         q.on = v /\ q.by = ureq[r].by /\ q.clean = ureq[r].clean,
         ureq' = [ureq EXCEPT ![r] = q],
         account' \in [Users -> {"none", "on", "off"}], groups' \in [Users -> SUBSET Roles],
         \A u \in Users \ {v} : /\ account'[u] = account[u] /\ groups'[u] = groups[u]
                                /\ u \in mixed' <=> u \in mixed,
         mixed' \subseteq Users, cleft' \in Left,
         Working(r)', OneGroup(v)'
  PROVE  ConsoleInv'
<1>1. ureq \in [UserReqs -> UserRequest]
  BY ConsoleTypes DEF ConsoleInv
<1>2. /\ ureq' \in [UserReqs -> UserRequest] /\ ureq'[r] = q
      /\ \A s \in UserReqs \ {r} : ureq'[s] = ureq[s]
  BY <1>1
<1>3. lost' \in [Users -> 0..Days]
  BY LostTyped
<1> QED
  BY <1>2, <1>3, OneUserStep

LEMMA CreateUserKeeps ==
  ASSUME ConsoleInv, NEW r \in UserReqs, createUser(r)
  PROVE  ConsoleInv'
<1>1. ureq[r].pc = "create"
  BY DEF createUser
<1>2. PICK v \in Users : ureq[r].on = v
  BY <1>1, UnderWay
<1>3. /\ account \in [Users -> {"none", "on", "off"}] /\ groups \in [Users -> SUBSET Roles]
      /\ cleft \in Left /\ mixed \subseteq Users
      /\ ureq[r] \in UserRequest /\ ureq \in [UserReqs -> UserRequest]
  BY <1>1, UnderWay
<1> DEFINE q == [ureq[r] EXCEPT !.pc = "list"]
<1>4. /\ account' = [account EXCEPT ![v] = "on"] /\ groups' = groups
      /\ lost' = Losing(account', groups') /\ mixed' = mixed \union {v}
      /\ ureq' = [ureq EXCEPT ![r] = q] /\ UNCHANGED <<tab, cnow, cleft>>
  BY <1>2, <1>3 DEF createUser, Change
<1>5. /\ q \in UserRequest /\ q.pc = "list" /\ q.op = ureq[r].op /\ q.by = ureq[r].by
      /\ q.on = ureq[r].on /\ q.role = ureq[r].role /\ q.drop = ureq[r].drop
      /\ q.clean = ureq[r].clean
  BY <1>3 DEF UserRequest
<1>6. SoundRequest(ureq[r])
  BY DEF ConsoleInv
<1> HIDE DEF q
<1>7. SoundRequest(q)
  BY <1>1, <1>5, <1>6 DEF SoundRequest
<1>8. Working(r)'
  BY <1>3, <1>4, <1>5 DEF Working
<1>9. Relost /\ Moves(r)
  BY <1>1, <1>4 DEF Relost, Moves
<1>10. OneGroup(v)'
  BY <1>4 DEF OneGroup
<1>11. /\ account' \in [Users -> {"none", "on", "off"}] /\ groups' \in [Users -> SUBSET Roles]
       /\ \A u \in Users \ {v} : /\ account'[u] = account[u] /\ groups'[u] = groups[u]
                                 /\ u \in mixed' <=> u \in mixed
       /\ mixed' \subseteq Users
  BY <1>3, <1>4
<1> QED
  BY <1>2, <1>3, <1>4, <1>5, <1>7, <1>8, <1>9, <1>10, <1>11, NextCall

LEMMA GroupsReadKeeps ==
  ASSUME ConsoleInv, NEW r \in UserReqs, groupsForUser(r)
  PROVE  ConsoleInv'
<1>1. ureq[r].pc = "list"
  BY DEF groupsForUser
<1>2. PICK v \in Users : ureq[r].on = v
  BY <1>1, UnderWay
<1>3. /\ account \in [Users -> {"none", "on", "off"}] /\ groups \in [Users -> SUBSET Roles]
      /\ cleft \in Left /\ mixed \subseteq Users
      /\ ureq[r] \in UserRequest /\ ureq \in [UserReqs -> UserRequest]
  BY <1>1, UnderWay
<1> DEFINE q == [ureq[r] EXCEPT !.pc = "assign", !.drop = groups[v] \ {ureq[r].role},
                                !.add = ureq[r].role \notin groups[v]]
<1>4. /\ ureq' = [ureq EXCEPT ![r] = q]
      /\ UNCHANGED <<account, groups, tab, cnow, lost, mixed, cleft>>
  BY <1>2, <1>3 DEF groupsForUser, UserRequest
<1>5. /\ q \in UserRequest /\ q.pc = "assign" /\ q.op = ureq[r].op /\ q.by = ureq[r].by
      /\ q.on = ureq[r].on /\ q.role = ureq[r].role /\ q.drop = groups[v] \ {ureq[r].role}
      /\ q.clean = ureq[r].clean /\ q.add = (ureq[r].role \notin groups[v])
  BY <1>3 DEF UserRequest
<1>6. SoundRequest(ureq[r])
  BY DEF ConsoleInv
<1> HIDE DEF q
<1>7. SoundRequest(q)
  BY <1>1, <1>5, <1>6 DEF SoundRequest
<1>8. ureq'[r] = q
  BY <1>3, <1>4
<1>9. Working(r)'
  <2>1. groups'[q.on] = groups[v] /\ q.drop \subseteq groups[v]
    BY <1>2, <1>4, <1>5
  <2>2. groups[v] \ q.drop = IF q.add THEN {} ELSE {q.role}
    BY <1>5
  <2> QED
    BY <1>8, <2>1, <2>2 DEF Working
<1>10. Relost /\ Moves(r)
  BY <1>1, <1>4 DEF Relost, Moves
<1>11. OneGroup(v)'
  BY <1>4 DEF OneGroup, ConsoleInv
<1> QED
  BY <1>2, <1>3, <1>4, <1>5, <1>7, <1>9, <1>10, <1>11, NextCall

LEMMA RemoveKeeps ==
  ASSUME ConsoleInv, NEW r \in UserReqs, RemoveFromGroup(r)
  PROVE  ConsoleInv'
<1>1. ureq[r].pc = "assign"
  BY DEF RemoveFromGroup
<1>2. PICK v \in Users : ureq[r].on = v
  BY <1>1, UnderWay
<1>3. /\ account \in [Users -> {"none", "on", "off"}] /\ groups \in [Users -> SUBSET Roles]
      /\ cleft \in Left /\ mixed \subseteq Users
      /\ ureq[r] \in UserRequest /\ ureq \in [UserReqs -> UserRequest]
  BY <1>1, UnderWay
<1>0. PICK g \in ureq[r].drop :
        /\ Change(account, [groups EXCEPT ![ureq[r].on] = @ \ {g}])
        /\ ureq' = [ureq EXCEPT ![r].drop = @ \ {g}]
  BY DEF RemoveFromGroup
<1> DEFINE q == [ureq[r] EXCEPT !.drop = ureq[r].drop \ {g}]
<1>4. /\ account' = account /\ groups' = [groups EXCEPT ![v] = groups[v] \ {g}]
      /\ lost' = Losing(account', groups') /\ mixed' = mixed \union {v}
      /\ UNCHANGED <<tab, cnow, cleft>>
  BY <1>0, <1>2 DEF RemoveFromGroup, Change
<1>5. ureq' = [ureq EXCEPT ![r] = q]
  BY <1>0
<1>6. /\ q \in UserRequest /\ q.pc = "assign" /\ q.op = ureq[r].op /\ q.by = ureq[r].by
      /\ q.on = ureq[r].on /\ q.role = ureq[r].role /\ q.drop = ureq[r].drop \ {g}
      /\ q.clean = ureq[r].clean /\ q.add = ureq[r].add
  BY <1>1, <1>3 DEF UserRequest
<1>7. SoundRequest(ureq[r])
  BY DEF ConsoleInv
<1> HIDE DEF q
<1>8. SoundRequest(q)
  BY <1>1, <1>6, <1>7 DEF SoundRequest
<1>9. ureq'[r] = q
  BY <1>3, <1>5
<1>10. Working(r)'
  <2> SUFFICES ASSUME q.clean, q.op # "deploy"
               PROVE  /\ q.drop \subseteq groups'[v]
                      /\ groups'[v] \ q.drop = IF q.add THEN {} ELSE {q.role}
    BY <1>2, <1>6, <1>9 DEF Working
  <2>1. /\ ureq[r].drop \subseteq groups[v]
        /\ groups[v] \ ureq[r].drop = IF ureq[r].add THEN {} ELSE {ureq[r].role}
    BY <1>1, <1>2, <1>6 DEF ConsoleInv, Working
  <2>2. groups'[v] = groups[v] \ {g} /\ g \in ureq[r].drop
    BY <1>0, <1>3, <1>4
  <2>3. groups'[v] \ q.drop = groups[v] \ ureq[r].drop
    BY <1>6, <2>2
  <2> QED
    BY <1>6, <2>1, <2>2, <2>3
<1>11. Relost /\ Moves(r)
  BY <1>1, <1>4 DEF Relost, Moves
<1>12. OneGroup(v)'
  BY <1>4 DEF OneGroup
<1>13. /\ account' \in [Users -> {"none", "on", "off"}] /\ groups' \in [Users -> SUBSET Roles]
       /\ \A u \in Users \ {v} : /\ account'[u] = account[u] /\ groups'[u] = groups[u]
                                 /\ u \in mixed' <=> u \in mixed
       /\ mixed' \subseteq Users
  BY <1>3, <1>4
<1> QED
  BY <1>2, <1>3, <1>4, <1>5, <1>6, <1>8, <1>10, <1>11, <1>12, <1>13, NextCall

LEMMA SeedKeeps ==
  ASSUME ConsoleInv, NEW r \in UserReqs, SeedAccount(r)
  PROVE  ConsoleInv'
<1>1. ureq[r].pc = "deploy" /\ Master \in Users
  BY ConsoleNaturals DEF SeedAccount
<1>2. /\ account \in [Users -> {"none", "on", "off"}] /\ groups \in [Users -> SUBSET Roles]
      /\ cleft \in Left /\ mixed \subseteq Users
      /\ ureq[r] \in UserRequest /\ ureq \in [UserReqs -> UserRequest]
  BY <1>1, UnderWay
<1> DEFINE q == [ureq[r] EXCEPT !.pc = "assign", !.add = TRUE]
<1>3. /\ account' = [account EXCEPT ![Master] = IF account[Master] = "none" THEN "on"
                                               ELSE account[Master]]
      /\ groups' = groups /\ lost' = Losing(account', groups')
      /\ mixed' = IF account[Master] = "none" THEN mixed \union {Master} ELSE mixed
      /\ UNCHANGED <<tab, cnow, cleft>>
  BY DEF SeedAccount, Change
<1>4. ureq' = [ureq EXCEPT ![r] = q]
  BY <1>2 DEF SeedAccount, UserRequest
<1>5. /\ q \in UserRequest /\ q.pc = "assign" /\ q.op = ureq[r].op /\ q.by = ureq[r].by
      /\ q.on = ureq[r].on /\ q.role = ureq[r].role /\ q.drop = ureq[r].drop
      /\ q.clean = ureq[r].clean /\ q.add
  BY <1>2 DEF UserRequest
<1>6. /\ SoundRequest(ureq[r]) /\ ureq[r].op = "deploy" /\ ureq[r].role = "admin"
      /\ ureq[r].on = Master
  BY <1>1 DEF ConsoleInv, SoundRequest
<1> HIDE DEF q
<1>7. SoundRequest(q)
  BY <1>1, <1>5, <1>6 DEF SoundRequest, Roles
<1>8. ureq'[r] = q
  BY <1>2, <1>4
<1>9. Working(r)'
  BY <1>5, <1>6, <1>8 DEF Working
<1>10. Relost /\ Moves(r)
  BY <1>1, <1>3 DEF Relost, Moves
<1>11. OneGroup(Master)'
  BY <1>1, <1>2, <1>3 DEF OneGroup, ConsoleInv
<1>12. /\ account' \in [Users -> {"none", "on", "off"}] /\ groups' \in [Users -> SUBSET Roles]
       /\ \A u \in Users \ {Master} : /\ account'[u] = account[u] /\ groups'[u] = groups[u]
                                      /\ u \in mixed' <=> u \in mixed
       /\ mixed' \subseteq Users
  BY <1>1, <1>2, <1>3
<1> QED
  BY <1>1, <1>2, <1>3, <1>4, <1>5, <1>6, <1>7, <1>9, <1>10, <1>11, <1>12, NextCall

LEMMA AddKeeps ==
  ASSUME ConsoleInv, NEW r \in UserReqs, AddToGroup(r)
  PROVE  ConsoleInv'
<1>1. ureq[r].pc = "assign" /\ ureq[r].drop = {}
  BY DEF AddToGroup
<1>2. PICK v \in Users : ureq[r].on = v
  BY <1>1, UnderWay
<1>3. /\ account \in [Users -> {"none", "on", "off"}] /\ groups \in [Users -> SUBSET Roles]
      /\ cleft \in Left /\ mixed \subseteq Users
  BY <1>1, UnderWay
<1>4. /\ account' = account
      /\ groups' = IF ureq[r].add THEN [groups EXCEPT ![v] = groups[v] \union {ureq[r].role}]
                   ELSE groups
      /\ lost' = Losing(account', groups') /\ Finish(r) /\ UNCHANGED <<tab, cnow, cleft>>
      /\ mixed' = IF ureq[r].clean /\ ureq[r].op # "deploy" THEN mixed \ {v}
                  ELSE IF ureq[r].clean /\ groups[v] \subseteq {ureq[r].role} THEN mixed
                  ELSE mixed \union {v}
  BY <1>2 DEF AddToGroup, Change
<1>5. ureq[r].role \in Roles /\ (ureq[r].op = "deploy" => ureq[r].add)
  BY <1>1 DEF ConsoleInv, SoundRequest
<1>6. Relost /\ Moves(r)
  BY <1>1, <1>4 DEF Relost, Moves
<1>7. groups'[v] = IF ureq[r].add THEN groups[v] \union {ureq[r].role} ELSE groups[v]
  BY <1>3, <1>4
<1>8. OneGroup(v)'
  <2>1. CASE ureq[r].clean /\ ureq[r].op # "deploy"
    <3>1. groups[v] \ ureq[r].drop = IF ureq[r].add THEN {} ELSE {ureq[r].role}
      BY <1>1, <1>2, <2>1 DEF ConsoleInv, Working
    <3>2. groups[v] = IF ureq[r].add THEN {} ELSE {ureq[r].role}
      BY <1>1, <3>1
    <3>3. groups'[v] = {ureq[r].role}
      BY <1>7, <3>2
    <3> QED
      BY <1>5, <3>3 DEF OneGroup
  <2>2. CASE ureq[r].clean /\ ureq[r].op = "deploy" /\ groups[v] \subseteq {ureq[r].role}
    <3>1. groups'[v] = {ureq[r].role}
      BY <1>5, <1>7, <2>2
    <3> QED
      BY <1>5, <3>1 DEF OneGroup
  <2>3. CASE /\ ~(ureq[r].clean /\ ureq[r].op # "deploy")
             /\ ~(ureq[r].clean /\ groups[v] \subseteq {ureq[r].role})
    BY <1>4, <2>3 DEF OneGroup
  <2> QED
    BY <2>1, <2>2, <2>3
<1>9. /\ account' \in [Users -> {"none", "on", "off"}] /\ groups' \in [Users -> SUBSET Roles]
      /\ \A u \in Users \ {v} : account'[u] = account[u] /\ groups'[u] = groups[u]
  BY <1>3, <1>4, <1>5
<1>10. mixed' \subseteq Users /\ \A u \in Users \ {v} : u \in mixed' <=> u \in mixed
  BY <1>3, <1>4
<1> QED
  BY <1>2, <1>3, <1>4, <1>6, <1>8, <1>9, <1>10, LastCall

-----------------------------------------------------------------------------
(* A request that starts.                                                  *)

NewRequest(op, by, on, role, pc, clean) ==
  [IdleUser EXCEPT !.pc = pc, !.op = op, !.by = by, !.on = on, !.role = role, !.clean = clean]

LEMMA StartKeeps ==
  ASSUME ConsoleInv, NEW r \in UserReqs, ureq[r].pc = "idle",
         NEW op, NEW by, NEW on \in Users, NEW role, NEW pc,
         Starting(r, op, by, on, role, pc),
         \A clean \in BOOLEAN :
           /\ NewRequest(op, by, on, role, pc, clean) \in UserRequest
           /\ SoundRequest(NewRequest(op, by, on, role, pc, clean))
           /\ NewRequest(op, by, on, role, pc, clean).pc = pc
           /\ NewRequest(op, by, on, role, pc, clean).by = by
           /\ NewRequest(op, by, on, role, pc, clean).on = on
           /\ NewRequest(op, by, on, role, pc, clean).clean = clean,
         pc # "assign", op \in {"enable", "disable"} <=> pc \in {"enable", "disable"},
         by \in Users => TokenLife # 0 /\ (lost[by] = 0 \/ cnow < lost[by] + TokenLife),
         UNCHANGED <<account, groups, tab, cnow, lost>>, cleft' \in Left
  PROVE  ConsoleInv'
<1>1. PICK alone \in BOOLEAN : alone = (Moving(on) = {} \/ op \in {"enable", "disable"})
  OBVIOUS
<1> DEFINE q == NewRequest(op, by, on, role, pc, alone)
<1>2. /\ ureq' = [s \in UserReqs |->
             IF s = r THEN q
             ELSE IF s \in Moving(on) /\ ~alone THEN [ureq[s] EXCEPT !.clean = FALSE]
             ELSE ureq[s]]
      /\ mixed' = IF alone THEN mixed ELSE mixed \union {on}
  BY <1>1 DEF Starting, NewRequest
<1>3. /\ q \in UserRequest /\ SoundRequest(q)
      /\ q.pc = pc /\ q.by = by /\ q.on = on /\ q.clean = alone
  OBVIOUS
<1> HIDE DEF q
<1>4. ureq'[r] = q
  BY <1>2
<1>5. ASSUME NEW s \in UserReqs, s # r
      PROVE  /\ ureq'[s] \in UserRequest /\ SoundRequest(ureq'[s])
             /\ ureq'[s].pc = ureq[s].pc /\ ureq'[s].by = ureq[s].by
             /\ ureq'[s].on = ureq[s].on /\ ureq'[s].drop = ureq[s].drop
             /\ ureq'[s].op = ureq[s].op /\ ureq'[s].role = ureq[s].role
             /\ ureq'[s].add = ureq[s].add
             /\ ureq'[s].clean => ureq[s].clean
             /\ (s \in Moving(on) /\ ~alone) => ~ureq'[s].clean
  <2>1. ureq[s] \in UserRequest /\ SoundRequest(ureq[s])
    BY ConsoleTypes DEF ConsoleInv
  <2>2. CASE s \in Moving(on) /\ ~alone
    <3> DEFINE p == [ureq[s] EXCEPT !.clean = FALSE]
    <3>1. ureq'[s] = p
      BY <1>2, <1>5, <2>2
    <3>2. /\ p \in UserRequest /\ p.pc = ureq[s].pc /\ p.by = ureq[s].by /\ p.on = ureq[s].on
          /\ p.drop = ureq[s].drop /\ p.op = ureq[s].op /\ p.role = ureq[s].role
          /\ p.add = ureq[s].add /\ ~p.clean
      BY <2>1 DEF UserRequest
    <3>3. ureq[s].pc # "idle"
      BY <2>2 DEF Moving
    <3> HIDE DEF p
    <3>4. SoundRequest(p)
      BY <2>1, <3>2, <3>3 DEF SoundRequest
    <3> QED
      BY <3>1, <3>2, <3>4
  <2>3. CASE ~(s \in Moving(on) /\ ~alone)
    <3>1. ureq'[s] = ureq[s]
      BY <1>2, <1>5, <2>3
    <3> QED
      BY <2>1, <2>3, <3>1
  <2> QED
    BY <2>2, <2>3
<1>6. ConsoleTypeOK'
  <2>1. ASSUME NEW s \in UserReqs PROVE ureq'[s] \in UserRequest
    BY <1>3, <1>4, <1>5
  <2>2. ureq' \in [UserReqs -> UserRequest]
    BY <1>2, <2>1
  <2>3. /\ account' \in [Users -> {"none", "on", "off"}] /\ groups' \in [Users -> SUBSET Roles]
        /\ tab' \in [Users -> ConsoleTab] /\ cnow' \in 1..Days /\ lost' \in [Users -> 0..Days]
        /\ mixed \subseteq Users
    BY ConsoleTypes DEF ConsoleInv
  <2>4. mixed' \subseteq Users
    BY <1>2, <2>3
  <2> QED
    BY <2>2, <2>3, <2>4 DEF ConsoleTypeOK, UserRequest, ConsoleTab, Left
<1>7. Apart'
  <2> SUFFICES ASSUME NEW p \in UserReqs, NEW s \in UserReqs, p # s, Moves(p)', Moves(s)',
                      ureq'[p].on = ureq'[s].on
               PROVE  ~ureq'[p].clean
    BY DEF Apart
  <2>1. ASSUME NEW h \in UserReqs, h # r, Moves(h)'
        PROVE  Moves(h) /\ (ureq'[h].on = on => h \in Moving(on))
    BY <1>5, <2>1 DEF Moves, Moving
  <2>2. Moves(r)' => (alone <=> Moving(on) = {})
    BY <1>1, <1>3, <1>4 DEF Moves
  <2>3. CASE p = r
    <3>1. s \in Moving(on)
      BY <1>3, <1>4, <2>1, <2>3
    <3> QED
      BY <1>3, <1>4, <2>2, <2>3, <3>1
  <2>4. CASE s = r
    <3>1. p \in Moving(on)
      BY <1>3, <1>4, <2>1, <2>4
    <3> QED
      BY <1>5, <2>2, <2>4, <3>1
  <2>5. CASE p # r /\ s # r
    <3>1. Moves(p) /\ Moves(s)
      BY <2>1, <2>5
    <3>2. ureq[p].on = ureq[s].on
      BY <1>5, <2>5
    <3>3. ~ureq[p].clean
      BY <3>1, <3>2 DEF ConsoleInv, Apart
    <3> QED
      BY <1>5, <2>5, <3>3
  <2> QED
    BY <2>3, <2>4, <2>5
<1>8. ASSUME NEW s \in UserReqs PROVE SoundRequest(ureq'[s]) /\ Working(s)' /\ Recent(s)'
  <2>1. CASE s = r
    <3>1. SoundRequest(ureq'[s]) /\ Working(s)'
      BY <1>3, <1>4, <2>1 DEF Working
    <3>2. Recent(s)'
      BY <1>3, <1>4, <2>1 DEF Recent
    <3> QED
      BY <3>1, <3>2
  <2>2. CASE s # r
    <3>1. SoundRequest(ureq'[s])
      BY <1>5, <2>2
    <3>2. Working(s)'
      <4>1. Working(s)
        BY DEF ConsoleInv
      <4>2. /\ ureq'[s].pc = ureq[s].pc /\ ureq'[s].on = ureq[s].on
            /\ ureq'[s].drop = ureq[s].drop /\ ureq'[s].op = ureq[s].op
            /\ ureq'[s].role = ureq[s].role /\ ureq'[s].add = ureq[s].add
            /\ ureq'[s].clean => ureq[s].clean
        BY <1>5, <2>2
      <4> QED
        BY <4>1, <4>2 DEF Working
    <3>3. Recent(s)'
      BY <1>5, <2>2 DEF ConsoleInv, Recent
    <3> QED
      BY <3>1, <3>2, <3>3
  <2> QED
    BY <2>1, <2>2
<1>9. ASSUME NEW u \in Users PROVE Believed(u)' /\ OneGroup(u)'
  <2>1. Believed(u)'
    BY BeliefStands DEF Relost
  <2>2. OneGroup(u)'
    BY <1>2 DEF ConsoleInv, OneGroup
  <2> QED
    BY <2>1, <2>2
<1> QED
  BY <1>6, <1>7, <1>8, <1>9 DEF ConsoleInv

\* Whoever is let in holds a token with the admin group that is good still.
LEMMA LetInRecently ==
  ASSUME ConsoleInv, NEW by \in Users, TokenFresh(by), NEW op \in DOMAIN RouteOf,
         RouteOf[op] \in Allowed[resolveRole(tab[by].token)]
  PROVE  TokenLife # 0 /\ (lost[by] = 0 \/ cnow < lost[by] + TokenLife)
<1>1. tab[by].token \in SUBSET Roles
  BY ConsoleTypes DEF ConsoleInv, ConsoleTab
<1>2. "admin" \in tab[by].token
  <2>1. resolveRole(tab[by].token) \in Roles \union {NoRole}
    BY <1>1, Resolved
  <2>2. resolveRole(tab[by].token) = "admin"
    BY <2>1, UserTable DEF UserTable
  <2> QED
    BY <1>1, <2>2, Resolved
<1>3. tab[by].issued <= cnow /\ (lost[by] = 0 \/ tab[by].issued <= lost[by])
  BY <1>2 DEF ConsoleInv, Believed
<1>4. cnow \in Nat /\ lost[by] \in Nat /\ tab[by].issued \in Nat
  BY ConsoleTimes DEF ConsoleInv
<1>5. cnow < tab[by].issued + TokenLife
  BY DEF TokenFresh
<1> QED
  BY <1>3, <1>4, <1>5, ConsoleNaturals

LEMMA BeginKeeps ==
  ASSUME ConsoleInv, NEW r \in UserReqs, NEW by \in Users, NEW on \in Users,
         NEW op, NEW role,
         \/ op \in {"role", "create"} /\ role \in Roles
         \/ op \in {"delete", "disable", "enable"} /\ role = NoRole,
         BeginUserRequest(r, by, op, on, role)
  PROVE  ConsoleInv'
<1> DEFINE pc == IF op = "role" THEN "list" ELSE op
           made(clean) == NewRequest(op, by, on, role, pc, clean)
<1>1. op \in DOMAIN RouteOf /\ role \in Roles \union {NoRole}
  BY DEF RouteOf
<1>2. TokenLife # 0 /\ (lost[by] = 0 \/ cnow < lost[by] + TokenLife)
  BY <1>1, LetInRecently DEF BeginUserRequest
<1>3. /\ Starting(r, op, by, on, role, pc) /\ ureq[r].pc = "idle"
      /\ cleft' = [cleft EXCEPT !.edits = cleft.edits - 1] /\ cleft.edits > 0
      /\ UNCHANGED <<account, groups, tab, cnow, lost>>
      /\ ~refuseSelf(by, op, on, role)
  BY DEF BeginUserRequest
<1>4. cleft' \in Left
  <2>1. cleft \in Left
    BY ConsoleTypes DEF ConsoleInv
  <2>2. cleft.edits - 1 \in 0..UserEdits
    BY <1>3, <2>1, ConsoleNaturals DEF Left
  <2> QED
    BY <1>3, <2>1, <2>2 DEF Left
<1>5. ASSUME NEW clean \in BOOLEAN
      PROVE  /\ made(clean) \in UserRequest /\ made(clean).pc = pc /\ made(clean).by = by
             /\ made(clean).on = on /\ made(clean).clean = clean
             /\ SoundRequest(made(clean))
  <2>1. /\ made(clean) \in UserRequest /\ made(clean).pc = pc /\ made(clean).by = by
        /\ made(clean).on = on /\ made(clean).clean = clean /\ made(clean).op = op
        /\ made(clean).role = role /\ made(clean).drop = {}
    BY <1>1 DEF NewRequest, IdleUser, UserRequest, RouteOf
  <2> HIDE DEF made
  <2>2. SoundRequest(made(clean))
    BY <1>3, <2>1 DEF SoundRequest
  <2> QED
    BY <2>1, <2>2
<1>6. pc # "assign" /\ (op \in {"enable", "disable"} <=> pc \in {"enable", "disable"})
  OBVIOUS
<1> QED
  BY <1>2, <1>3, <1>4, <1>5, <1>6, StartKeeps

LEMMA DeploymentKeeps ==
  ASSUME ConsoleInv, NEW r \in UserReqs, BeginDeployment(r)
  PROVE  ConsoleInv'
<1> DEFINE made(clean) == NewRequest("deploy", NoRole, Master, "admin", "deploy", clean)
<1>1. Master \in Users /\ NoRole \notin Users
  BY ConsoleNaturals
<1>2. /\ Starting(r, "deploy", NoRole, Master, "admin", "deploy") /\ ureq[r].pc = "idle"
      /\ cleft' = [cleft EXCEPT !.deployments = cleft.deployments - 1] /\ cleft.deployments > 0
      /\ UNCHANGED <<account, groups, tab, cnow, lost>>
  BY DEF BeginDeployment
<1>3. cleft' \in Left
  <2>1. cleft \in Left
    BY ConsoleTypes DEF ConsoleInv
  <2>2. cleft.deployments - 1 \in 0..Deployments
    BY <1>2, <2>1, ConsoleNaturals DEF Left
  <2> QED
    BY <1>2, <2>1, <2>2 DEF Left
<1>4. ASSUME NEW clean \in BOOLEAN
      PROVE  /\ made(clean) \in UserRequest /\ made(clean).pc = "deploy"
             /\ made(clean).by = NoRole /\ made(clean).on = Master
             /\ made(clean).clean = clean /\ SoundRequest(made(clean))
  <2>1. /\ made(clean) \in UserRequest /\ made(clean).pc = "deploy"
        /\ made(clean).by = NoRole /\ made(clean).on = Master /\ made(clean).clean = clean
        /\ made(clean).op = "deploy" /\ made(clean).role = "admin" /\ made(clean).drop = {}
    BY <1>1 DEF NewRequest, IdleUser, UserRequest, RouteOf, Roles
  <2> HIDE DEF made
  <2>2. SoundRequest(made(clean))
    BY <1>1, <2>1 DEF SoundRequest
  <2> QED
    BY <2>1, <2>2
<1> QED
  BY <1>1, <1>2, <1>3, <1>4, StartKeeps

-----------------------------------------------------------------------------
(* The console in the browser, and the clock.                              *)

\* A token issued now to an account that is on: its groups are the user's.
LEMMA TabKeeps ==
  ASSUME ConsoleInv, NEW u \in Users, NEW t \in ConsoleTab,
         tab' = [tab EXCEPT ![u] = t],
         UNCHANGED <<account, groups, ureq, cnow, lost, mixed, cleft>>,
         \/ t = SignedOut
         \/ t.token = tab[u].token /\ t.issued = tab[u].issued
         \/ t.token = groups[u] /\ t.issued = cnow /\ account[u] = "on",
         t.me # NoRole => t.page \in DOMAIN Pages /\ AtLeast(t.me, Pages[t.page].floor)
  PROVE  ConsoleInv'
<1>1. tab \in [Users -> ConsoleTab] /\ tab' \in [Users -> ConsoleTab] /\ tab'[u] = t
  BY ConsoleTypes DEF ConsoleInv
<1>2. ConsoleTypeOK'
  <2>1. /\ account' \in [Users -> {"none", "on", "off"}] /\ groups' \in [Users -> SUBSET Roles]
        /\ ureq' \in [UserReqs -> UserRequest] /\ cnow' \in 1..Days
        /\ lost' \in [Users -> 0..Days] /\ mixed' \subseteq Users /\ cleft' \in Left
    BY ConsoleTypes DEF ConsoleInv
  <2> QED
    BY <1>1, <2>1 DEF ConsoleTypeOK, UserRequest, ConsoleTab, Left
<1>3. Apart' /\ \A r \in UserReqs : SoundRequest(ureq'[r]) /\ Working(r)' /\ Recent(r)'
  BY DEF ConsoleInv, Apart, Moves, Working, Recent
<1>4. ASSUME NEW v \in Users PROVE Believed(v)' /\ OneGroup(v)'
  <2>1. OneGroup(v)'
    BY DEF ConsoleInv, OneGroup
  <2>2. CASE v # u
    <3>1. tab'[v] = tab[v]
      BY <1>1, <2>2
    <3> QED
      BY <2>1, <3>1 DEF ConsoleInv, Believed, IsAdmin, SignedIn
  <2>3. CASE v = u
    <3>1. (lost'[u] = 0 <=> IsAdmin(u)') /\ lost'[u] <= cnow'
      BY DEF ConsoleInv, Believed, IsAdmin
    <3>2. /\ t.issued <= cnow
          /\ "admin" \in t.token => lost[u] = 0 \/ t.issued <= lost[u]
      <4>1. cnow \in Nat
        BY ConsoleTimes DEF ConsoleInv
      <4>2. CASE t = SignedOut
        <5>1. t.issued = 0 /\ t.token = {}
          BY <4>2 DEF SignedOut
        <5> QED
          BY <4>1, <5>1
      <4>3. CASE t.token = tab[u].token /\ t.issued = tab[u].issued
        BY <4>3 DEF ConsoleInv, Believed
      <4>4. CASE t.token = groups[u] /\ t.issued = cnow /\ account[u] = "on"
        <5>1. "admin" \in groups[u] => lost[u] = 0
          BY <4>4 DEF ConsoleInv, Believed, IsAdmin
        <5> QED
          BY <4>1, <4>4, <5>1
      <4> QED
        BY <4>2, <4>3, <4>4
    <3>3. SignedIn(u)' => t.page \in DOMAIN Pages /\ AtLeast(t.me, Pages[t.page].floor)
      BY <1>1 DEF SignedIn
    <3>4. Believed(u)'
      BY <1>1, <3>1, <3>2, <3>3 DEF Believed
    <3> QED
      BY <2>1, <2>3, <3>4
  <2> QED
    BY <2>2, <2>3
<1> QED
  BY <1>2, <1>3, <1>4 DEF ConsoleInv

LEMMA TabFields ==
  ASSUME ConsoleInv, NEW u \in Users
  PROVE  /\ tab[u] \in ConsoleTab /\ groups[u] \in SUBSET Roles /\ tab[u].token \in SUBSET Roles
         /\ cnow \in 0..Days
         /\ tab[u] = [me |-> tab[u].me, token |-> tab[u].token, issued |-> tab[u].issued,
                      page |-> tab[u].page]
         /\ SignedIn(u) => /\ tab[u].me \in Roles /\ tab[u].page \in DOMAIN Pages
                           /\ AtLeast(tab[u].me, Pages[tab[u].page].floor)
<1>1. tab[u] \in ConsoleTab /\ groups[u] \in SUBSET Roles
  BY ConsoleTypes DEF ConsoleInv
<1>2. cnow \in 0..Days
  <2>1. cnow \in 1..Days
    BY ConsoleTypes DEF ConsoleInv
  <2> QED
    BY <2>1, ConsoleNaturals
<1>3. SignedIn(u) => tab[u].page \in DOMAIN Pages /\ AtLeast(tab[u].me, Pages[tab[u].page].floor)
  BY DEF ConsoleInv, Believed
<1> QED
  BY <1>1, <1>2, <1>3 DEF ConsoleTab, SignedIn

LEMMA SignedOutIsTab == SignedOut \in ConsoleTab /\ SignedOut.me = NoRole
BY ConsoleNaturals DEF SignedOut, ConsoleTab

LEMMA SignInKeeps ==
  ASSUME ConsoleInv, NEW u \in Users, SignIn(u)
  PROVE  ConsoleInv'
<1>1. groups[u] \in SUBSET Roles /\ cnow \in 0..Days
  BY TabFields
<1>2. account[u] = "on" /\ UNCHANGED <<account, groups, ureq, cnow, lost, mixed, cleft>>
  BY DEF SignIn
<1>3. CASE resolveRole(groups[u]) = NoRole
  <2>1. tab' = [tab EXCEPT ![u] = SignedOut]
    BY <1>3 DEF SignIn
  <2> QED
    BY <1>2, <2>1, SignedOutIsTab, TabKeeps
<1>4. CASE resolveRole(groups[u]) # NoRole
  <2> DEFINE t == [me |-> resolveRole(groups[u]), token |-> groups[u], issued |-> cnow,
                   page |-> "overview"]
  <2>1. tab' = [tab EXCEPT ![u] = t]
    BY <1>4 DEF SignIn
  <2>2. resolveRole(groups[u]) \in Roles
    BY <1>1, <1>4, Resolved
  <2>3. t \in ConsoleTab /\ t.token = groups[u] /\ t.issued = cnow
    BY <1>1, <2>2, OverviewOpens DEF ConsoleTab
  <2>4. t.page \in DOMAIN Pages /\ AtLeast(t.me, Pages[t.page].floor)
    BY <2>2, OverviewOpens
  <2> HIDE DEF t
  <2> QED
    BY <1>2, <2>1, <2>3, <2>4, TabKeeps
<1> QED
  BY <1>3, <1>4

LEMMA SessionKeeps ==
  ASSUME ConsoleInv, NEW u \in Users, currentSession(u)
  PROVE  ConsoleInv'
<1> DEFINE t == [tab[u] EXCEPT !.token = groups[u], !.issued = cnow]
<1>1. tab' = [tab EXCEPT ![u] = t]
  BY ConsoleTypes DEF ConsoleInv, ConsoleTab, currentSession
<1>2. account[u] = "on" /\ UNCHANGED <<account, groups, ureq, cnow, lost, mixed, cleft>>
  BY DEF currentSession
<1>3. /\ t \in ConsoleTab /\ t.token = groups[u] /\ t.issued = cnow /\ t.me = tab[u].me
      /\ t.page = tab[u].page
  BY TabFields DEF ConsoleTab
<1>4. t.page \in DOMAIN Pages /\ AtLeast(t.me, Pages[t.page].floor)
  BY <1>3, TabFields DEF currentSession
<1> HIDE DEF t
<1> QED
  BY <1>1, <1>2, <1>3, <1>4, TabKeeps

LEMMA RestoreKeeps ==
  ASSUME ConsoleInv, NEW u \in Users, restore(u)
  PROVE  ConsoleInv'
<1> DEFINE renewed == IF TokenFresh(u) THEN tab[u]
                      ELSE [tab[u] EXCEPT !.token = groups[u], !.issued = cnow]
           role == resolveRole(renewed.token)
           t == [renewed EXCEPT !.me = role, !.page = Landed(role, renewed.page)]
<1>1. /\ tab' = [tab EXCEPT ![u] = IF role = NoRole \/ ~(TokenFresh(u) \/ account[u] = "on")
                                  THEN SignedOut ELSE t]
      /\ SignedIn(u) /\ UNCHANGED <<account, groups, ureq, cnow, lost, mixed, cleft>>
  BY DEF restore
<1>2. /\ renewed \in ConsoleTab /\ renewed.token \in SUBSET Roles
      /\ renewed.page = tab[u].page /\ renewed.page \in DOMAIN Pages
  BY <1>1, TabFields DEF ConsoleTab
<1>3. IF TokenFresh(u) THEN renewed.token = tab[u].token /\ renewed.issued = tab[u].issued
      ELSE renewed.token = groups[u] /\ renewed.issued = cnow
  BY TabFields DEF ConsoleTab
<1> HIDE DEF renewed
<1>4. CASE role = NoRole \/ ~(TokenFresh(u) \/ account[u] = "on")
  <2>1. tab' = [tab EXCEPT ![u] = SignedOut]
    BY <1>1, <1>4
  <2> QED
    BY <1>1, <2>1, SignedOutIsTab, TabKeeps
<1>5. CASE role # NoRole /\ (TokenFresh(u) \/ account[u] = "on")
  <2>1. tab' = [tab EXCEPT ![u] = t]
    BY <1>1, <1>5
  <2>2. role \in Roles
    BY <1>2, <1>5, Resolved
  <2>3. /\ Landed(role, renewed.page) \in DOMAIN Pages
        /\ AtLeast(role, Pages[Landed(role, renewed.page)].floor)
    BY <1>2, <2>2, LandedOpens
  <2>4. /\ t \in ConsoleTab /\ t.token = renewed.token /\ t.issued = renewed.issued
        /\ t.me = role /\ t.page = Landed(role, renewed.page)
    BY <1>2, <2>2, <2>3 DEF ConsoleTab
  <2> HIDE DEF t, role
  <2>5. \/ t.token = tab[u].token /\ t.issued = tab[u].issued
        \/ t.token = groups[u] /\ t.issued = cnow /\ account[u] = "on"
    BY <1>3, <1>5, <2>4
  <2> QED
    BY <1>1, <2>1, <2>3, <2>4, <2>5, TabKeeps
<1> QED
  BY <1>4, <1>5

LEMMA VisitKeeps ==
  ASSUME ConsoleInv, NEW u \in Users, NEW page \in DOMAIN Pages, Visit(u, page)
  PROVE  ConsoleInv'
<1> DEFINE t == [tab[u] EXCEPT !.page = Landed(tab[u].me, page)]
<1>1. /\ tab' = [tab EXCEPT ![u] = t] /\ SignedIn(u)
      /\ UNCHANGED <<account, groups, ureq, cnow, lost, mixed, cleft>>
  BY DEF Visit
<1>2. /\ Landed(tab[u].me, page) \in DOMAIN Pages
      /\ AtLeast(tab[u].me, Pages[Landed(tab[u].me, page)].floor)
  BY <1>1, TabFields, LandedOpens
<1>3. /\ t \in ConsoleTab /\ t.token = tab[u].token /\ t.issued = tab[u].issued
      /\ t.me = tab[u].me /\ t.page = Landed(tab[u].me, page)
  BY <1>2, TabFields DEF ConsoleTab
<1> HIDE DEF t
<1> QED
  BY <1>1, <1>2, <1>3, TabKeeps

LEMMA SignOutKeeps ==
  ASSUME ConsoleInv, NEW u \in Users, signOut(u)
  PROVE  ConsoleInv'
<1>1. /\ tab' = [tab EXCEPT ![u] = SignedOut]
      /\ UNCHANGED <<account, groups, ureq, cnow, lost, mixed, cleft>>
  BY DEF signOut
<1> QED
  BY <1>1, SignedOutIsTab, TabKeeps

LEMMA ConsoleTickKeeps ==
  ASSUME ConsoleInv, ConsoleTick
  PROVE  ConsoleInv'
<1>1. /\ cnow < Days /\ cnow' = cnow + 1 /\ \A r \in UserReqs : ureq[r].pc = "idle"
      /\ UNCHANGED <<account, groups, tab, ureq, lost, mixed, cleft>>
  BY DEF ConsoleTick
<1>2. /\ cnow \in Nat /\ \A u \in Users : lost[u] \in Nat /\ tab[u].issued \in Nat
  BY ConsoleTimes DEF ConsoleInv
<1>3. cnow' \in 1..Days
  BY <1>1, <1>2, ConsoleNaturals
<1>4. ConsoleTypeOK'
  BY <1>1, <1>3 DEF ConsoleInv, ConsoleTypeOK
<1>5. Apart' /\ \A r \in UserReqs : SoundRequest(ureq'[r]) /\ Working(r)'
  BY <1>1 DEF ConsoleInv, Apart, Moves, Working
<1>6. ASSUME NEW r \in UserReqs PROVE Recent(r)'
  <2>1. ureq'[r].by = NoRole
    BY <1>1, IdleFields DEF ConsoleInv, SoundRequest
  <2> QED
    BY <2>1, ConsoleNaturals DEF Recent
<1>7. ASSUME NEW u \in Users PROVE Believed(u)' /\ OneGroup(u)'
  <2>1. Believed(u) /\ OneGroup(u)
    BY DEF ConsoleInv
  <2>2. lost[u] <= cnow' /\ tab[u].issued <= cnow'
    BY <1>1, <1>2, <2>1 DEF Believed
  <2> QED
    BY <1>1, <2>1, <2>2 DEF Believed, OneGroup, IsAdmin, SignedIn
<1> QED
  BY <1>4, <1>5, <1>6, <1>7 DEF ConsoleInv

LEMMA ConsoleInvStands ==
  ASSUME ConsoleInv, [ConsoleNext]_consoleVars
  PROVE  ConsoleInv'
<1>1. CASE UNCHANGED consoleVars
  <2>1. UNCHANGED <<account, groups, tab, ureq, cnow, lost, mixed, cleft>>
    BY <1>1 DEF consoleVars
  <2>2. ConsoleTypeOK' /\ Apart'
    BY <2>1 DEF ConsoleInv, ConsoleTypeOK, Apart, Moves
  <2>3. \A r \in UserReqs : SoundRequest(ureq'[r]) /\ Working(r)' /\ Recent(r)'
    BY <2>1 DEF ConsoleInv, Working, Recent
  <2>4. \A u \in Users : Believed(u)' /\ OneGroup(u)'
    BY <2>1 DEF ConsoleInv, Believed, OneGroup, IsAdmin, SignedIn
  <2> QED
    BY <2>2, <2>3, <2>4 DEF ConsoleInv
<1>2. CASE Browsing
  BY <1>2, SignInKeeps, SessionKeeps, RestoreKeeps, SignOutKeeps, VisitKeeps DEF Browsing
<1>3. CASE UserManagement
  <2>1. PICK r \in UserReqs :
          \/ \E by, on \in Users, op \in {"role", "create"}, role \in Roles :
               BeginUserRequest(r, by, op, on, role)
          \/ \E by, on \in Users, op \in {"delete", "disable", "enable"} :
               BeginUserRequest(r, by, op, on, NoRole)
          \/ deleteUser(r) \/ setEnabled(r) \/ createUser(r) \/ groupsForUser(r)
          \/ RemoveFromGroup(r) \/ AddToGroup(r) \/ CognitoRefuses(r)
          \/ BeginDeployment(r) \/ SeedAccount(r)
    BY <1>3 DEF UserManagement
  <2>2. ASSUME NEW by \in Users, NEW on \in Users, NEW op \in {"role", "create"},
               NEW role \in Roles, BeginUserRequest(r, by, op, on, role)
        PROVE  ConsoleInv'
    BY <2>2, BeginKeeps
  <2>3. ASSUME NEW by \in Users, NEW on \in Users, NEW op \in {"delete", "disable", "enable"},
               BeginUserRequest(r, by, op, on, NoRole)
        PROVE  ConsoleInv'
    BY <2>3, BeginKeeps
  <2>4. CASE \/ deleteUser(r) \/ setEnabled(r) \/ createUser(r) \/ groupsForUser(r)
             \/ RemoveFromGroup(r) \/ AddToGroup(r) \/ CognitoRefuses(r)
             \/ BeginDeployment(r) \/ SeedAccount(r)
    BY <2>4, DeleteUserKeeps, SetEnabledKeeps, CreateUserKeeps, GroupsReadKeeps, RemoveKeeps,
       AddKeeps, RefusalKeeps, DeploymentKeeps, SeedKeeps
  <2> QED
    BY <2>1, <2>2, <2>3, <2>4
<1>4. CASE ConsoleTick
  BY <1>4, ConsoleTickKeeps
<1> QED
  BY <1>1, <1>2, <1>3, <1>4 DEF ConsoleNext

LEMMA ConsoleInvIsSafe ==
  ASSUME ConsoleInv
  PROVE  ConsoleSafety
<1>1. PagesAnswered
  <2> SUFFICES ASSUME NEW u \in Users, SignedIn(u)
               PROVE  /\ AtLeast(tab[u].me, Pages[tab[u].page].floor)
                      /\ (/\ resolveRole(tab[u].token) # NoRole
                          /\ AtLeast(resolveRole(tab[u].token), tab[u].me)) =>
                           Offered(tab[u].page, tab[u].me)
                             \subseteq Served[resolveRole(tab[u].token)]
    BY DEF PagesAnswered
  <2>1. /\ tab[u].token \in SUBSET Roles /\ tab[u].me \in Roles /\ tab[u].page \in DOMAIN Pages
        /\ AtLeast(tab[u].me, Pages[tab[u].page].floor)
    BY TabFields
  <2>2. resolveRole(tab[u].token) \in Roles \union {NoRole}
    BY <2>1, Resolved
  <2> QED
    BY <2>1, <2>2, PageTable DEF PageTable
<1>2. SettingsLead
  <2>1. \A u \in Users : SignedIn(u) => tab[u].me \in Roles
    BY TabFields
  <2> QED
    BY <2>1, SettingsTable DEF SettingsLead, SettingsTable
<1>3. OneRoleEach
  <2> SUFFICES ASSUME NEW u \in Users, account[u] # "none", u \notin mixed
               PROVE  Cardinality(groups[u] \cap Roles) = 1
    BY DEF OneRoleEach
  <2>1. PICK g \in Roles : groups[u] = {g}
    BY DEF ConsoleInv, OneGroup
  <2>2. groups[u] \cap Roles = {g}
    BY <2>1
  <2> QED
    BY <2>2, FS_Singleton
<1>4. FormerAdminsStop
  BY DEF ConsoleInv, Recent, FormerAdminsStop
<1> QED
  BY <1>1, <1>2, <1>3, <1>4 DEF ConsoleInv, ConsoleSafety

\* However many users, requests, deployments and failures: the console's pages
\* are ones the API answers, an account outside a request has one role unless an
\* assignment went wrong, and whoever has lost the admin role has no request let
\* in once an ID token's life is over.
THEOREM FormerAdminsAreStopped == ConsoleSpec => []ConsoleSafety
<1>1. ConsoleInv /\ [ConsoleNext]_consoleVars => ConsoleInv'
  BY ConsoleInvStands
<1>2. ConsoleInit => ConsoleInv
  BY ConsoleInitially
<1>3. ConsoleInv => ConsoleSafety
  BY ConsoleInvIsSafe
<1> QED
  BY <1>1, <1>2, <1>3, PTL DEF ConsoleSpec

-----------------------------------------------------------------------------
(* THE LAST ADMIN.                                                         *)
(*                                                                         *)
(* Only three Cognito calls end an admin's role, each on the account its   *)
(* request is about; nobody is let in who asks for that of themselves,     *)
(* except by creating their own account anew.                              *)

TakenBy(r, u) ==
  /\ ureq[r].on = u /\ ureq[r].by \in Users /\ ureq'[r] # ureq[r]
  /\ ureq[r].by # u \/ ureq[r].op = "create"
  /\ \A v \in Users \ {u} : account'[v] = account[v] /\ groups'[v] = groups[v]

LEMMA DeletionTakes ==
  ASSUME ConsoleInv, NEW r \in UserReqs, deleteUser(r) \/ setEnabled(r),
         NEW u \in Users, IsAdmin(u), ~IsAdmin(u)'
  PROVE  TakenBy(r, u)
<1>1. ureq[r].pc \in {"delete", "enable", "disable"}
  BY DEF deleteUser, setEnabled
<1>2. PICK v \in Users : ureq[r].on = v
  BY <1>1, UnderWay
<1>3. /\ account \in [Users -> {"none", "on", "off"}] /\ groups \in [Users -> SUBSET Roles]
      /\ ureq \in [UserReqs -> UserRequest] /\ SoundRequest(ureq[r])
  BY <1>1, UnderWay
<1>4. /\ \A w \in Users \ {v} : account'[w] = account[w] /\ groups'[w] = groups[w]
      /\ ureq'[r] = IdleUser
  BY <1>2, <1>3 DEF deleteUser, setEnabled, Change, Finish
<1>5. u = v
  BY <1>4 DEF IsAdmin
<1>6. ureq[r].pc # "enable"
  BY <1>2, <1>3, <1>5 DEF deleteUser, setEnabled, Change, IsAdmin
<1>7. /\ ureq[r].op = ureq[r].pc
      /\ ureq[r].by \in Users
      /\ ~refuseSelf(ureq[r].by, ureq[r].op, ureq[r].on, ureq[r].role)
  BY <1>1, <1>3 DEF SoundRequest
<1>8. ureq[r].by # u
  BY <1>1, <1>2, <1>5, <1>6, <1>7 DEF refuseSelf
<1>9. ureq'[r] # ureq[r]
  BY <1>1, <1>4, IdleFields
<1> QED
  BY <1>2, <1>4, <1>5, <1>7, <1>8, <1>9 DEF TakenBy

LEMMA RemovalTakes ==
  ASSUME ConsoleInv, NEW r \in UserReqs, RemoveFromGroup(r),
         NEW u \in Users, IsAdmin(u), ~IsAdmin(u)'
  PROVE  TakenBy(r, u)
<1>1. ureq[r].pc = "assign"
  BY DEF RemoveFromGroup
<1>2. PICK v \in Users : ureq[r].on = v
  BY <1>1, UnderWay
<1>3. /\ account \in [Users -> {"none", "on", "off"}] /\ groups \in [Users -> SUBSET Roles]
      /\ ureq \in [UserReqs -> UserRequest] /\ SoundRequest(ureq[r])
      /\ ureq[r] \in UserRequest
  BY <1>1, UnderWay
<1>4. PICK g \in ureq[r].drop :
        /\ account' = account /\ groups' = [groups EXCEPT ![v] = groups[v] \ {g}]
        /\ ureq' = [ureq EXCEPT ![r].drop = ureq[r].drop \ {g}]
  BY <1>2 DEF RemoveFromGroup, Change
<1>5. \A w \in Users \ {v} : account'[w] = account[w] /\ groups'[w] = groups[w]
  BY <1>3, <1>4
<1>6. u = v /\ g = "admin"
  BY <1>3, <1>4, <1>5 DEF IsAdmin
<1>7. ureq'[r].drop = ureq[r].drop \ {g}
  BY <1>3, <1>4 DEF UserRequest
<1>8. /\ ureq[r].by \in Users /\ ureq[r].role # "admin" /\ ureq[r].op \in {"role", "create"}
      /\ ~refuseSelf(ureq[r].by, ureq[r].op, ureq[r].on, ureq[r].role)
  BY <1>1, <1>3, <1>4, <1>6 DEF SoundRequest
<1>9. ureq[r].by # u \/ ureq[r].op = "create"
  BY <1>2, <1>6, <1>8 DEF refuseSelf
<1> QED
  BY <1>2, <1>4, <1>5, <1>6, <1>7, <1>8, <1>9 DEF TakenBy

\* The calls that add to an account or a group end nobody's role.
LEMMA AdditionTakesNone ==
  ASSUME ConsoleInv, NEW r \in UserReqs, createUser(r) \/ AddToGroup(r) \/ SeedAccount(r),
         NEW u \in Users, IsAdmin(u)
  PROVE  IsAdmin(u)'
<1>1. ureq[r].pc # "idle"
  BY DEF createUser, AddToGroup, SeedAccount
<1>2. PICK v \in Users : ureq[r].on = v
  BY <1>1, UnderWay
<1>3. account \in [Users -> {"none", "on", "off"}] /\ groups \in [Users -> SUBSET Roles]
  BY <1>1, UnderWay
<1>4. account[u] = "on" /\ "admin" \in groups[u]
  BY DEF IsAdmin
<1>5. CASE createUser(r)
  BY <1>2, <1>3, <1>4, <1>5 DEF createUser, Change, IsAdmin
<1>6. CASE AddToGroup(r)
  BY <1>2, <1>3, <1>4, <1>6 DEF AddToGroup, Change, IsAdmin
<1>7. CASE SeedAccount(r)
  BY <1>3, <1>4, <1>7, ConsoleNaturals DEF SeedAccount, Change, IsAdmin
<1> QED
  BY <1>5, <1>6, <1>7

LEMMA SomeoneTook ==
  ASSUME ConsoleInv, ConsoleNext, NEW u \in Users, IsAdmin(u), ~IsAdmin(u)'
  PROVE  \E r \in UserReqs : TakenBy(r, u)
<1>1. ~UNCHANGED <<account, groups>>
  BY DEF IsAdmin
<1>2. ~Browsing /\ ~ConsoleTick
  BY <1>1 DEF Browsing, ConsoleTick, SignIn, currentSession, restore, signOut, Visit
<1>3. PICK r \in UserReqs :
        \/ deleteUser(r) \/ setEnabled(r) \/ RemoveFromGroup(r)
        \/ createUser(r) \/ AddToGroup(r) \/ SeedAccount(r)
  BY <1>1, <1>2 DEF ConsoleNext, UserManagement, BeginUserRequest, groupsForUser,
                    CognitoRefuses, BeginDeployment
<1> QED
  BY <1>3, DeletionTakes, RemovalTakes, AdditionTakesNone

LEMMA LastAdminStep ==
  ASSUME ConsoleInv, ConsoleNext
  PROVE  LastAdminTaken
<1> SUFFICES ASSUME NEW u \in Users, IsAdmin(u), \A w \in Users : ~IsAdmin(w)'
             PROVE  \E r \in UserReqs :
                      /\ ureq'[r] # ureq[r] /\ ureq[r].by \in Users
                      /\ \/ ~IsAdmin(ureq[r].by)
                         \/ ureq[r].op = "create" /\ ureq[r].on = ureq[r].by
  BY DEF LastAdminTaken
<1>1. PICK r \in UserReqs : TakenBy(r, u)
  BY SomeoneTook
<1>2. PICK b \in Users : ureq[r].by = b
  BY <1>1 DEF TakenBy
<1>3. CASE b = u
  BY <1>1, <1>2, <1>3 DEF TakenBy
<1>4. CASE b # u
  <2>1. account'[b] = account[b] /\ groups'[b] = groups[b]
    BY <1>1, <1>4 DEF TakenBy
  <2>2. ~IsAdmin(b)
    BY <2>1 DEF IsAdmin
  <2> QED
    BY <1>1, <1>2, <2>2 DEF TakenBy
<1> QED
  BY <1>3, <1>4

\* However many admins, users and requests: the last admin is taken away only by
\* a request of someone who was no admin any more by then, or by one who was
\* deleted and is creating their own account again.
THEOREM NoAdminLocksOut == ConsoleSpec => [][LastAdminTaken]_consoleVars
<1>1. ConsoleInv /\ [ConsoleNext]_consoleVars => ConsoleInv'
  BY ConsoleInvStands
<1>2. ConsoleInit => ConsoleInv
  BY ConsoleInitially
<1>3. ConsoleInv /\ [ConsoleNext]_consoleVars => [LastAdminTaken]_consoleVars
  BY LastAdminStep
<1> QED
  BY <1>1, <1>2, <1>3, PTL DEF ConsoleSpec

-----------------------------------------------------------------------------
(* THE TWO TOGETHER, as a behaviour of the control plane takes either.     *)

LEMMA ControlSteps ==
  ASSUME [ControlNext]_controlVars
  PROVE  [McpNext]_mcpVars /\ [ConsoleNext]_consoleVars
<1>1. CASE UNCHANGED controlVars
  BY <1>1 DEF controlVars
<1>2. CASE McpPart /\ UNCHANGED consoleVars
  BY <1>2 DEF McpPart, McpNext
<1>3. CASE ConsolePart /\ UNCHANGED mcpVars
  <2>1. ASSUME NEW u \in Users, Look(u)
        PROVE  Browsing
    <3>1. "users" \in DOMAIN Pages
      BY PageTable DEF PageTable
    <3>2. \/ SignIn(u) \/ currentSession(u) \/ restore(u) \/ signOut(u)
          \/ \E page \in DOMAIN Pages : Visit(u, page)
      BY <2>1, <3>1 DEF Look
    <3> QED
      BY <3>2 DEF Browsing
  <2>2. UserManagement \/ ConsoleTick \/ Browsing
    BY <1>3, <2>1 DEF ConsolePart
  <2> QED
    BY <1>3, <2>2 DEF ConsoleNext
<1>4. CASE UNCHANGED <<mcpVars, consoleVars>>
  BY <1>4
<1> QED
  BY <1>1, <1>2, <1>3, <1>4 DEF ControlNext

\* Whatever part of the control plane a behaviour runs, the tokens and the
\* accounts are safe in it, and the last admin is never taken by another admin.
THEOREM AccessIsSafe == ControlSpec => AccessSafety
<1>1. ControlInit => McpInv /\ ConsoleInv
  BY McpInitially, ConsoleInitially DEF ControlInit
<1>2. [ControlNext]_controlVars => [McpNext]_mcpVars /\ [ConsoleNext]_consoleVars
  BY ControlSteps
<1>3. McpInv /\ [McpNext]_mcpVars => McpInv'
  BY McpInvStands
<1>4. ConsoleInv /\ [ConsoleNext]_consoleVars => ConsoleInv'
  BY ConsoleInvStands
<1>5. ConsoleInv /\ [ConsoleNext]_consoleVars => [LastAdminTaken]_consoleVars
  BY LastAdminStep
<1>6. McpInv => McpSafety
  BY McpInvIsSafe
<1>7. ConsoleInv => ConsoleSafety
  BY ConsoleInvIsSafe
<1>8. McpInv /\ ConsoleInv =>
        (part = "tokens" => McpSafety) /\ (part = "accounts" => ConsoleSafety)
  BY <1>6, <1>7
<1> QED
  BY <1>1, <1>2, <1>3, <1>4, <1>5, <1>8, PTL DEF ControlSpec, AccessSafety
=============================================================================
