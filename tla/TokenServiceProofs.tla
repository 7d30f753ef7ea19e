-------------------------- MODULE TokenServiceProofs --------------------------
(***************************************************************************)
(* Proofs about TokenService, for any number of tasks, any configurations  *)
(* and callers: the service implements the client and, for each task, the  *)
(* authorization; type correctness; its two safety properties; and that it *)
(* implements the contract Delegation.                                     *)
(*                                                                         *)
(* What the client promises is not proved again: the service implements    *)
(* the client, so the theorems of GithubClientProofs hold of it (CP), and  *)
(* the lemmas of AuthorizationProofs that speak of one decision only are   *)
(* used likewise (AP).                                                     *)
(***************************************************************************)
EXTENDS TokenService, TLAPS

CP ==
  INSTANCE GithubClientProofs WITH Request <- Task, Wanted <- InstallationTokenCacheKey

AP == INSTANCE AuthorizationProofs WITH exchange <- [status |-> "none"]

-----------------------------------------------------------------------------
(* THE CLIENT *)

(* Client and CP are the same module under the same substitution. *)
LEMMA ClientAssumed ==
  /\ CP!NoValueAssumption /\ CP!ConstantsAssumption
  /\ CP!TimeAssumption /\ CP!LatencyAssumption
<1>1. CP!NoValueAssumption
  BY NoValueAssumption
     DEF CP!NoValueAssumption, CP!Token, Token, CP!InstallationId, InstallationId
<1>2. CP!ConstantsAssumption
  BY PartsAssumption
     DEF CP!ConstantsAssumption, Client!ConstantsAssumption,
         CP!InstallationTokenCacheKey, Client!InstallationTokenCacheKey,
         CP!InstallationTarget, Client!InstallationTarget,
         CP!TokenScope, Client!TokenScope
<1>3. CP!TimeAssumption
  BY PartsAssumption DEF CP!TimeAssumption, Client!TimeAssumption
<1>4. CP!LatencyAssumption
  BY PartsAssumption DEF CP!LatencyAssumption, Client!LatencyAssumption
<1> QED
  BY <1>1, <1>2, <1>3, <1>4

LEMMA SameInit == Client!Init <=> CP!Init
BY Zenon DEF Client!Init, CP!Init, Client!Idle, CP!Idle

LEMMA SameNext == Client!Next <=> CP!Next
BY Zenon
  DEF Client!Create, CP!Create, Client!UseCachedToken, CP!UseCachedToken,
      Client!BuildJwt, CP!BuildJwt, Client!Sign, CP!Sign, Client!UseCachedId,
      CP!UseCachedId, Client!LookUpId, CP!LookUpId, Client!CacheId, CP!CacheId,
      Client!AnswerRepository, CP!AnswerRepository, Client!AnswerOrganization,
      CP!AnswerOrganization, Client!AnswerUser, CP!AnswerUser, Client!Mint, CP!Mint,
      Client!Receive, CP!Receive, Client!CacheToken, CP!CacheToken, Client!Fail,
      CP!Fail, Client!Cancel, CP!Cancel, Client!Restart, CP!Restart, Client!Change,
      CP!Change, Client!Tick, CP!Tick, Client!Progress, CP!Progress, Client!Next,
      CP!Next, Client!At, CP!At, Client!FreshEntries, CP!FreshEntries,
      Client!EntriesOf, CP!EntriesOf, Client!Returned, CP!Returned, Client!Idle,
      CP!Idle, Client!Moved, CP!Moved, Client!CachedIds, CP!CachedIds,
      Client!IdCacheKey, CP!IdCacheKey, Client!Requesting, CP!Requesting,
      Client!ScopeRefused, CP!ScopeRefused, Client!InsertId, CP!InsertId,
      Client!JwtAccepted, CP!JwtAccepted, Client!IssuedAt, CP!IssuedAt,
      Client!Expiry, CP!Expiry, Client!Installed, CP!Installed, Client!Found,
      CP!Found, Client!CurrentId, CP!CurrentId, Client!RequestedRepositories,
      CP!RequestedRepositories, Client!Live, CP!Live, Client!InsertToken,
      CP!InsertToken, Client!RefreshAfter, CP!RefreshAfter, Client!Awaiting,
      CP!Awaiting

LEMMA SameSpec == Client!Spec => CP!Spec
<1>1. [Client!Next]_(Client!vars) => [CP!Next]_(CP!vars)
  BY SameNext DEF Client!vars, CP!vars
<1> QED
  BY <1>1, SameInit, PTL DEF Client!Spec, CP!Spec

(* A request and the scope it is granted make a key. *)
LEMMA KeyTyped ==
  ASSUME NEW request \in Rules!Request, NEW scope \in TokenScope
  PROVE  Key(request, scope) \in InstallationTokenCacheKey
BY DEF Key, InstallationTokenCacheKey, Rules!Request, Rules!InstallationTarget,
       InstallationTarget

LEMMA ClientSteps == [Next]_vars => [Client!Next]_(Client!vars)
<1> SUFFICES ASSUME [Next]_vars PROVE Client!Next \/ UNCHANGED client
  BY DEF Client!vars, client
<1>1. ASSUME NEW t \in Task, NEW request \in Rules!Request, NEW scope \in TokenScope,
             Begin(t, request, scope)
      PROVE  Client!Next
  BY <1>1, KeyTyped DEF Begin, Client!Next
<1>2. ASSUME NEW t \in Task, NEW request \in Rules!Request,
             (\E scope \in TokenScope : MissKey(t, request, scope)) \/ Reject(t, request)
      PROVE  UNCHANGED client
  BY <1>2 DEF MissKey, Reject
<1>3. ASSUME NEW t \in Task,
             Work(t) \/ CallFails(t) \/ Relay(t) \/ RelayFails(t) \/ Disconnect(t)
      PROVE  Client!Next \/ UNCHANGED client
  BY <1>3 DEF Work, CallFails, Relay, RelayFails, Disconnect, Client!Next
<1>4. CASE Start \/ Stop \/ Deploy \/ Tick \/ UNCHANGED vars
  BY <1>4 DEF Start, Stop, Deploy, Tick, vars, Client!Next
<1>5. CASE \E app \in App : ChangeKey(app)
  BY <1>5 DEF ChangeKey
<1>6. CASE \E app \in App, account \in Account : Change(app, account)
  BY <1>6 DEF Change, Client!Next
<1> QED
  BY <1>1, <1>2, <1>3, <1>4, <1>5, <1>6 DEF Next, Serve

(* The handlers use the client as it specifies, and a stop is its restart. *)
THEOREM ClientImplemented == Spec => ImplementsClient
<1>1. Init => Client!Init
  BY DEF Init
<1> QED
  BY <1>1, ClientSteps, PTL DEF Spec, Client!Spec, ImplementsClient

LEMMA ClientInvariants ==
  Spec => [](CP!TypeOK /\ CP!Isolation /\ CP!Timely)
<1>1. Spec => CP!Spec
  BY ClientImplemented, SameSpec, PTL DEF ImplementsClient
<1> QED
  BY <1>1, ClientAssumed, CP!TypeCorrect, CP!TokensAreIsolated, CP!AlwaysTimely, PTL

-----------------------------------------------------------------------------
(* THE AUTHORIZATION *)

Exchange ==
  [request : Rules!Request, status : {"granted", "unauthorized", "not_found"},
   scope : TokenScope]

(* The exchange Decide gives task t. *)
Exchanged(request, status, scope) == [request |-> request, status |-> status, scope |-> scope]

LEMMA DecideExchanges ==
  ASSUME NEW t \in Task, DOMAIN exchanges = Task,
         NEW request, NEW status, NEW scope, Decide(t, request, status, scope)
  PROVE  /\ exchanges'[t] = Exchanged(request, status, scope)
         /\ \A u \in Task \ {t} : exchanges'[u] = exchanges[u]
         /\ DOMAIN exchanges' = Task
BY DEF Decide, Exchanged

LEMMA DecideAnswers ==
  ASSUME NEW t, NEW request, Auth(t)!Decide(request)
  PROVE  serving /\ UNCHANGED process
BY DEF Auth!Decide, Auth!RefuseBearer, Auth!RefuseApp, Auth!SkipAuthorization, Auth!GrantRole,
       Auth!GrantPolicy, Auth!Refuse, Auth!Answer, process

(* A decision on a request of task t is a step of its authorization and none of
   that of the others. *)
LEMMA DecideSteps ==
  ASSUME NEW t \in Task, DOMAIN exchanges = Task, NEW request \in Rules!Request,
         NEW status, NEW scope, Decide(t, request, status, scope), NEW u \in Task
  PROVE  UNCHANGED Auth(u)!vars \/ Auth(u)!Next
<1>1. CASE u = t
  <2>1. Auth(t)!Decide(request) /\ request \in Auth(t)!Request
    BY DEF Decide, Auth!Request, Rules!Request, Auth!InstallationTarget,
           Rules!InstallationTarget
  <2> QED
    BY <1>1, <2>1 DEF Auth!Next
<1>2. CASE u # t
  <2>1. Auth(t)!Decide(request)
    BY DEF Decide
  <2> QED
    BY <1>2, <2>1, DecideExchanges, DecideAnswers DEF Auth!vars, process
<1> QED
  BY <1>1, <1>2

LEMMA AuthorizationSteps ==
  ASSUME DOMAIN exchanges = Task, [Next]_vars
  PROVE  \A u \in Task : UNCHANGED Auth(u)!vars \/ Auth(u)!Next
<1> SUFFICES ASSUME NEW u \in Task PROVE UNCHANGED Auth(u)!vars \/ Auth(u)!Next
  OBVIOUS
<1>1. ASSUME NEW t \in Task, NEW request \in Rules!Request,
             \/ \E scope \in TokenScope :
                  Begin(t, request, scope) \/ MissKey(t, request, scope)
             \/ Reject(t, request)
      PROVE  UNCHANGED Auth(u)!vars \/ Auth(u)!Next
  BY <1>1, DecideSteps DEF Begin, MissKey, Reject
<1>2. CASE UNCHANGED <<process, exchanges>>
  BY <1>2 DEF process, Auth!vars
<1>3. ASSUME NEW t \in Task,
             Work(t) \/ CallFails(t) \/ Relay(t) \/ RelayFails(t) \/ Disconnect(t)
      PROVE  UNCHANGED Auth(u)!vars \/ Auth(u)!Next
  BY <1>2, <1>3 DEF Work, CallFails, Relay, RelayFails, Disconnect
<1>4. CASE Start \/ Stop \/ Deploy
  BY <1>4 DEF Start, Stop, Deploy, Auth!Next
<1>5. CASE Tick \/ (\E app \in App : ChangeKey(app))
             \/ (\E app \in App, account \in Account : Change(app, account)) \/ UNCHANGED vars
  BY <1>2, <1>5 DEF Tick, ChangeKey, Change, vars
<1> QED
  BY <1>1, <1>3, <1>4, <1>5 DEF Next, Serve

LEMMA DomainKept ==
  ASSUME DOMAIN exchanges = Task, [Next]_vars
  PROVE  DOMAIN exchanges' = Task
<1>1. ASSUME NEW t \in Task, NEW request \in Rules!Request,
             \/ \E scope \in TokenScope :
                  Begin(t, request, scope) \/ MissKey(t, request, scope)
             \/ Reject(t, request)
      PROVE  DOMAIN exchanges' = Task
  BY <1>1, DecideExchanges DEF Begin, MissKey, Reject
<1> QED
  BY <1>1
     DEF Next, Serve, Work, CallFails, Relay, RelayFails, Disconnect, Start, Stop, Deploy,
         Tick, ChangeKey, Change, vars

(* Each task decides as the authorization specifies, whatever the others do. *)
THEOREM AuthorizationImplemented == Spec => ImplementsAuthorization
<1>1. Init => DOMAIN exchanges = Task /\ \A t \in Task : Auth(t)!Init
  BY DEF Init, NoExchange, Auth!Init, Auth!NoExchange
<1>2. DOMAIN exchanges = Task /\ [Next]_vars =>
        /\ (DOMAIN exchanges = Task)'
        /\ [\A t \in Task : UNCHANGED Auth(t)!vars \/ Auth(t)!Next]_vars
  BY DomainKept, AuthorizationSteps
<1> QED
  BY <1>1, <1>2, PTL DEF Spec, ImplementsAuthorization

-----------------------------------------------------------------------------
(* ONE CALL *)

LEMMA SameOperators ==
  /\ Client!Awaiting = CP!Awaiting
  /\ Client!TypeOK <=> CP!TypeOK
  /\ Client!Idle = CP!Idle
<1>1. Client!Awaiting = CP!Awaiting
  BY Zenon DEF Client!Awaiting, CP!Awaiting
<1>2. Client!TypeOK <=> CP!TypeOK
  BY Zenon DEF Client!TypeOK, CP!TypeOK, Client!IdCacheKey, CP!IdCacheKey,
               Client!InstallationId, CP!InstallationId, Client!Token, CP!Token,
               Client!Call, CP!Call, Client!Awaiting, CP!Awaiting, Client!Holding, CP!Holding,
               Client!InstallationTokenCacheKey, CP!InstallationTokenCacheKey,
               Client!InstallationTarget, CP!InstallationTarget,
               Client!TokenScope, CP!TokenScope, Client!ScopeRefused, CP!ScopeRefused
<1>3. Client!Idle = CP!Idle
  BY Zenon DEF Client!Idle, CP!Idle
<1> QED
  BY <1>1, <1>2, <1>3

LEMMA IdleStep == Client!Idle.step = "idle"
BY ClientAssumed, CP!IdleCall, SameOperators

(* What becomes of a call in one step of its task. *)
Onward(c, d) ==
  /\ d.step = "idle" \/ d.step \in Client!Awaiting \/ d.step = "returned"
  /\ d.step # "idle" => d.key = c.key
  /\ d.step = "returned" => d.since = now

LEMMA MovedOnward ==
  ASSUME CP!TypeOK, NEW t \in Task, NEW step \in Client!Awaiting
  PROVE  /\ Onward(call[t], Client!Moved(t, step))
         /\ Client!Moved(t, step) \in CP!Call
         /\ Client!Moved(t, step).step = step
         /\ Client!Moved(t, step).key = call[t].key
<1>1. Client!Moved(t, step) = CP!Moved(t, step)
  BY Zenon DEF Client!Moved, CP!Moved
<1>2. /\ CP!Moved(t, step) \in CP!Call /\ CP!Moved(t, step).step = step
      /\ CP!Moved(t, step).key = call[t].key
  BY ClientAssumed, CP!MovedCall, SameOperators
<1> QED
  BY <1>1, <1>2 DEF Onward, Client!Awaiting

LEMMA ReturnedOnward ==
  ASSUME CP!TypeOK, NEW t \in Task, NEW token \in CP!Token
  PROVE  Onward(call[t], Client!Returned(t, token))
<1>1. Client!Returned(t, token) = CP!Returned(t, token)
  BY Zenon DEF Client!Returned, CP!Returned, Client!Idle, CP!Idle
<1>2. /\ CP!Returned(t, token).step = "returned" /\ CP!Returned(t, token).key = call[t].key
      /\ CP!Returned(t, token).since = now
  BY ClientAssumed, CP!ReturnedCall
<1> QED
  BY <1>1, <1>2 DEF Onward, Client!Awaiting

LEMMA RequestingOnward ==
  ASSUME CP!TypeOK, NEW t \in Task, NEW id
  PROVE  Onward(call[t], Client!Requesting(t, id)) /\ Onward(call[t], Client!Found(t, id))
<1>1. ASSUME NEW step \in {"post", "insert_id"}
      PROVE  Onward(call[t], [Client!Moved(t, step) EXCEPT !.id = id])
  <2>1. step \in Client!Awaiting
    BY DEF Client!Awaiting
  <2>2. /\ Client!Moved(t, step) \in CP!Call /\ Client!Moved(t, step).step = step
        /\ Client!Moved(t, step).key = call[t].key
    BY <2>1, MovedOnward
  <2> QED
    BY <2>1, <2>2 DEF Onward, CP!Call
<1>2. Onward(call[t], Client!Idle)
  BY IdleStep DEF Onward
<1> QED
  BY <1>1, <1>2 DEF Client!Requesting, Client!Found

(* A step of task t of its call moves the call on, and no other call. *)
LEMMA OneCallOnward ==
  ASSUME CP!TypeOK, NEW t \in Task, Client!Progress(t) \/ Client!Fail(t) \/ Client!Cancel(t)
  PROVE  /\ \A u \in Task \ {t} : call'[u] = call[u]
         /\ Onward(call[t], call'[t])
         /\ UNCHANGED now
<1> SUFFICES \E c : Onward(call[t], c) /\ call' = [call EXCEPT ![t] = c] /\ UNCHANGED now
  BY DEF CP!TypeOK
<1>0. Onward(call[t], Client!Idle)
  BY IdleStep DEF Onward
<1>1. CASE Client!UseCachedToken(t)
  <2>1. PICK e \in Client!FreshEntries(call[t].key, call[t].sample) :
               call' = [call EXCEPT ![t] = Client!Returned(t, e.token)]
    BY <1>1 DEF Client!UseCachedToken
  <2>2. e.token \in CP!Token
    BY DEF Client!FreshEntries, Client!EntriesOf, CP!TypeOK
  <2> QED
    BY <1>1, <2>1, <2>2, ReturnedOnward DEF Client!UseCachedToken
<1>2. CASE Client!BuildJwt(t)
  <2> DEFINE c == [Client!Moved(t, "sign") EXCEPT !.jwt = now]
  <2>1. "sign" \in Client!Awaiting
    BY DEF Client!Awaiting
  <2>2. Onward(call[t], c)
    BY <2>1, MovedOnward DEF Onward, CP!Call
  <2> QED
    BY <1>2, <2>2 DEF Client!BuildJwt
<1>3. CASE Client!Sign(t)
  BY <1>3, MovedOnward DEF Client!Sign, Client!Awaiting
<1>4. CASE Client!UseCachedId(t)
  BY <1>4, RequestingOnward DEF Client!UseCachedId
<1>5. CASE Client!LookUpId(t)
  BY <1>5, MovedOnward DEF Client!LookUpId, Client!Awaiting
<1>6. CASE Client!CacheId(t)
  BY <1>6, RequestingOnward DEF Client!CacheId
<1>7. CASE Client!AnswerRepository(t)
  BY <1>0, <1>7, RequestingOnward DEF Client!AnswerRepository
<1>8. CASE Client!AnswerOrganization(t)
  <2>1. Onward(call[t], Client!Moved(t, "get_user"))
    BY MovedOnward DEF Client!Awaiting
  <2> QED
    BY <1>0, <1>8, <2>1, RequestingOnward DEF Client!AnswerOrganization
<1>9. CASE Client!AnswerUser(t)
  BY <1>0, <1>9, RequestingOnward DEF Client!AnswerUser
<1>10. CASE Client!Mint(t)
  <2>1. ASSUME NEW token
        PROVE  Onward(call[t], [Client!Moved(t, "reply") EXCEPT !.token = token])
    <3>1. "reply" \in Client!Awaiting
      BY DEF Client!Awaiting
    <3> QED
      BY <3>1, MovedOnward DEF Onward, CP!Call
  <2> QED
    BY <1>0, <1>10, <2>1 DEF Client!Mint
<1>11. CASE Client!Receive(t)
  <2> DEFINE c == [Client!Moved(t, "insert_token") EXCEPT !.sample = now]
  <2>1. "insert_token" \in Client!Awaiting
    BY DEF Client!Awaiting
  <2>2. Onward(call[t], c)
    BY <2>1, MovedOnward DEF Onward, CP!Call
  <2> QED
    BY <1>11, <2>2 DEF Client!Receive
<1>12. CASE Client!CacheToken(t)
  <2>1. call[t].token \in CP!Token
    BY <1>12 DEF Client!CacheToken, Client!At, CP!TypeOK, CP!Holding
  <2> QED
    BY <1>12, <2>1, ReturnedOnward DEF Client!CacheToken
<1>13. CASE Client!Fail(t) \/ Client!Cancel(t)
  BY <1>0, <1>13 DEF Client!Fail, Client!Cancel
<1> QED
  BY <1>1, <1>2, <1>3, <1>4, <1>5, <1>6, <1>7, <1>8, <1>9, <1>10, <1>11, <1>12, <1>13
     DEF Client!Progress

-----------------------------------------------------------------------------
(* ENTITLEMENT *)

LEMMA AuthorizationAssumed == AP!AuthorizationAssumption
BY PartsAssumption, Zenon
   DEF AP!AuthorizationAssumption, Rules!AuthorizationAssumption, AP!WellFormed,
       Rules!WellFormed, AP!RoleConfig, Rules!RoleConfig, AP!PolicyConfig, Rules!PolicyConfig,
       AP!Policies, Rules!Policies, AP!BearerToken, Rules!BearerToken, AP!Table, Rules!Table,
       AP!Claim, Rules!Claim, AP!InstallationTarget, Rules!InstallationTarget

(* Rules, AP and the authorization of every task say the same of a policy. *)
LEMMA SameRules ==
  /\ \A c, disabled : Rules!Valid(c, disabled) <=> AP!Valid(c, disabled)
  /\ \A t \in Task : \A c, disabled : Auth(t)!Valid(c, disabled) <=> Rules!Valid(c, disabled)
  /\ \A request : Rules!AllowedRoleMatch(request) <=> AP!AllowedRoleMatch(request)
  /\ \A request : Rules!RoleEntitles(request) <=> AP!RoleEntitles(request)
  /\ \A policy, request :
       Rules!PolicyMatches(policy, request) <=> AP!PolicyMatches(policy, request)
  /\ \A policy, request :
       Rules!PolicyEntitles(policy, request) <=> AP!PolicyEntitles(policy, request)
  /\ \A c, kind : Rules!Policies(c, kind) = AP!Policies(c, kind)
  /\ \A c, policy, kind :
       Rules!ValidPolicy(c, policy, kind) <=> AP!ValidPolicy(c, policy, kind)
<1> USE DEF AP!Names, Rules!Names, AP!Satisfies, Rules!Satisfies, AP!RoleHolds, Rules!RoleHolds,
            AP!SelfAccessClaim, Rules!SelfAccessClaim, AP!Policies, Rules!Policies,
            AP!ValidPolicy, Rules!ValidPolicy
<1>1. \A c, disabled : Rules!Valid(c, disabled) <=> AP!Valid(c, disabled)
  BY Zenon DEF AP!Valid, Rules!Valid, AP!ValidApp, Rules!ValidApp, AP!ValidPolicies,
               Rules!ValidPolicies, AP!HasPolicy, Rules!HasPolicy
<1>2. \A t \in Task : \A c, disabled : Auth(t)!Valid(c, disabled) <=> Rules!Valid(c, disabled)
  BY Zenon DEF Auth!Valid, Rules!Valid, Auth!ValidApp, Rules!ValidApp, Auth!ValidPolicies,
               Rules!ValidPolicies, Auth!HasPolicy, Rules!HasPolicy, Auth!Policies,
               Auth!ValidPolicy, Auth!Names, Auth!SelfAccessClaim
<1>3. \A request : Rules!AllowedRoleMatch(request) <=> AP!AllowedRoleMatch(request)
  BY Zenon DEF AP!AllowedRoleMatch, Rules!AllowedRoleMatch, AP!MatchingRoles,
               Rules!MatchingRoles
<1>4. \A request : Rules!RoleEntitles(request) <=> AP!RoleEntitles(request)
  BY Zenon DEF AP!RoleEntitles, Rules!RoleEntitles
<1>5. ASSUME NEW policy, NEW request
      PROVE  Rules!PolicyMatches(policy, request) <=> AP!PolicyMatches(policy, request)
  BY Zenon DEF AP!PolicyMatches, Rules!PolicyMatches, AP!RoleHoldsWithClaims,
               Rules!RoleHoldsWithClaims, AP!ClaimsForRequest, Rules!ClaimsForRequest,
               AP!Extend, Rules!Extend, AP!Rendered, Rules!Rendered
<1>6. \A policy, request :
        Rules!PolicyEntitles(policy, request) <=> AP!PolicyEntitles(policy, request)
  BY Zenon DEF AP!PolicyEntitles, Rules!PolicyEntitles, AP!Rendered, Rules!Rendered
<1>7. \A c, kind : Rules!Policies(c, kind) = AP!Policies(c, kind)
  BY Zenon
<1>8. \A c, policy, kind :
        Rules!ValidPolicy(c, policy, kind) <=> AP!ValidPolicy(c, policy, kind)
  BY Zenon
<1> HIDE DEF AP!Names, Rules!Names, AP!Satisfies, Rules!Satisfies, AP!RoleHolds, Rules!RoleHolds,
            AP!SelfAccessClaim, Rules!SelfAccessClaim, AP!Policies, Rules!Policies,
            AP!ValidPolicy, Rules!ValidPolicy
<1> QED
  BY <1>1, <1>2, <1>3, <1>4, <1>5, <1>6, <1>7, <1>8

(* The configuration, as the process has accepted it. *)
ProcessOK ==
  /\ config \in Config
  /\ disable_auth \in BOOLEAN
  /\ serving \in BOOLEAN
  /\ serving => Rules!Valid(config, disable_auth)

(* What the configuration served has to say for a granted exchange. *)
EntitledByPolicy(e, policy) ==
  /\ Rules!PolicyEntitles(policy, e.request)
  /\ e.scope = Rules!PolicyScope(policy, e.request.target.kind)
  /\ policy.permissions # {}

Entitled(e) ==
  \/ disable_auth
  \/ Rules!RoleEntitles(e.request)
  \/ \E i \in DOMAIN Rules!Policies(config, e.request.target.kind) :
       EntitledByPolicy(e, Rules!Policies(config, e.request.target.kind)[i])

LEMMA EntitledKept ==
  ASSUME UNCHANGED <<config, disable_auth>>, NEW e
  PROVE  Entitled(e)' <=> Entitled(e)
BY DEF Entitled, EntitledByPolicy, Rules!RoleEntitles, Rules!PolicyEntitles

(* A request that is granted is granted to a caller entitled to the scope. *)
LEMMA GrantedEntitled ==
  ASSUME ProcessOK, NEW t \in Task, DOMAIN exchanges = Task,
         NEW request \in Rules!Request, NEW scope, Decide(t, request, "granted", scope)
  PROVE  Entitled(Exchanged(request, "granted", scope))
<1> DEFINE kind == request.target.kind
           policies == Rules!Policies(config, kind)
           e == Exchanged(request, "granted", scope)
<1>0. Auth(t)!Decide(request)
  BY DEF Decide
<1>1. exchanges'[t] = e /\ Auth(t)!Decide(request) /\ serving
  BY <1>0, DecideExchanges, DecideAnswers
<1>2. e.status = "granted" /\ e.request = request /\ e.scope = scope
  BY DEF Exchanged
<1>3. kind \in {"repository", "owner"}
  BY DEF Rules!Request, Rules!InstallationTarget
<1>4. CASE Auth(t)!RefuseBearer(request) \/ Auth(t)!RefuseApp(request) \/ Auth(t)!Refuse(request)
  <2>1. exchanges'[t].status # "granted"
    BY <1>4 DEF Auth!RefuseBearer, Auth!RefuseApp, Auth!Refuse, Auth!Answer
  <2> QED
    BY <1>1, <1>2, <2>1
<1>5. CASE Auth(t)!SkipAuthorization(request)
  BY <1>5 DEF Auth!SkipAuthorization, Entitled
<1>6. CASE Auth(t)!GrantRole(request)
  <2>1. Rules!AllowedRoleMatch(request)
    BY <1>6, Zenon DEF Auth!GrantRole, Auth!AllowedRoleMatch, Rules!AllowedRoleMatch,
         Auth!MatchingRoles, Rules!MatchingRoles, Auth!RoleHolds, Rules!RoleHolds,
         Auth!Satisfies, Rules!Satisfies, Auth!Names, Rules!Names
  <2>2. Rules!RoleEntitles(request)
    BY <2>1, SameRules, AuthorizationAssumed, AP!AllowedRoleMatchIsEntitlement
  <2> QED
    BY <1>2, <2>2 DEF Entitled
<1>7. CASE Auth(t)!GrantPolicy(request)
  <2>1. /\ ~disable_auth
        /\ \E i \in DOMAIN Auth(t)!Policies(config, kind) :
             /\ Auth(t)!PolicyMatches(Auth(t)!Policies(config, kind)[i], request)
             /\ Auth(t)!Answer(request, "granted",
                               Auth(t)!PolicyScope(Auth(t)!Policies(config, kind)[i], kind))
    BY <1>7 DEF Auth!GrantPolicy, Auth!Authorizing
  <2>2. Auth(t)!Policies(config, kind) = policies
    BY DEF Auth!Policies, Rules!Policies
  <2>3. PICK i \in DOMAIN policies :
          /\ Auth(t)!PolicyMatches(policies[i], request)
          /\ Auth(t)!Answer(request, "granted", Auth(t)!PolicyScope(policies[i], kind))
    BY <2>1, <2>2
  <2>4. Rules!PolicyMatches(policies[i], request)
    BY <2>3, Zenon DEF Auth!PolicyMatches, Rules!PolicyMatches, Auth!RoleHoldsWithClaims,
         Rules!RoleHoldsWithClaims, Auth!ClaimsForRequest, Rules!ClaimsForRequest,
         Auth!Extend, Rules!Extend, Auth!Rendered, Rules!Rendered, Auth!RoleHolds,
         Rules!RoleHolds, Auth!Satisfies, Rules!Satisfies, Auth!Names, Rules!Names,
         Auth!SelfAccessClaim, Rules!SelfAccessClaim
  <2>5. Rules!ValidPolicy(config, policies[i], kind)
    BY <1>1, <1>3, <2>1 DEF ProcessOK, Rules!Valid, Rules!ValidPolicies
  <2>6. Rules!PolicyEntitles(policies[i], request)
    BY <2>4, <2>5, SameRules, AuthorizationAssumed, AP!PolicyMatchesWhenEntitled DEF ProcessOK
  <2>7. scope = Rules!PolicyScope(policies[i], kind)
    BY <1>1, <1>2, <2>3 DEF Auth!Answer, Auth!PolicyScope, Rules!PolicyScope
  <2>8. policies[i].permissions # {}
    BY <2>5 DEF Rules!ValidPolicy
  <2> QED
    BY <1>2, <2>6, <2>7, <2>8 DEF Entitled, EntitledByPolicy
<1> QED
  BY <1>1, <1>4, <1>5, <1>6, <1>7 DEF Auth!Decide

-----------------------------------------------------------------------------
(* TYPES *)

(***************************************************************************)
(* What is true of a task: its call is where its handler says, and what it *)
(* is about, from the decision to the delivery, is the key made of its     *)
(* request and of the scope its caller is entitled to.                     *)
(***************************************************************************)
Sound(t) ==
  /\ At(t, "calling") <=> call[t].step \in Client!Awaiting
  /\ Delivering(t) => call[t].step = "returned"
  /\ At(t, "calling") \/ Delivering(t) =>
       /\ serving
       /\ exchanges[t].status = "granted"
       /\ call[t].key = Key(exchanges[t].request, exchanges[t].scope)
       /\ Entitled(exchanges[t])

Typed ==
  /\ keys \subseteq App
  /\ handler \in [Task -> Handler]
  /\ exchanges \in [Task -> Exchange \cup {NoExchange}]

ServiceInv == ProcessOK /\ Typed /\ \A t \in Task : Sound(t)

LEMMA InitInv == Init => ServiceInv
<1> SUFFICES ASSUME Init PROVE ServiceInv
  OBVIOUS
<1>1. ProcessOK
  BY DEF Init, ProcessOK
<1>2. Typed
  BY DEF Init, Typed, Free, Handler
<1>3. \A t \in Task : call[t] = Client!Idle
  BY DEF Init, Client!Init
<1>4. \A t \in Task : Sound(t)
  BY <1>3, IdleStep DEF Init, Sound, At, Delivering, Free, Client!Awaiting
<1> QED
  BY <1>1, <1>2, <1>4 DEF ServiceInv

(* A task nothing happens to. *)
LEMMA SoundKept ==
  ASSUME UNCHANGED process, NEW t \in Task, Sound(t), handler'[t] = handler[t],
         call'[t] = call[t], exchanges'[t] = exchanges[t]
  PROVE  Sound(t)'
<1>1. \A e : Entitled(e)' <=> Entitled(e)
  BY EntitledKept DEF process
<1> QED
  BY <1>1 DEF Sound, At, Delivering, process

(* A task that is at rest afterwards. *)
LEMMA SoundAtRest ==
  ASSUME NEW t \in Task, handler'[t].step \in {"free", "answered"},
         handler'[t].reply # "token", call'[t].step \notin Client!Awaiting
  PROVE  Sound(t)'
BY DEF Sound, At, Delivering

LEMMA FreeTyped ==
  /\ Free \in Handler /\ Free.step = "free" /\ Free.reply = "none"
BY DEF Free, Handler

LEMMA RepliedTyped ==
  ASSUME Typed, NEW t \in Task, NEW reply \in {"token", "relayed", "refused", "error"},
         Replied(t, reply)
  PROVE  /\ handler' \in [Task -> Handler]
         /\ handler'[t].step = "answered" /\ handler'[t].reply = reply
         /\ \A u \in Task \ {t} : handler'[u] = handler[u]
<1>1. /\ [Free EXCEPT !.step = "answered", !.reply = reply] \in Handler
      /\ [Free EXCEPT !.step = "answered", !.reply = reply].step = "answered"
      /\ [Free EXCEPT !.step = "answered", !.reply = reply].reply = reply
  BY DEF Free, Handler
<1> QED
  BY <1>1 DEF Replied, Typed

LEMMA ExchangedTyped ==
  ASSUME NEW request \in Rules!Request,
         NEW status \in {"granted", "unauthorized", "not_found"}, NEW scope \in TokenScope
  PROVE  Exchanged(request, status, scope) \in Exchange
BY DEF Exchanged, Exchange

LEMMA ProcessKept ==
  ASSUME ProcessOK, UNCHANGED process
  PROVE  ProcessOK'
BY DEF ProcessOK, process, Rules!Valid, Rules!ValidApp, Rules!ValidPolicies,
       Rules!HasPolicy, Rules!ValidPolicy, Rules!Policies

LEMMA DecideTyped ==
  ASSUME Typed, ProcessOK, NEW t \in Task, NEW request \in Rules!Request,
         NEW status \in {"granted", "unauthorized", "not_found"}, NEW scope \in TokenScope,
         Decide(t, request, status, scope)
  PROVE  /\ exchanges' \in [Task -> Exchange \cup {NoExchange}]
         /\ UNCHANGED process
         /\ ProcessOK'
<1>1. exchanges' = [exchanges EXCEPT ![t] = Exchanged(request, status, scope)]
  BY DEF Decide, Exchanged
<1>2. UNCHANGED process
  BY DecideAnswers DEF Decide
<1>3. ProcessOK'
  BY <1>2, ProcessKept
<1> QED
  BY <1>1, <1>2, <1>3, ExchangedTyped DEF Typed

(* A request is answered at once. *)
LEMMA AtOnceKeeps ==
  ASSUME ServiceInv, NEW t \in Task, NEW request \in Rules!Request,
         NEW status \in {"granted", "unauthorized", "not_found"}, NEW scope \in TokenScope,
         Decide(t, request, status, scope), NEW reply \in {"refused", "error"},
         Replied(t, reply), Ready(t), UNCHANGED <<client, keys>>
  PROVE  ServiceInv'
<1>1. /\ exchanges' \in [Task -> Exchange \cup {NoExchange}] /\ UNCHANGED process
      /\ ProcessOK'
  BY DecideTyped DEF ServiceInv
<1>2. Typed'
  BY <1>1, RepliedTyped DEF ServiceInv, Typed
<1>3. Sound(t)'
  <2>1. call'[t].step \notin Client!Awaiting
    BY DEF ServiceInv, Sound, Ready, At, client
  <2> QED
    BY <2>1, RepliedTyped, SoundAtRest DEF ServiceInv
<1>4. ASSUME NEW u \in Task \ {t} PROVE Sound(u)'
  <2>1. exchanges'[u] = exchanges[u] /\ call'[u] = call[u] /\ handler'[u] = handler[u]
    BY DecideExchanges, RepliedTyped DEF client, ServiceInv, Typed
  <2> QED
    BY <1>1, <2>1, SoundKept DEF ServiceInv
<1> QED
  BY <1>1, <1>2, <1>3, <1>4 DEF ServiceInv

(* A request is granted, and its call starts. *)
LEMMA BeginKeeps ==
  ASSUME ServiceInv, CP!TypeOK, NEW t \in Task, NEW request \in Rules!Request,
         NEW scope \in TokenScope, Begin(t, request, scope)
  PROVE  ServiceInv'
<1>1. Decide(t, request, "granted", scope)
  BY DEF Begin
<1>2. /\ exchanges' \in [Task -> Exchange \cup {NoExchange}] /\ UNCHANGED process
      /\ ProcessOK' /\ serving
  BY <1>1, DecideTyped, DecideAnswers DEF ServiceInv, Decide
<1>3. PICK route \in {"token", "proxy"} : Calling(t, route)
  BY DEF Begin, Routes
<1>4. /\ handler' \in [Task -> Handler] /\ handler'[t].step = "calling"
      /\ handler'[t].reply = "none" /\ \A u \in Task \ {t} : handler'[u] = handler[u]
  BY <1>3 DEF Calling, ServiceInv, Typed, Handler
<1>5. Typed'
  BY <1>2, <1>4 DEF Begin, ServiceInv, Typed
<1>6. Client!Idle \in CP!Call
  BY ClientAssumed, CP!IdleCall, SameOperators
<1>7. /\ call'[t].step = "lock_tokens" /\ call'[t].key = Key(request, scope)
      /\ \A u \in Task \ {t} : call'[u] = call[u]
  BY <1>6 DEF Begin, Client!Create, CP!TypeOK, CP!Call
<1>8. Sound(t)'
  <2>1. DOMAIN exchanges = Task
    BY DEF ServiceInv, Typed
  <2>2. exchanges'[t] = Exchanged(request, "granted", scope)
    BY <1>1, <2>1, DecideExchanges
  <2>3. /\ exchanges'[t].status = "granted" /\ exchanges'[t].request = request
        /\ exchanges'[t].scope = scope
    BY <2>2 DEF Exchanged
  <2>4. Entitled(exchanges'[t])
    BY <1>1, <2>1, <2>2, GrantedEntitled DEF ServiceInv
  <2>5. Entitled(exchanges[t])'
    BY <1>2, <2>4, EntitledKept DEF process
  <2> QED
    BY <1>2, <1>4, <1>7, <2>3, <2>5 DEF Sound, At, Delivering, Client!Awaiting, process
<1>9. ASSUME NEW u \in Task \ {t} PROVE Sound(u)'
  <2>1. exchanges'[u] = exchanges[u] /\ call'[u] = call[u] /\ handler'[u] = handler[u]
    BY <1>1, <1>4, <1>7, DecideExchanges DEF ServiceInv, Typed
  <2> QED
    BY <1>2, <2>1, SoundKept DEF ServiceInv
<1> QED
  BY <1>2, <1>5, <1>8, <1>9 DEF ServiceInv

(* A step of a task that decides nothing. *)
LEMMA OneTaskKeeps ==
  ASSUME ServiceInv, NEW t \in Task, UNCHANGED <<process, exchanges, keys>>,
         handler' \in [Task -> Handler], \A u \in Task \ {t} : handler'[u] = handler[u],
         \A u \in Task \ {t} : call'[u] = call[u], Sound(t)'
  PROVE  ServiceInv'
<1>1. \A u \in Task \ {t} : Sound(u)'
  BY SoundKept DEF ServiceInv
<1>2. ProcessOK'
  BY ProcessKept DEF ServiceInv
<1> QED
  BY <1>1, <1>2 DEF ServiceInv, Typed

(* What is left of the key and of the entitlement while the call goes on. *)
LEMMA WorkKeeps ==
  ASSUME ServiceInv, CP!TypeOK, NEW t \in Task, Work(t)
  PROVE  ServiceInv'
<1>1. /\ \A u \in Task \ {t} : call'[u] = call[u]
      /\ Onward(call[t], call'[t])
  BY OneCallOnward DEF Work
<1>2. /\ At(t, "calling") /\ Sound(t) /\ Typed /\ UNCHANGED <<process, exchanges, keys>>
      /\ handler[t] \in Handler
  BY DEF Work, ServiceInv, Typed
<1>3. Entitled(exchanges[t])'
  BY <1>2, EntitledKept DEF Sound, process
<1>4. /\ serving' /\ exchanges'[t].status = "granted"
      /\ call'[t].step # "idle" =>
           call'[t].key = Key(exchanges'[t].request, exchanges'[t].scope)
  BY <1>1, <1>2 DEF Sound, process, Onward
<1>5. CASE Continue(t)
  <2>1. call'[t].step \in Client!Awaiting /\ handler' = handler
    BY <1>1, <1>5 DEF Continue, Onward
  <2>2. Sound(t)'
    BY <1>2, <1>3, <1>4, <2>1 DEF Sound, At, Delivering, Client!Awaiting
  <2> QED
    BY <1>1, <1>2, <2>1, <2>2, OneTaskKeeps DEF Typed
<1>6. CASE Return(t) /\ handler[t].route = "token"
  <2>1. Replied(t, "token") /\ call'[t].step = "returned"
    BY <1>6 DEF Return
  <2>2. /\ handler' \in [Task -> Handler] /\ handler'[t].step = "answered"
        /\ \A u \in Task \ {t} : handler'[u] = handler[u]
    BY <1>2, <2>1, RepliedTyped
  <2>3. Sound(t)'
    BY <1>3, <1>4, <2>1, <2>2 DEF Sound, At, Delivering, Client!Awaiting
  <2> QED
    BY <1>1, <1>2, <2>2, <2>3, OneTaskKeeps
<1>7. CASE Return(t) /\ handler[t].route # "token"
  <2>1. handler' = [handler EXCEPT ![t].step = "forwarding"] /\ call'[t].step = "returned"
    BY <1>7 DEF Return
  <2>2. /\ handler' \in [Task -> Handler] /\ handler'[t].step = "forwarding"
        /\ \A u \in Task \ {t} : handler'[u] = handler[u]
    BY <1>2, <2>1 DEF Typed, Handler
  <2>3. Sound(t)'
    BY <1>3, <1>4, <2>1, <2>2 DEF Sound, At, Delivering, Client!Awaiting
  <2> QED
    BY <1>1, <1>2, <2>2, <2>3, OneTaskKeeps
<1>8. CASE GiveUp(t)
  <2>1. Replied(t, "error") /\ call'[t].step = "idle"
    BY <1>8 DEF GiveUp
  <2>2. Sound(t)'
    BY <1>2, <2>1, RepliedTyped, SoundAtRest DEF Client!Awaiting
  <2> QED
    BY <1>1, <1>2, <2>1, <2>2, RepliedTyped, OneTaskKeeps
<1> QED
  BY <1>5, <1>6, <1>7, <1>8 DEF Work

(* A handler ends with an error or a relayed answer, or is dropped. *)
LEMMA EndHandler ==
  ASSUME ServiceInv, NEW t \in Task,
         CallFails(t) \/ Relay(t) \/ RelayFails(t) \/ Disconnect(t)
  PROVE  /\ handler' \in [Task -> Handler] /\ handler'[t].step \in {"free", "answered"}
         /\ handler'[t].reply # "token" /\ \A u \in Task \ {t} : handler'[u] = handler[u]
<1>1. CASE Disconnect(t)
  BY <1>1, FreeTyped DEF Disconnect, ServiceInv, Typed
<1>2. CASE ~Disconnect(t)
  <2>1. PICK reply \in {"error", "relayed"} : Replied(t, reply)
    BY <1>2 DEF CallFails, GiveUp, Relay, RelayFails
  <2> QED
    BY <2>1, RepliedTyped DEF ServiceInv
<1> QED
  BY <1>1, <1>2

(* The end of a call that fails, of a relayed request, and of a connection. *)
LEMMA EndKeeps ==
  ASSUME ServiceInv, CP!TypeOK, NEW t \in Task,
         CallFails(t) \/ Relay(t) \/ RelayFails(t) \/ Disconnect(t)
  PROVE  ServiceInv'
<1>1. /\ \A u \in Task \ {t} : call'[u] = call[u]
      /\ call'[t].step \notin Client!Awaiting
  <2>1. CASE CallFails(t)
    BY <2>1, OneCallOnward DEF CallFails, GiveUp, Client!Awaiting
  <2>2. CASE Client!Cancel(t)
    BY <2>2, OneCallOnward, IdleStep DEF Client!Cancel, CP!TypeOK, Client!Awaiting
  <2>3. CASE At(t, "forwarding") /\ UNCHANGED client
    BY <2>3 DEF ServiceInv, Sound, Delivering, client, Client!Awaiting
  <2> QED
    BY <2>1, <2>2, <2>3 DEF Relay, RelayFails, Disconnect
<1>2. UNCHANGED <<process, exchanges, keys>>
  BY DEF CallFails, Relay, RelayFails, Disconnect
<1> QED
  BY <1>1, <1>2, EndHandler, SoundAtRest, OneTaskKeeps

(* The process starts, stops, or gets another configuration: nothing is at work
   then. *)
LEMMA ProcessSteps ==
  ASSUME ServiceInv, Start \/ Stop \/ Deploy
  PROVE  ServiceInv'
<1>1. PICK t \in Task : TRUE
  BY PartsAssumption
<1>2. CASE Start
  <2>1. /\ ~serving /\ Rules!Valid(config, disable_auth) /\ serving' = TRUE
        /\ UNCHANGED <<config, disable_auth, exchanges, handler, call, keys>>
    BY <1>1, <1>2, SameRules DEF Start, Auth!Start, client
  <2>2. ProcessOK'
    BY <2>1 DEF ServiceInv, ProcessOK, Rules!Valid, Rules!ValidApp, Rules!ValidPolicies,
                Rules!HasPolicy, Rules!ValidPolicy, Rules!Policies
  <2>3. \A u \in Task : Sound(u)'
    BY <2>1 DEF ServiceInv, Sound, At, Delivering
  <2> QED
    BY <2>1, <2>2, <2>3 DEF ServiceInv, Typed
<1>3. CASE Stop
  <2>1. /\ serving' = FALSE /\ UNCHANGED <<config, disable_auth, keys>>
        /\ exchanges' = [u \in Task |-> NoExchange] /\ handler' = [u \in Task |-> Free]
        /\ call' = [u \in Task |-> Client!Idle]
    BY <1>1, <1>3 DEF Stop, Auth!Stop, Client!Restart
  <2>2. ProcessOK'
    BY <2>1 DEF ServiceInv, ProcessOK
  <2>3. \A u \in Task : Sound(u)'
    BY <2>1, FreeTyped, IdleStep, SoundAtRest DEF Client!Awaiting
  <2> QED
    BY <2>1, <2>2, <2>3, FreeTyped DEF ServiceInv, Typed
<1>4. CASE Deploy
  <2>1. /\ ~serving /\ serving' = serving /\ config' \in Config /\ disable_auth' \in BOOLEAN
        /\ UNCHANGED <<exchanges, handler, call, keys>>
    BY <1>1, <1>4 DEF Deploy, Auth!Deploy, client
  <2>2. ProcessOK'
    BY <2>1 DEF ServiceInv, ProcessOK
  <2>3. \A u \in Task : Sound(u)'
    BY <2>1 DEF ServiceInv, Sound, At, Delivering
  <2> QED
    BY <2>1, <2>2, <2>3 DEF ServiceInv, Typed
<1> QED
  BY <1>2, <1>3, <1>4

(* No task moves. *)
LEMMA TasksStay ==
  ASSUME ServiceInv, UNCHANGED <<process, exchanges, handler, call>>, keys' \subseteq App
  PROVE  ServiceInv'
<1>1. \A u \in Task : Sound(u)'
  BY SoundKept DEF ServiceInv
<1> QED
  BY <1>1, ProcessKept DEF ServiceInv, Typed

LEMMA NoScopeTyped == Rules!NoScope \in TokenScope
BY DEF Rules!NoScope, TokenScope

LEMMA NextInv == ServiceInv /\ CP!TypeOK /\ [Next]_vars => ServiceInv'
<1> SUFFICES ASSUME ServiceInv, CP!TypeOK, [Next]_vars PROVE ServiceInv'
  OBVIOUS
<1>1. ASSUME NEW t \in Task, NEW request \in Rules!Request, NEW scope \in TokenScope,
             Begin(t, request, scope)
      PROVE  ServiceInv'
  BY <1>1, BeginKeeps
<1>2. ASSUME NEW t \in Task, NEW request \in Rules!Request, NEW scope \in TokenScope,
             MissKey(t, request, scope)
      PROVE  ServiceInv'
  BY <1>2, AtOnceKeeps DEF MissKey
<1>3. ASSUME NEW t \in Task, NEW request \in Rules!Request, Reject(t, request)
      PROVE  ServiceInv'
  BY <1>3, AtOnceKeeps, NoScopeTyped DEF Reject
<1>4. ASSUME NEW t \in Task, Work(t) PROVE ServiceInv'
  BY <1>4, WorkKeeps
<1>5. ASSUME NEW t \in Task, CallFails(t) \/ Relay(t) \/ RelayFails(t) \/ Disconnect(t)
      PROVE  ServiceInv'
  BY <1>5, EndKeeps
<1>6. CASE Start \/ Stop \/ Deploy
  BY <1>6, ProcessSteps
<1>7. ASSUME NEW app \in App, ChangeKey(app) PROVE ServiceInv'
  <2>1. keys' \subseteq App
    BY <1>7 DEF ChangeKey, ServiceInv, Typed
  <2> QED
    BY <1>7, <2>1, TasksStay DEF ChangeKey, client
<1>8. CASE Tick \/ (\E app \in App, account \in Account : Change(app, account)) \/ UNCHANGED vars
  <2>1. UNCHANGED <<process, exchanges, handler, call, keys>>
    BY <1>8 DEF Tick, Change, Client!Tick, Client!Change, vars, client
  <2> QED
    BY <2>1, TasksStay DEF ServiceInv, Typed
<1> QED
  BY <1>1, <1>2, <1>3, <1>4, <1>5, <1>6, <1>7, <1>8 DEF Next, Serve

LEMMA ServiceInvariant == Spec => [](ServiceInv /\ CP!TypeOK /\ CP!Isolation /\ CP!Timely)
BY InitInv, NextInv, ClientInvariants, PTL DEF Spec

(* The client, the authorization of each task and the handlers are well typed,
   and the three agree on where a request stands. *)
THEOREM TypeCorrect == Spec => []TypeOK
<1>1. ServiceInv /\ CP!TypeOK => TypeOK
  <2> SUFFICES ASSUME ServiceInv, CP!TypeOK PROVE TypeOK
    OBVIOUS
  <2>1. Client!TypeOK
    BY SameOperators
  <2>2. ASSUME NEW t \in Task PROVE Auth(t)!TypeOK
    <3>1. exchanges[t] = Auth(t)!NoExchange \/ exchanges[t] \in
            [request : Auth(t)!Request, status : {"granted", "unauthorized", "not_found"},
             scope : Auth(t)!TokenScope]
      BY DEF ServiceInv, Typed, Exchange, NoExchange, Auth!NoExchange, Auth!Request,
             Rules!Request, Auth!InstallationTarget, Rules!InstallationTarget,
             Auth!TokenScope, TokenScope
    <3>2. serving => Auth(t)!Valid(config, disable_auth)
      BY SameRules DEF ServiceInv, ProcessOK
    <3> QED
      BY <3>1, <3>2 DEF ServiceInv, ProcessOK, Auth!TypeOK
  <2>3. \A t \in Task : Consistent(t)
    BY DEF ServiceInv, Sound, Consistent, At, Delivering
  <2> QED
    BY <2>1, <2>2, <2>3 DEF TypeOK, ServiceInv, Typed
<1> QED
  BY <1>1, ServiceInvariant, PTL

-----------------------------------------------------------------------------
(* WHAT IS DELIVERED *)

(* The contract means by an entitlement what the service does. *)
LEMMA SamePromise ==
  /\ \A request : Promise!Rules!RoleEntitles(request) <=> Rules!RoleEntitles(request)
  /\ \A policy, request :
       Promise!Rules!PolicyEntitles(policy, request) <=> Rules!PolicyEntitles(policy, request)
  /\ \A c, kind : Promise!Rules!Policies(c, kind) = Rules!Policies(c, kind)
  /\ \A request : Promise!Rules!Known(request) <=> Rules!Known(request)
  /\ Promise!Rules!Request = Rules!Request
  /\ \A c, disabled : Promise!Rules!Valid(c, disabled) <=> Rules!Valid(c, disabled)
  /\ Promise!Token = Token
<1> USE DEF Promise!Rules!Names, Rules!Names, Promise!Rules!Satisfies, Rules!Satisfies,
            Promise!Rules!RoleHolds, Rules!RoleHolds, Promise!Rules!SelfAccessClaim,
            Rules!SelfAccessClaim, Promise!Rules!Policies, Rules!Policies,
            Promise!Rules!ValidPolicy, Rules!ValidPolicy
<1>1. \A request : Promise!Rules!RoleEntitles(request) <=> Rules!RoleEntitles(request)
  BY Zenon DEF Promise!Rules!RoleEntitles, Rules!RoleEntitles
<1>2. \A policy, request :
       Promise!Rules!PolicyEntitles(policy, request) <=> Rules!PolicyEntitles(policy, request)
  BY Zenon DEF Promise!Rules!PolicyEntitles, Rules!PolicyEntitles, Promise!Rules!Rendered, Rules!Rendered
<1>3. \A c, kind : Promise!Rules!Policies(c, kind) = Rules!Policies(c, kind)
  BY Zenon
<1>4. \A request : Promise!Rules!Known(request) <=> Rules!Known(request)
  BY Zenon DEF Promise!Rules!Known, Rules!Known
<1>5. Promise!Rules!Request = Rules!Request
  BY Zenon DEF Promise!Rules!Request, Rules!Request, Promise!Rules!InstallationTarget, Rules!InstallationTarget
<1>6. \A c, disabled : Promise!Rules!Valid(c, disabled) <=> Rules!Valid(c, disabled)
  BY Zenon DEF Promise!Rules!Valid, Rules!Valid, Promise!Rules!ValidApp, Rules!ValidApp,
               Promise!Rules!ValidPolicies, Rules!ValidPolicies, Promise!Rules!HasPolicy,
               Rules!HasPolicy
<1>7. Promise!Token = Token
  BY Zenon DEF Promise!Token, Token, Promise!InstallationId, InstallationId
<1> HIDE DEF Promise!Rules!Names, Rules!Names, Promise!Rules!Satisfies, Rules!Satisfies,
            Promise!Rules!RoleHolds, Rules!RoleHolds, Promise!Rules!SelfAccessClaim,
            Rules!SelfAccessClaim, Promise!Rules!Policies, Rules!Policies,
            Promise!Rules!ValidPolicy, Rules!ValidPolicy
<1> QED
  BY <1>1, <1>2, <1>3, <1>4, <1>5, <1>6, <1>7

(* The token a call returned, for the key of an entitled exchange. *)
LEMMA FittingDue ==
  ASSUME NEW e, e \in Exchange, Entitled(e), NEW token,
         CP!Fits(token, Key(e.request, e.scope))
  PROVE  Promise!Due(e.request, token)
<1> DEFINE request == e.request
           policies == Rules!Policies(config, request.target.kind)
<1>1. /\ token.installation.github_app = request.github_app
      /\ token.installation.account = request.target.owner
      /\ token.permissions = e.scope.permissions
      /\ CP!FitsRepositories(token, Key(request, e.scope))
  BY DEF CP!Fits, Key
<1>2. CASE disable_auth \/ Rules!RoleEntitles(request)
  BY <1>1, <1>2, SamePromise DEF Promise!Due
<1>3. ASSUME NEW i \in DOMAIN policies, EntitledByPolicy(e, policies[i])
      PROVE  Promise!Due(request, token)
  <2>1. e.scope.permissions = policies[i].permissions
    BY <1>3 DEF EntitledByPolicy, Rules!PolicyScope
  <2>2. ASSUME request.target.kind = "repository"
        PROVE  token.repositories = {request.target.name}
    <3>1. e.scope.repositories = "OnlyRequested"
      BY <1>3, <2>2 DEF EntitledByPolicy, Rules!PolicyScope
    <3> QED
      BY <1>1, <3>1 DEF CP!FitsRepositories, Key
  <2>3. Promise!PoliciesFor(request) = policies
    BY SamePromise DEF Promise!PoliciesFor
  <2>4. Promise!Within(policies[i], request, token)
    BY <1>1, <1>3, <2>1, <2>2, SamePromise DEF Promise!Within, EntitledByPolicy
  <2> QED
    BY <1>1, <2>3, <2>4 DEF Promise!Due
<1> QED
  BY <1>1, <1>2, <1>3 DEF Entitled

(* Whatever was cached, and for whom: what a caller gets is its due. *)
THEOREM DelegatedTokensOnly == Spec => []DelegatedTokens
<1>1. ServiceInv /\ CP!Isolation => DelegatedTokens
  <2> SUFFICES ASSUME ServiceInv, CP!Isolation, NEW t \in Task, Delivering(t)
               PROVE  serving /\ Promise!Due(exchanges[t].request, call[t].token)
    BY DEF DelegatedTokens
  <2>1. /\ serving /\ call[t].step = "returned" /\ Entitled(exchanges[t])
        /\ call[t].key = Key(exchanges[t].request, exchanges[t].scope)
        /\ exchanges[t].status = "granted"
    BY DEF ServiceInv, Sound
  <2>2. exchanges[t] \in Exchange
    BY <2>1 DEF ServiceInv, Typed, NoExchange
  <2>3. CP!Fits(call[t].token, Key(exchanges[t].request, exchanges[t].scope))
    BY <2>1 DEF CP!Isolation
  <2> QED
    BY <2>1, <2>2, <2>3, FittingDue
<1> QED
  BY <1>1, ServiceInvariant, PTL

-----------------------------------------------------------------------------
(* THE TOKEN OF THE PROXY *)

(* The proxy waits for GitHub no longer than any await. *)
ForwardsAreShort ==
  \A t \in Task : At(t, "forwarding") => now <= call[t].since + MaxDelay

LEMMA Times ==
  ASSUME CP!TypeOK, NEW t \in Task
  PROVE  /\ now \in Int /\ call[t].since \in Int /\ MaxDelay \in Nat
         /\ call[t].step = "returned" => call[t].token.minted_at \in Int
BY ProxyLatencyAssumption DEF CP!TypeOK, CP!Call, CP!Holding, CP!Token

(* Time stands still, and whoever waits for GitHub goes on or has just begun. *)
LEMMA ForwardsKept ==
  ASSUME CP!TypeOK, ForwardsAreShort, UNCHANGED now,
         \A t \in Task : handler'[t].step = "forwarding" =>
           \/ handler[t].step = "forwarding" /\ call'[t] = call[t]
           \/ call'[t].since = now
  PROVE  ForwardsAreShort'
BY Times DEF ForwardsAreShort, At

LEMMA NextForwards ==
  ServiceInv /\ CP!TypeOK /\ ForwardsAreShort /\ [Next]_vars => ForwardsAreShort'
<1> SUFFICES ASSUME ServiceInv, CP!TypeOK, ForwardsAreShort, [Next]_vars
             PROVE  ForwardsAreShort'
  OBVIOUS
<1>1. ASSUME NEW t \in Task, NEW request \in Rules!Request,
             \/ \E scope \in TokenScope :
                  Begin(t, request, scope) \/ MissKey(t, request, scope)
             \/ Reject(t, request)
      PROVE  ForwardsAreShort'
  <2>1. UNCHANGED now /\ \A u \in Task \ {t} : call'[u] = call[u]
    BY <1>1 DEF Begin, MissKey, Reject, Client!Create, client, CP!TypeOK
  <2>2. \/ \E route \in {"token", "proxy"} : Calling(t, route)
        \/ \E reply \in {"refused", "error"} : Replied(t, reply)
    BY <1>1 DEF Begin, MissKey, Reject, Routes
  <2>3. /\ handler'[t].step # "forwarding"
        /\ \A u \in Task \ {t} : handler'[u] = handler[u]
    BY <2>2, RepliedTyped DEF Calling, ServiceInv, Typed
  <2> QED
    BY <2>1, <2>3, ForwardsKept
<1>2. ASSUME NEW t \in Task, Work(t) PROVE ForwardsAreShort'
  <2>1. /\ UNCHANGED now /\ \A u \in Task \ {t} : call'[u] = call[u]
        /\ call'[t].step = "returned" => call'[t].since = now
    BY <1>2, OneCallOnward DEF Work, Onward
  <2>2. \A u \in Task \ {t} : handler'[u] = handler[u]
    BY <1>2 DEF Work, Continue, Return, GiveUp, Replied, ServiceInv, Typed
  <2>3. handler'[t].step = "forwarding" => call'[t].step = "returned"
    BY <1>2, FreeTyped DEF Work, Continue, Return, GiveUp, Replied, At, ServiceInv, Typed, Free
  <2> QED
    BY <2>1, <2>2, <2>3, ForwardsKept
<1>3. ASSUME NEW t \in Task, CallFails(t) \/ Relay(t) \/ RelayFails(t) \/ Disconnect(t)
      PROVE  ForwardsAreShort'
  <2>1. UNCHANGED now /\ \A u \in Task \ {t} : call'[u] = call[u]
    BY <1>3, OneCallOnward DEF CallFails, Relay, RelayFails, Disconnect, client
  <2>2. /\ handler'[t].step # "forwarding"
        /\ \A u \in Task \ {t} : handler'[u] = handler[u]
    BY <1>3, EndHandler
  <2> QED
    BY <2>1, <2>2, ForwardsKept
<1>4. CASE Start \/ Deploy \/ (\E app \in App : ChangeKey(app))
           \/ (\E app \in App, account \in Account : Change(app, account)) \/ UNCHANGED vars
  <2>1. UNCHANGED <<now, handler, call>>
    BY <1>4 DEF Start, Deploy, ChangeKey, Change, Client!Change, client, vars
  <2> QED
    BY <2>1, ForwardsKept
<1>5. CASE Stop
  <2>1. UNCHANGED now /\ handler' = [t \in Task |-> Free]
    BY <1>5 DEF Stop, Client!Restart
  <2> QED
    BY <2>1, FreeTyped DEF ForwardsAreShort, At
<1>6. CASE Tick
  <2>1. /\ now' = now + 1 /\ UNCHANGED <<handler, call>>
        /\ \A t \in Task : At(t, "forwarding") => now < call[t].since + MaxDelay
    BY <1>6 DEF Tick, Client!Tick
  <2> QED
    BY <2>1, Times DEF ForwardsAreShort, At
<1> QED
  BY <1>1, <1>2, <1>3, <1>4, <1>5, <1>6 DEF Next, Serve

(* GitHub honours the token the proxy uses until it has answered. *)
THEOREM ProxyTokensFresh == Spec => []ProxyTokenUnexpired
<1>1. Init => ForwardsAreShort
  BY FreeTyped DEF Init, ForwardsAreShort, At
<1>2. ServiceInv /\ CP!TypeOK /\ CP!Timely /\ ForwardsAreShort => ProxyTokenUnexpired
  <2> SUFFICES ASSUME ServiceInv, CP!TypeOK, CP!Timely, ForwardsAreShort,
                      NEW t \in Task, At(t, "forwarding")
               PROVE  now < call[t].token.minted_at + Lifetime
    BY DEF ProxyTokenUnexpired
  <2>1. call[t].step = "returned" /\ now <= call[t].since + MaxDelay
    BY DEF ServiceInv, Sound, Delivering, ForwardsAreShort
  <2>2. call[t].since < call[t].token.minted_at + Ttl + 2 * MaxDelay
    BY <2>1 DEF CP!Timely, CP!TokenAge
  <2> QED
    BY <2>1, <2>2, Times, ProxyLatencyAssumption
<1> QED
  BY <1>1, <1>2, NextForwards, ServiceInvariant, PTL DEF Spec

-----------------------------------------------------------------------------
(* THE CONTRACT *)

(* The proxy is for repositories only. *)
Proxying ==
  \A t \in Task : At(t, "calling") /\ handler[t].route = "proxy" =>
    exchanges[t].request.target.kind = "repository"

LEMMA InitProxying == Init => Proxying
BY FreeTyped DEF Init, Proxying, At

LEMMA NextProxying == ServiceInv /\ Proxying /\ [Next]_vars => Proxying'
<1> SUFFICES ASSUME ServiceInv, Proxying, [Next]_vars PROVE Proxying'
  OBVIOUS
<1>0. DOMAIN exchanges = Task /\ handler \in [Task -> Handler]
  BY DEF ServiceInv, Typed
<1>1. ASSUME NEW t \in Task, NEW request \in Rules!Request, NEW scope \in TokenScope,
             Begin(t, request, scope)
      PROVE  Proxying'
  <2>1. Decide(t, request, "granted", scope)
    BY <1>1 DEF Begin
  <2>0. /\ exchanges'[t] = Exchanged(request, "granted", scope)
        /\ \A u \in Task \ {t} : exchanges'[u] = exchanges[u]
    BY <1>0, <2>1, DecideExchanges
  <2>2. exchanges'[t].request = request
    BY <2>0 DEF Exchanged
  <2>3. PICK route \in Routes(request) : Calling(t, route)
    BY <1>1 DEF Begin
  <2>4. /\ handler'[t].route = route /\ \A u \in Task \ {t} : handler'[u] = handler[u]
    BY <1>0, <2>3 DEF Calling
  <2>5. route = "proxy" => request.target.kind = "repository"
    BY <2>3 DEF Routes
  <2> QED
    BY <2>0, <2>2, <2>4, <2>5 DEF Proxying, At
<1>2. ASSUME NEW t \in Task, \A u \in Task \ {t} : handler'[u] = handler[u],
             handler'[t].step # "calling",
             \A u \in Task \ {t} : exchanges'[u] = exchanges[u]
      PROVE  Proxying'
  BY <1>2 DEF Proxying, At
<1>3. ASSUME NEW t \in Task, NEW request \in Rules!Request,
             (\E scope \in TokenScope : MissKey(t, request, scope)) \/ Reject(t, request)
      PROVE  Proxying'
  <2>1. PICK reply \in {"refused", "error"} : Replied(t, reply)
    BY <1>3 DEF MissKey, Reject
  <2>2. PICK status, scope : Decide(t, request, status, scope)
    BY <1>3 DEF MissKey, Reject
  <2> QED
    BY <1>0, <1>2, <2>1, <2>2, RepliedTyped, DecideExchanges DEF ServiceInv
<1>4. ASSUME NEW t \in Task, Work(t) PROVE Proxying'
  <2>1. exchanges' = exchanges
    BY <1>4 DEF Work
  <2>2. CASE Continue(t)
    BY <2>1, <2>2 DEF Continue, Proxying, At
  <2>3. CASE handler' = [handler EXCEPT ![t].step = "forwarding"]
    BY <1>0, <1>2, <2>1, <2>3 DEF Handler
  <2>4. ASSUME NEW reply \in {"token", "error"}, Replied(t, reply) PROVE Proxying'
    BY <1>2, <2>1, <2>4, RepliedTyped DEF ServiceInv
  <2> QED
    BY <1>4, <2>2, <2>3, <2>4 DEF Work, Return, GiveUp
<1>5. ASSUME NEW t \in Task, CallFails(t) \/ Relay(t) \/ RelayFails(t) \/ Disconnect(t)
      PROVE  Proxying'
  <2>1. exchanges' = exchanges
    BY <1>5 DEF CallFails, Relay, RelayFails, Disconnect
  <2> QED
    BY <1>2, <1>5, <2>1, EndHandler
<1>6. CASE Stop
  BY <1>6, FreeTyped DEF Stop, Proxying, At
<1>7. CASE Start \/ Deploy \/ Tick \/ (\E app \in App : ChangeKey(app))
             \/ (\E app \in App, account \in Account : Change(app, account)) \/ UNCHANGED vars
  BY <1>7 DEF Start, Deploy, Tick, ChangeKey, Change, vars, Proxying, At
<1> QED
  BY <1>1, <1>3, <1>4, <1>5, <1>6, <1>7 DEF Next, Serve

(* A caller who is granted a request is entitled to it, and nobody who is refused
   is: RefuseBearer, RefuseApp and Refuse look for all that could entitle. *)
LEMMA DecisionDue ==
  ASSUME ProcessOK, DOMAIN exchanges = Task, NEW t \in Task, NEW request \in Rules!Request,
         NEW status, NEW scope, Decide(t, request, status, scope)
  PROVE  Promise!Entitled(request) <=> status = "granted"
<1> DEFINE kind == request.target.kind
           policies == Rules!Policies(config, kind)
           ByPolicy == \E i \in DOMAIN policies : Rules!PolicyEntitles(policies[i], request)
<1>0. Auth(t)!Decide(request)
  BY DEF Decide
<1>1. exchanges'[t].status = status /\ serving
  <2>1. exchanges'[t] = Exchanged(request, status, scope)
    BY DecideExchanges
  <2> QED
    BY <1>0, <2>1, DecideAnswers DEF Exchanged
<1>2. Promise!Entitled(request) <=>
        /\ Rules!Known(request)
        /\ \/ disable_auth
           \/ /\ request.bearer # NoBearer
              /\ Rules!RoleEntitles(request) \/ ByPolicy
  <2>1. Promise!PoliciesFor(request) = policies
    BY SamePromise DEF Promise!PoliciesFor
  <2>2. ByPolicy <=> \E i \in DOMAIN Promise!PoliciesFor(request) :
          Promise!Rules!PolicyEntitles(Promise!PoliciesFor(request)[i], request)
    BY <2>1, SamePromise
  <2>3. /\ Promise!Rules!Known(request) <=> Rules!Known(request)
        /\ Promise!Rules!RoleEntitles(request) <=> Rules!RoleEntitles(request)
    BY SamePromise
  <2> HIDE DEF ByPolicy
  <2> QED
    BY <2>2, <2>3, Zenon DEF Promise!Entitled
<1>3. /\ Auth(t)!Known(request) <=> Rules!Known(request)
      /\ Auth(t)!AllowedRoleMatch(request) <=> Rules!RoleEntitles(request)
  <2>1. Auth(t)!AllowedRoleMatch(request) <=> Rules!AllowedRoleMatch(request)
    BY Zenon DEF Auth!AllowedRoleMatch, Rules!AllowedRoleMatch,
         Auth!MatchingRoles, Rules!MatchingRoles, Auth!RoleHolds, Rules!RoleHolds,
         Auth!Satisfies, Rules!Satisfies, Auth!Names, Rules!Names
  <2>2. Rules!AllowedRoleMatch(request) <=> Rules!RoleEntitles(request)
    BY SameRules, AuthorizationAssumed, AP!AllowedRoleMatchIsEntitlement
  <2> QED
    BY <2>1, <2>2 DEF Auth!Known, Rules!Known
<1>4. Auth(t)!Policies(config, kind) = policies
  BY DEF Auth!Policies, Rules!Policies
<1>5. ASSUME ~disable_auth, NEW i \in DOMAIN policies
      PROVE  Auth(t)!PolicyMatches(policies[i], request) <=>
               Rules!PolicyEntitles(policies[i], request)
  <2>1. Auth(t)!PolicyMatches(policies[i], request) <=> Rules!PolicyMatches(policies[i], request)
    BY Zenon DEF Auth!PolicyMatches, Rules!PolicyMatches, Auth!RoleHoldsWithClaims,
         Rules!RoleHoldsWithClaims, Auth!ClaimsForRequest, Rules!ClaimsForRequest,
         Auth!Extend, Rules!Extend, Auth!Rendered, Rules!Rendered, Auth!RoleHolds,
         Rules!RoleHolds, Auth!Satisfies, Rules!Satisfies, Auth!Names, Rules!Names,
         Auth!SelfAccessClaim, Rules!SelfAccessClaim
  <2>2. kind \in {"repository", "owner"}
    BY DEF Rules!Request, Rules!InstallationTarget
  <2>3. Rules!ValidPolicy(config, policies[i], kind)
    BY <1>1, <1>5, <2>2 DEF ProcessOK, Rules!Valid, Rules!ValidPolicies
  <2> QED
    BY <2>1, <2>3, SameRules, AuthorizationAssumed, AP!PolicyMatchesWhenEntitled DEF ProcessOK
<1> HIDE DEF policies
<1>6. CASE Auth(t)!RefuseBearer(request)
  <2>1. status = "unauthorized" /\ ~disable_auth /\ request.bearer = NoBearer
    BY <1>1, <1>6 DEF Auth!RefuseBearer, Auth!Answer
  <2> QED
    BY <1>2, <2>1
<1>7. CASE Auth(t)!RefuseApp(request)
  <2>1. status = "not_found" /\ ~Rules!Known(request)
    BY <1>1, <1>3, <1>7 DEF Auth!RefuseApp, Auth!Answer
  <2> QED
    BY <1>2, <2>1
<1>8. CASE Auth(t)!SkipAuthorization(request)
  <2>1. status = "granted" /\ disable_auth /\ Rules!Known(request)
    BY <1>1, <1>3, <1>8 DEF Auth!SkipAuthorization, Auth!Answer
  <2> QED
    BY <1>2, <2>1, Zenon
<1>9. CASE Auth(t)!GrantRole(request)
  <2>1. /\ status = "granted" /\ Rules!Known(request) /\ request.bearer # NoBearer
        /\ Rules!RoleEntitles(request)
    BY <1>1, <1>3, <1>9 DEF Auth!GrantRole, Auth!Answer, Auth!Authorizing
  <2> QED
    BY <1>2, <2>1
<1>10. CASE Auth(t)!GrantPolicy(request)
  <2>1. /\ status = "granted" /\ Rules!Known(request) /\ request.bearer # NoBearer
        /\ ~disable_auth
    BY <1>1, <1>3, <1>10 DEF Auth!GrantPolicy, Auth!Answer, Auth!Authorizing
  <2>2. \E i \in DOMAIN policies : Auth(t)!PolicyMatches(policies[i], request)
    BY <1>4, <1>10 DEF Auth!GrantPolicy
  <2>3. ByPolicy
    BY <1>5, <2>1, <2>2
  <2> QED
    BY <1>2, <2>1, <2>3
<1>11. CASE Auth(t)!Refuse(request)
  <2>1. /\ status = "unauthorized" /\ ~disable_auth
        /\ ~Rules!RoleEntitles(request)
    BY <1>1, <1>3, <1>11 DEF Auth!Refuse, Auth!Answer, Auth!Authorizing
  <2>2. \A i \in DOMAIN policies : ~Auth(t)!PolicyMatches(policies[i], request)
    BY <1>4, <1>11 DEF Auth!Refuse
  <2>3. ~ByPolicy
    BY <1>5, <2>1, <2>2
  <2> QED
    BY <1>2, <2>1, <2>3
<1> QED
  BY <1>0, <1>6, <1>7, <1>8, <1>9, <1>10, <1>11 DEF Auth!Decide

(* Where the errand of a task stands, before and after a step. *)
LEMMA ErrandAt ==
  ASSUME NEW t \in Task
  PROVE  /\ handler[t].step = "free" => Errand(t) = [state |-> "none"]
         /\ handler[t].step = "calling" =>
              Errand(t) = [state |-> "pending", request |-> exchanges[t].request]
         /\ handler[t].step = "forwarding" =>
              Errand(t) = [state |-> "acting", request |-> exchanges[t].request,
                           token |-> call[t].token]
         /\ handler[t].step = "answered" /\ handler[t].reply = "token" =>
              Errand(t) = [state |-> "token", request |-> exchanges[t].request,
                           token |-> call[t].token]
         /\ handler[t].step = "answered" /\ handler[t].reply # "token" =>
              Errand(t) = [state |-> handler[t].reply, request |-> exchanges[t].request]
BY DEF Errand

LEMMA ErrandNext ==
  ASSUME NEW t \in Task
  PROVE  /\ handler'[t].step = "free" => Errand(t)' = [state |-> "none"]
         /\ handler'[t].step = "calling" =>
              Errand(t)' = [state |-> "pending", request |-> exchanges'[t].request]
         /\ handler'[t].step = "forwarding" =>
              Errand(t)' = [state |-> "acting", request |-> exchanges'[t].request,
                            token |-> call'[t].token]
         /\ handler'[t].step = "answered" /\ handler'[t].reply = "token" =>
              Errand(t)' = [state |-> "token", request |-> exchanges'[t].request,
                            token |-> call'[t].token]
         /\ handler'[t].step = "answered" /\ handler'[t].reply # "token" =>
              Errand(t)' = [state |-> handler'[t].reply, request |-> exchanges'[t].request]
BY DEF Errand

LEMMA ErrandsOf ==
  /\ \A t \in Task : Errands[t] = Errand(t) /\ Errands'[t] = Errand(t)'
  /\ DOMAIN Errands = Task /\ DOMAIN Errands' = Task
BY DEF Errands

(* A task whose handler, request and call stay as they are. *)
LEMMA ErrandKept ==
  ASSUME NEW t \in Task, handler'[t] = handler[t], exchanges'[t] = exchanges[t],
         call'[t] = call[t]
  PROVE  Errands'[t] = Errands[t]
BY ErrandsOf DEF Errand

(* A step of one task is a move of its errand. *)
LEMMA OneErrand ==
  ASSUME NEW t \in Task, serving, UNCHANGED <<now, process>>,
         \A u \in Task \ {t} : handler'[u] = handler[u],
         \A u \in Task \ {t} : exchanges'[u] = exchanges[u],
         \A u \in Task \ {t} : call'[u] = call[u],
         Promise!Arrive(t) \/ Promise!Deliver(t) \/ Promise!End(t) \/ Promise!Leave(t)
  PROVE  Promise!Next
<1>1. \A u \in Task \ {t} : Errands'[u] = Errands[u]
  BY ErrandKept
<1>2. Errands' = [Errands EXCEPT ![t] = Errands'[t]]
  <2> DEFINE E == Errands
             F == Errands'
  <2>1. E = [u \in Task |-> E[u]] /\ F = [u \in Task |-> F[u]]
    BY DEF Errands
  <2>2. \A u \in Task \ {t} : F[u] = E[u]
    BY <1>1
  <2> HIDE DEF E, F
  <2>3. F = [E EXCEPT ![t] = F[t]]
    BY <2>1, <2>2
  <2> QED
    BY <2>3 DEF E, F
<1>3. Promise!Move(t)
  BY <1>2 DEF Promise!Move, Promise!process, process
<1> QED
  BY <1>3 DEF Promise!Next

(* The token a call has just returned. *)
LEMMA ReturnedNext ==
  ASSUME CP!TypeOK', CP!Isolation', CP!Timely', NEW t \in Task, call'[t].step = "returned"
  PROVE  /\ call'[t].token \in Token
         /\ CP!Fits(call'[t].token, call'[t].key)
         /\ call'[t].token.minted_at <= call'[t].since
         /\ call'[t].since < call'[t].token.minted_at + (Ttl + 2 * MaxDelay)
<1>1. call'[t].token \in CP!Token
  BY DEF CP!TypeOK, CP!Holding
<1>2. call'[t].token \in Token
  BY <1>1 DEF CP!Token, Token, CP!InstallationId, InstallationId
<1>3. CP!Fits(call'[t].token, call'[t].key)
  BY DEF CP!Isolation, CP!Fits, CP!FitsRepositories
<1>4. /\ call'[t].token.minted_at <= call'[t].since
      /\ call'[t].since < call'[t].token.minted_at + Ttl + 2 * MaxDelay
  BY DEF CP!Timely, CP!TokenAge
<1>5. /\ call'[t].token.minted_at \in Int /\ call'[t].since \in Int
      /\ Ttl \in Nat /\ MaxDelay \in Nat
  BY <1>2, ProxyLatencyAssumption DEF Token, CP!TypeOK, CP!Call
<1> QED
  BY <1>2, <1>3, <1>4, <1>5

(* A request is decided: its errand begins. *)
LEMMA DecideArrives ==
  ASSUME ServiceInv, NEW t \in Task, Ready(t), NEW request \in Rules!Request,
         NEW status, NEW scope, Decide(t, request, status, scope), UNCHANGED now,
         \A u \in Task \ {t} : handler'[u] = handler[u],
         \A u \in Task \ {t} : call'[u] = call[u],
         NEW state \in {"pending", "error", "refused"},
         Errand(t)' = [state |-> state, request |-> request],
         state = "refused" <=> status # "granted"
  PROVE  Promise!Next
<1>1. DOMAIN exchanges = Task /\ ProcessOK /\ handler[t] \in Handler
  BY DEF ServiceInv, Typed
<1>2. /\ \A u \in Task \ {t} : exchanges'[u] = exchanges[u]
      /\ serving /\ UNCHANGED process
  BY <1>1, DecideExchanges, DecideAnswers DEF Decide
<1>3. Promise!Entitled(request) <=> status = "granted"
  BY <1>1, DecisionDue
<1>4. ~Promise!Busy(t)
  <2>1. Errand(t).state \in {"none", "token", "relayed", "refused", "error"}
    BY <1>1, ErrandAt DEF Ready, Handler
  <2> QED
    BY <2>1, ErrandsOf DEF Promise!Busy
<1>5. Errands'[t] = [state |-> state, request |-> request]
  BY ErrandsOf
<1>6. Errands'[t].state = state /\ Errands'[t].request = request
  BY <1>5
<1>7. request \in Promise!Rules!Request
  BY SamePromise
<1>8. Promise!Became(t, {"refused"}) <=> ~Promise!Entitled(request)
  BY <1>3, <1>6 DEF Promise!Became
<1>9. Promise!Arrive(t)
  BY <1>4, <1>5, <1>6, <1>7, <1>8 DEF Promise!Arrive, Promise!Became
<1> QED
  BY <1>2, <1>9, OneErrand

LEMMA BeginArrives ==
  ASSUME ServiceInv, CP!TypeOK, NEW t \in Task, NEW request \in Rules!Request,
         NEW scope \in TokenScope, Begin(t, request, scope)
  PROVE  Promise!Next
<1>1. DOMAIN exchanges = Task /\ DOMAIN handler = Task /\ Decide(t, request, "granted", scope)
  BY DEF ServiceInv, Typed, Begin
<1>2. exchanges'[t] = Exchanged(request, "granted", scope)
  BY <1>1, DecideExchanges
<1>3. exchanges'[t].request = request
  BY <1>2 DEF Exchanged
<1>4. /\ handler'[t].step = "calling" /\ \A u \in Task \ {t} : handler'[u] = handler[u]
  BY <1>1 DEF Begin, Calling
<1>5. UNCHANGED now /\ \A u \in Task \ {t} : call'[u] = call[u]
  BY DEF Begin, Client!Create, CP!TypeOK
<1>6. Errand(t)' = [state |-> "pending", request |-> request]
  BY <1>3, <1>4, ErrandNext
<1> QED
  BY <1>1, <1>4, <1>5, <1>6, DecideArrives DEF Begin

LEMMA AtOnceArrives ==
  ASSUME ServiceInv, NEW t \in Task, Ready(t), NEW request \in Rules!Request,
         NEW status, NEW scope, Decide(t, request, status, scope), UNCHANGED client,
         NEW reply \in {"refused", "error"}, Replied(t, reply),
         reply = "refused" <=> status # "granted"
  PROVE  Promise!Next
<1>1. DOMAIN exchanges = Task /\ Typed
  BY DEF ServiceInv, Typed
<1>2. exchanges'[t] = Exchanged(request, status, scope)
  BY <1>1, DecideExchanges
<1>3. exchanges'[t].request = request
  BY <1>2 DEF Exchanged
<1>4. /\ handler'[t].step = "answered" /\ handler'[t].reply = reply
      /\ \A u \in Task \ {t} : handler'[u] = handler[u]
  BY <1>1, RepliedTyped
<1>5. Errand(t)' = [state |-> reply, request |-> request]
  BY <1>3, <1>4, ErrandNext
<1>6. UNCHANGED now /\ \A u \in Task \ {t} : call'[u] = call[u]
  BY DEF client
<1> QED
  BY <1>4, <1>5, <1>6, DecideArrives

(* A call is over: its token is due to the caller. *)
LEMMA ReturnDelivers ==
  ASSUME ServiceInv, Proxying, CP!TypeOK, CP!TypeOK', CP!Isolation', CP!Timely',
         NEW t \in Task, Work(t), Return(t)
  PROVE  Promise!Next
<1> DEFINE request == exchanges[t].request
           token == call'[t].token
<1>1. /\ At(t, "calling") /\ UNCHANGED <<process, exchanges>> /\ Typed /\ Sound(t)
      /\ handler[t] \in Handler /\ call'[t].step = "returned"
  BY DEF Work, Return, ServiceInv, Typed
<1>2. /\ UNCHANGED now /\ \A u \in Task \ {t} : call'[u] = call[u]
      /\ call'[t].key = call[t].key /\ call'[t].since = now
  BY <1>1, OneCallOnward DEF Work, Onward
<1>3. /\ serving /\ exchanges[t].status = "granted" /\ Entitled(exchanges[t])
      /\ call[t].key = Key(request, exchanges[t].scope)
  BY <1>1 DEF Sound
<1>4. exchanges[t] \in Exchange
  BY <1>1, <1>3 DEF Typed, NoExchange
<1>5. /\ token \in Token /\ token.minted_at <= now
      /\ now < token.minted_at + (Ttl + 2 * MaxDelay)
      /\ CP!Fits(token, Key(request, exchanges[t].scope))
  BY <1>1, <1>2, <1>3, ReturnedNext
<1>6. Promise!Due(request, token)
  BY <1>3, <1>4, <1>5, FittingDue
<1>7. PICK state \in {"token", "acting"} :
        /\ Errand(t)' = [state |-> state, request |-> request, token |-> token]
        /\ state = "acting" => request.target.kind = "repository"
        /\ \A u \in Task \ {t} : handler'[u] = handler[u]
  <2>1. CASE handler[t].route = "token"
    <3>1. Replied(t, "token")
      BY <2>1 DEF Return
    <3>2. /\ handler'[t].step = "answered" /\ handler'[t].reply = "token"
          /\ \A u \in Task \ {t} : handler'[u] = handler[u]
      BY <1>1, <3>1, RepliedTyped
    <3>3. Errand(t)' = [state |-> "token", request |-> request, token |-> token]
      BY <1>1, <3>2, ErrandNext
    <3> QED
      BY <3>2, <3>3
  <2>2. CASE handler[t].route # "token"
    <3>1. handler' = [handler EXCEPT ![t].step = "forwarding"]
      BY <2>2 DEF Return
    <3>2. /\ handler'[t].step = "forwarding"
          /\ \A u \in Task \ {t} : handler'[u] = handler[u]
      BY <1>1, <3>1 DEF Typed, Handler
    <3>3. Errand(t)' = [state |-> "acting", request |-> request, token |-> token]
      BY <1>1, <3>2, ErrandNext
    <3>4. request.target.kind = "repository"
      BY <1>1, <2>2 DEF Proxying, Handler
    <3> QED
      BY <3>2, <3>3, <3>4
  <2> QED
    BY <2>1, <2>2
<1>8. Errands[t].state = "pending" /\ Errands[t].request = request
  BY <1>1, ErrandAt, ErrandsOf DEF At
<1>9. Errands'[t] = [state |-> state, request |-> request, token |-> token]
  BY <1>7, ErrandsOf
<1>10. Errands'[t].state = state /\ Errands'[t].token = token
  BY <1>9
<1>11. token \in Promise!Token
  BY <1>5, SamePromise
<1> HIDE DEF request, token
<1>12. Promise!Deliver(t)
  BY <1>5, <1>6, <1>7, <1>8, <1>9, <1>10, <1>11, <1>2 DEF Promise!Deliver, Promise!Became
<1> QED
  BY <1>1, <1>2, <1>3, <1>7, <1>12, OneErrand

(* A handler ends without a token of its caller's own. *)
LEMMA EndEnds ==
  ASSUME ServiceInv, CP!TypeOK, NEW t \in Task,
         \/ Work(t) /\ GiveUp(t)
         \/ CallFails(t) \/ Relay(t) \/ RelayFails(t) \/ Disconnect(t)
  PROVE  Promise!Next
<1>1. /\ Typed /\ Sound(t) /\ handler[t] \in Handler
      /\ UNCHANGED <<process, exchanges>>
  BY DEF ServiceInv, Typed, Work, CallFails, Relay, RelayFails, Disconnect
<1>2. \/ handler[t].step = "calling" /\ Errands[t].state = "pending"
      \/ handler[t].step = "forwarding" /\ Errands[t].state = "acting"
  <2>1. handler[t].step \in {"calling", "forwarding"}
    BY DEF Work, CallFails, Relay, RelayFails, Disconnect, At
  <2> QED
    BY <2>1, ErrandAt, ErrandsOf
<1>3. Errands[t].request = exchanges[t].request
  BY <1>2, ErrandAt, ErrandsOf
<1>0. serving
  BY <1>1, <1>2 DEF Sound, At, Delivering
<1>4. UNCHANGED now /\ \A u \in Task \ {t} : call'[u] = call[u]
  BY OneCallOnward DEF Work, CallFails, Relay, RelayFails, Disconnect, client
<1>5. CASE Disconnect(t)
  <2>1. handler'[t].step = "free" /\ \A u \in Task \ {t} : handler'[u] = handler[u]
    BY <1>1, <1>5, FreeTyped DEF Disconnect, Typed
  <2>2. Errands'[t] = [state |-> "none"]
    BY <2>1, ErrandNext, ErrandsOf
  <2>3. Promise!Leave(t)
    BY <1>2, <2>2 DEF Promise!Leave, Promise!Busy, Promise!Nothing
  <2> QED
    BY <1>0, <1>1, <1>4, <2>1, <2>3, OneErrand
<1>6. CASE ~Disconnect(t)
  <2>1. PICK reply \in {"error", "relayed"} :
          Replied(t, reply) /\ (reply = "relayed" => handler[t].step = "forwarding")
    BY <1>6 DEF Work, CallFails, GiveUp, Relay, RelayFails, At
  <2>2. /\ handler'[t].step = "answered" /\ handler'[t].reply = reply
        /\ \A u \in Task \ {t} : handler'[u] = handler[u]
    BY <1>1, <2>1, RepliedTyped
  <2>3. Errands'[t] = [state |-> reply, request |-> exchanges[t].request]
    BY <1>1, <2>2, ErrandNext, ErrandsOf
  <2>4. Promise!End(t)
    BY <1>2, <1>3, <2>1, <2>3 DEF Promise!End, Promise!Busy, Promise!Became
  <2> QED
    BY <1>0, <1>1, <1>4, <2>2, <2>4, OneErrand
<1> QED
  BY <1>5, <1>6

(* Nothing a caller could see. *)
LEMMA ErrandsStutter ==
  ASSUME UNCHANGED <<now, process>>, \A t \in Task : Errands'[t] = Errands[t]
  PROVE  UNCHANGED Promise!contract
<1>1. Errands' = Errands
  BY Zenon DEF Errands
<1> QED
  BY <1>1 DEF Promise!contract, Promise!process, process

LEMMA ContinueStutters ==
  ASSUME ServiceInv, CP!TypeOK, NEW t \in Task, Work(t), Continue(t)
  PROVE  UNCHANGED Promise!contract
<1>1. /\ At(t, "calling") /\ UNCHANGED <<process, exchanges, handler>>
      /\ UNCHANGED now /\ \A u \in Task \ {t} : call'[u] = call[u]
  BY OneCallOnward DEF Work, Continue
<1>2. \A u \in Task \ {t} : Errands'[u] = Errands[u]
  BY <1>1, ErrandKept
<1>3. Errands'[t] = Errands[t]
  BY <1>1, ErrandAt, ErrandNext, ErrandsOf DEF At
<1>4. \A u \in Task : Errands'[u] = Errands[u]
  BY <1>2, <1>3
<1> QED
  BY <1>1, <1>4, ErrandsStutter

(* The tasks stay as they are: an action on the process, or of the environment. *)
LEMMA TasksStill ==
  ASSUME UNCHANGED <<handler, exchanges, call>>
  PROVE  Errands' = Errands
<1>1. \A t \in Task : Errand(t)' = Errand(t)
  BY DEF Errand
<1> QED
  BY <1>1, Zenon DEF Errands

LEMMA ProcessPromised ==
  ASSUME ServiceInv, Start \/ Stop \/ Deploy
  PROVE  Promise!Next
<1>1. PICK t \in Task : TRUE
  BY PartsAssumption
<1>2. CASE Start
  <2>1. /\ ~serving /\ Rules!Valid(config, disable_auth) /\ serving' = TRUE
        /\ UNCHANGED <<now, config, disable_auth, exchanges, handler, call>>
    BY <1>1, <1>2, SameRules DEF Start, Auth!Start, client
  <2>2. Promise!Rules!Valid(config, disable_auth)
    BY <2>1, SamePromise
  <2>3. Promise!Start
    BY <2>1, <2>2, TasksStill DEF Promise!Start, Promise!Rules!Start
  <2> QED
    BY <2>3 DEF Promise!Next
<1>3. CASE Stop
  <2>1. /\ serving /\ serving' = FALSE /\ UNCHANGED <<now, config, disable_auth>>
        /\ handler' = [u \in Task |-> Free]
    BY <1>1, <1>3 DEF Stop, Auth!Stop, Client!Restart
  <2>2. \A u \in Task : Errand(u)' = [state |-> "none"]
    BY <2>1, FreeTyped, ErrandNext
  <2>3. Errands' = [u \in Task |-> [state |-> "none"]]
    BY <2>2, Zenon DEF Errands
  <2>4. Promise!Stop
    BY <2>1, <2>3 DEF Promise!Stop, Promise!Rules!Stop, Promise!Nothing,
                      Promise!Rules!NoExchange
  <2> QED
    BY <2>4 DEF Promise!Next
<1>4. CASE Deploy
  <2>1. /\ ~serving /\ serving' = serving /\ config' \in Config /\ disable_auth' \in BOOLEAN
        /\ UNCHANGED <<now, exchanges, handler, call>>
    BY <1>1, <1>4 DEF Deploy, Auth!Deploy, client
  <2>2. Promise!Deploy
    BY <2>1, TasksStill DEF Promise!Deploy, Promise!Rules!Deploy
  <2> QED
    BY <2>2 DEF Promise!Next
<1> QED
  BY <1>2, <1>3, <1>4

(* The proxy acts with its token for one await more: the bound on the network
   keeps GitHub honouring it. *)
LEMMA TickPromised ==
  ASSUME ServiceInv, CP!TypeOK, CP!Timely, Tick
  PROVE  Promise!Next
<1>1. /\ now' = now + 1 /\ UNCHANGED <<process, exchanges, handler, call>>
      /\ \A t \in Task : At(t, "forwarding") => now < call[t].since + MaxDelay
  BY DEF Tick, Client!Tick
<1>2. ASSUME NEW t \in Task, Errands[t].state = "acting"
      PROVE  now + 1 < Errands[t].token.minted_at + Lifetime
  <2>1. handler[t] \in Handler
    BY DEF ServiceInv, Typed
  <2>2. handler[t].step = "forwarding"
    BY <1>2, <2>1, ErrandAt, ErrandsOf DEF Handler
  <2>3. Errands[t].token = call[t].token
    BY <2>2, ErrandAt, ErrandsOf
  <2>4. call[t].step = "returned" /\ now < call[t].since + MaxDelay
    BY <1>1, <2>2 DEF ServiceInv, Sound, Delivering, At
  <2>5. call[t].since < call[t].token.minted_at + Ttl + 2 * MaxDelay
    BY <2>4 DEF CP!Timely, CP!TokenAge
  <2>6. now + 1 < call[t].token.minted_at + Lifetime
    BY <2>4, <2>5, Times, ProxyLatencyAssumption
  <2> QED
    BY <2>3, <2>6
<1>3. Errands' = Errands
  BY <1>1, TasksStill
<1>4. Promise!Tick
  BY <1>1, <1>2, <1>3 DEF Promise!Tick, Promise!process, process
<1> QED
  BY <1>4 DEF Promise!Next

LEMMA InitPromised == Init => Promise!Init
<1> SUFFICES ASSUME Init PROVE Promise!Init
  OBVIOUS
<1>1. now = Epoch /\ handler = [t \in Task |-> Free]
  BY DEF Init, Client!Init
<1>2. \A t \in Task : Errand(t) = [state |-> "none"]
  BY <1>1, FreeTyped, ErrandAt
<1>3. Errands = [t \in Task |-> [state |-> "none"]]
  BY <1>2, Zenon DEF Errands
<1> QED
  BY <1>1, <1>3 DEF Init, Promise!Init, Promise!Nothing

(* Every step of the service is one of the contract, or none a caller sees. *)
LEMMA StepPromised ==
  ServiceInv /\ Proxying /\ CP!TypeOK /\ CP!Timely
    /\ (CP!TypeOK /\ CP!Isolation /\ CP!Timely)' /\ [Next]_vars
  => [Promise!Next]_(Promise!contract)
<1> SUFFICES ASSUME ServiceInv, Proxying, CP!TypeOK, CP!Timely,
                    CP!TypeOK', CP!Isolation', CP!Timely', [Next]_vars
             PROVE  Promise!Next \/ UNCHANGED Promise!contract
  OBVIOUS
<1>1. ASSUME NEW t \in Task, NEW request \in Rules!Request, NEW scope \in TokenScope,
             Begin(t, request, scope)
      PROVE  Promise!Next
  BY <1>1, BeginArrives
<1>2. ASSUME NEW t \in Task, NEW request \in Rules!Request, NEW scope \in TokenScope,
             MissKey(t, request, scope)
      PROVE  Promise!Next
  BY <1>2, AtOnceArrives DEF MissKey
<1>3. ASSUME NEW t \in Task, NEW request \in Rules!Request, Reject(t, request)
      PROVE  Promise!Next
  <2>1. PICK status \in {"unauthorized", "not_found"} :
          Decide(t, request, status, Rules!NoScope)
    BY <1>3 DEF Reject
  <2> QED
    BY <1>3, <2>1, AtOnceArrives DEF Reject
<1>4. ASSUME NEW t \in Task, Work(t) PROVE Promise!Next \/ UNCHANGED Promise!contract
  <2>1. CASE Continue(t)
    BY <1>4, <2>1, ContinueStutters
  <2>2. CASE Return(t)
    BY <1>4, <2>2, ReturnDelivers
  <2>3. CASE GiveUp(t)
    BY <1>4, <2>3, EndEnds
  <2> QED
    BY <1>4, <2>1, <2>2, <2>3 DEF Work
<1>5. ASSUME NEW t \in Task, CallFails(t) \/ Relay(t) \/ RelayFails(t) \/ Disconnect(t)
      PROVE  Promise!Next
  BY <1>5, EndEnds
<1>6. CASE Start \/ Stop \/ Deploy
  BY <1>6, ProcessPromised
<1>7. CASE Tick
  BY <1>7, TickPromised
<1>8. CASE (\E app \in App : ChangeKey(app))
           \/ (\E app \in App, account \in Account : Change(app, account)) \/ UNCHANGED vars
  <2>1. UNCHANGED <<now, process, exchanges, handler, call>>
    BY <1>8 DEF ChangeKey, Change, Client!Change, vars, client
  <2> QED
    BY <2>1, TasksStill DEF Promise!contract, Promise!process, process
<1> QED
  BY <1>1, <1>2, <1>3, <1>4, <1>5, <1>6, <1>7, <1>8 DEF Next, Serve

(* The service implements its contract: whatever is cached, whichever calls fail,
   are abandoned or overtaken, whenever the process stops and whatever it is
   configured with next, a caller gets its due, young, or an error, and is turned
   away exactly if nothing entitles it. *)
THEOREM DelegationImplemented == Spec => ImplementsDelegation
<1>1. Spec => [](ServiceInv /\ CP!TypeOK /\ CP!Isolation /\ CP!Timely)
  BY ServiceInvariant
<1>2. Spec => []Proxying
  BY <1>1, InitProxying, NextProxying, PTL DEF Spec
<1> QED
  BY <1>1, <1>2, InitPromised, StepPromised, PTL DEF Spec, ImplementsDelegation, Promise!Spec

=============================================================================
