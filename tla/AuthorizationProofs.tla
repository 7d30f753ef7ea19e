------------------------- MODULE AuthorizationProofs -------------------------
(***************************************************************************)
(* Proofs about Authorization: type correctness and its five properties,   *)
(* for every set of configurations and bearer tokens.                      *)
(*                                                                         *)
(* The argument is in the lemma PolicyMatchesWhenEntitled: for a policy    *)
(* that Valid lets through, extending the claims of its role amounts to    *)
(* demanding both, because no claim is named twice.  The rest follows from *)
(* an invariant: an exchange is only there while idcat serves the          *)
(* configuration it was answered from, and that configuration is valid.    *)
(***************************************************************************)
EXTENDS Authorization, TLAPS

-----------------------------------------------------------------------------
(* Tables of claims. *)

(* Extending a table by one with other names demands what both demand. *)
LEMMA ExtendDisjoint ==
  ASSUME NEW claims, NEW table, NEW more, Names(table) \cap Names(more) = {}
  PROVE  Satisfies(claims, Extend(table, more))
           <=> Satisfies(claims, table) /\ Satisfies(claims, more)
<1>1. Names(Extend(table, more)) = Names(table) \cup Names(more)
  BY DEF Extend, Names
<1>2. \A name \in Names(more) : Extend(table, more)[name] = more[name]
  BY DEF Extend, Names
<1>3. \A name \in Names(table) : Extend(table, more)[name] = table[name]
  BY DEF Extend, Names
<1>4. ASSUME Satisfies(claims, Extend(table, more))
      PROVE  Satisfies(claims, table) /\ Satisfies(claims, more)
  BY <1>1, <1>2, <1>3, <1>4 DEF Satisfies
<1>5. ASSUME Satisfies(claims, table), Satisfies(claims, more)
      PROVE  Satisfies(claims, Extend(table, more))
  <2>1. SUFFICES ASSUME NEW name \in Names(table) \cup Names(more)
                 PROVE  /\ name \in Names(claims)
                        /\ claims[name] \in Extend(table, more)[name]
    BY <1>1 DEF Satisfies
  <2>2. CASE name \in Names(more)
    BY <1>2, <1>5, <2>2 DEF Satisfies
  <2>3. CASE name \in Names(table)
    BY <1>3, <1>5, <2>3 DEF Satisfies
  <2> QED
    BY <2>1, <2>2, <2>3
<1> QED
  BY <1>4, <1>5

(* What the claims of a policy for a request demand. *)
LEMMA ClaimsForRequestDemand ==
  ASSUME NEW claims, NEW policy, NEW target,
         policy.allow_self_access =>
           SelfAccessClaim(target.kind) \notin Names(policy.required_claims)
  PROVE  Satisfies(claims, ClaimsForRequest(policy, target))
           <=> /\ Satisfies(claims, policy.required_claims)
               /\ policy.allow_self_access =>
                    /\ SelfAccessClaim(target.kind) \in Names(claims)
                    /\ claims[SelfAccessClaim(target.kind)] = Rendered(target)
<1> DEFINE self == SelfAccessClaim(target.kind)
           selfTable == [name \in {self} |-> {Rendered(target)}]
<1>1. CASE ~policy.allow_self_access
  BY <1>1 DEF ClaimsForRequest
<1>2. CASE policy.allow_self_access
  <2>1. Names(selfTable) = {self} /\ selfTable[self] = {Rendered(target)}
    BY DEF Names
  <2>2. Satisfies(claims, selfTable)
          <=> self \in Names(claims) /\ claims[self] = Rendered(target)
    <3> HIDE DEF selfTable
    <3> QED BY <2>1 DEF Satisfies
  <2>3. ClaimsForRequest(policy, target) = Extend(policy.required_claims, selfTable)
    BY <1>2 DEF ClaimsForRequest
  <2>4. Names(policy.required_claims) \cap Names(selfTable) = {}
    BY <1>2, <2>1
  <2> HIDE DEF selfTable
  <2> QED
    BY <1>2, <2>2, <2>3, <2>4, ExtendDisjoint
<1> QED
  BY <1>1, <1>2

(* The names a policy's claims for a request have. *)
LEMMA ClaimsForRequestNames ==
  ASSUME NEW policy, NEW target
  PROVE  Names(ClaimsForRequest(policy, target))
           = Names(policy.required_claims)
               \cup (IF policy.allow_self_access THEN {SelfAccessClaim(target.kind)} ELSE {})
  BY DEF ClaimsForRequest, Extend, Names

-----------------------------------------------------------------------------
(* Roles and policies of a configuration. *)

LEMMA TargetKinds ==
  ASSUME NEW target \in InstallationTarget
  PROVE  target.kind \in {"repository", "owner"}
  BY DEF InstallationTarget

(* The policies of a configuration are typed, in the order of the file. *)
LEMMA PoliciesTyped ==
  ASSUME config \in Config, NEW kind \in {"repository", "owner"}
  PROVE  Policies(config, kind) \in Seq(PolicyConfig)
  BY AuthorizationAssumption DEF WellFormed

LEMMA RolesTyped ==
  ASSUME config \in Config, NEW name \in DOMAIN config.roles
  PROVE  config.roles[name] \in RoleConfig
  BY AuthorizationAssumption DEF WellFormed

(* authorize_github_app finds an allowed role exactly if one holds. *)
LEMMA AllowedRoleMatchIsEntitlement ==
  ASSUME NEW request
  PROVE  AllowedRoleMatch(request) <=> RoleEntitles(request)
  BY DEF AllowedRoleMatch, RoleEntitles, MatchingRoles

(* A role extended by claims of other names holds if the role and they do. *)
LEMMA RoleHoldsWithDisjointClaims ==
  ASSUME config \in Config, NEW name \in DOMAIN config.roles, NEW claims, NEW bearer,
         Names(config.roles[name].claims) \cap Names(claims) = {}
  PROVE  RoleHoldsWithClaims(config, name, claims, bearer)
           <=> RoleHolds(config.roles[name], bearer) /\ Satisfies(bearer.claims, claims)
<1> DEFINE role == config.roles[name]
           extended == [role EXCEPT !.claims = Extend(@, claims)]
<1>1. role \in RoleConfig
  BY RolesTyped
<1>2. extended.issuer = role.issuer /\ extended.claims = Extend(role.claims, claims)
  BY <1>1 DEF RoleConfig
<1>3. RoleHolds(extended, bearer)
        <=> role.issuer = bearer.issuer /\ Satisfies(bearer.claims, Extend(role.claims, claims))
  <2> HIDE DEF extended, role
  <2> QED BY <1>2 DEF RoleHolds
<1>4. Satisfies(bearer.claims, Extend(role.claims, claims))
        <=> Satisfies(bearer.claims, role.claims) /\ Satisfies(bearer.claims, claims)
  BY ExtendDisjoint
<1> QED
  BY <1>3, <1>4 DEF RoleHoldsWithClaims, RoleHolds

(* A valid policy matches a request exactly if all it demands is met. *)
LEMMA PolicyMatchesWhenEntitled ==
  ASSUME config \in Config, NEW request, NEW policy,
         ValidPolicy(config, policy, request.target.kind)
  PROVE  PolicyMatches(policy, request) <=> PolicyEntitles(policy, request)
<1> DEFINE target == request.target
           claims == ClaimsForRequest(policy, target)
           role   == config.roles[policy.role]
<1>1. policy.role \in DOMAIN config.roles
  BY DEF ValidPolicy
<1>2. Names(role.claims) \cap Names(claims) = {}
  BY ClaimsForRequestNames DEF ValidPolicy
<1>3. RoleHoldsWithClaims(config, policy.role, claims, request.bearer)
        <=> RoleHolds(role, request.bearer) /\ Satisfies(request.bearer.claims, claims)
  BY <1>1, <1>2, RoleHoldsWithDisjointClaims
<1>4. policy.allow_self_access =>
        SelfAccessClaim(target.kind) \notin Names(policy.required_claims)
  BY DEF ValidPolicy
<1> QED
  BY <1>3, <1>4, ClaimsForRequestDemand DEF PolicyMatches, PolicyEntitles

-----------------------------------------------------------------------------
(* The invariant all the theorems rest on: what was answered was answered by
   the configuration that is served now. *)
AuthInv == TypeOK /\ (exchange # NoExchange => serving)

(* The scope a policy of the configuration grants is a token scope. *)
LEMMA PolicyScopeTyped ==
  ASSUME config \in Config, NEW kind \in {"repository", "owner"},
         NEW i \in DOMAIN Policies(config, kind)
  PROVE  PolicyScope(Policies(config, kind)[i], kind) \in TokenScope
<1>1. Policies(config, kind)[i] \in PolicyConfig
  BY PoliciesTyped
<1> QED
  BY <1>1 DEF PolicyScope, PolicyConfig, TokenScope

(* A valid configuration that authorizes has valid policies only. *)
LEMMA PoliciesValid ==
  ASSUME config \in Config, NEW kind \in {"repository", "owner"},
         Valid(config, disable_auth), ~disable_auth,
         NEW i \in DOMAIN Policies(config, kind)
  PROVE  ValidPolicy(config, Policies(config, kind)[i], kind)
  BY DEF Valid, ValidPolicies

(* A step forgets the last exchange, keeps it with the configuration it belongs
   to, or answers a request under the configuration served. *)
LEMMA StepCases ==
  ASSUME AuthInv, [Next]_vars
  PROVE  \/ exchange' = NoExchange
         \/ UNCHANGED <<config, disable_auth, exchange>>
         \/ \E request \in Request :
              /\ Decide(request)
              /\ serving
              /\ UNCHANGED <<config, disable_auth, serving>>
<1>1. CASE Start
  BY <1>1 DEF Start
<1>2. CASE Stop
  BY <1>2 DEF Stop
<1>3. CASE Deploy
  BY <1>3 DEF Deploy, AuthInv
<1>4. ASSUME NEW request \in Request, Decide(request)
      PROVE  serving /\ UNCHANGED <<config, disable_auth, serving>>
  BY <1>4 DEF Decide, RefuseBearer, RefuseApp, SkipAuthorization, GrantRole,
              GrantPolicy, Refuse, Answer
<1>5. CASE UNCHANGED vars
  BY <1>5 DEF vars
<1> QED
  BY <1>1, <1>2, <1>3, <1>4, <1>5 DEF Next, Decide

(* An answer is a well-typed exchange. *)
LEMMA AnswersTyped ==
  ASSUME AuthInv, NEW request \in Request, Decide(request)
  PROVE  exchange' \in [request : Request,
                        status : {"granted", "unauthorized", "not_found"},
                        scope : TokenScope]
<1> USE DEF Answer
<1>1. config \in Config
  BY DEF AuthInv, TypeOK
<1>2. request.target.kind \in {"repository", "owner"}
  BY TargetKinds DEF Request
<1>3. NoScope \in TokenScope /\ Broad \in TokenScope
  BY DEF NoScope, Broad, TokenScope
<1>4. CASE RefuseBearer(request) \/ RefuseApp(request) \/ Refuse(request)
  BY <1>3, <1>4 DEF RefuseBearer, RefuseApp, Refuse
<1>5. CASE SkipAuthorization(request) \/ GrantRole(request)
  BY <1>3, <1>5 DEF SkipAuthorization, GrantRole
<1>6. CASE GrantPolicy(request)
  BY <1>1, <1>2, <1>6, PolicyScopeTyped DEF GrantPolicy
<1> QED
  BY <1>4, <1>5, <1>6 DEF Decide

LEMMA AuthInvInit ==
  Init => AuthInv
  BY DEF Init, AuthInv, TypeOK

(* Apart from answers only the process's life cycle moves: it starts with a
   configuration that validate accepted, a stop drops the exchange, and a new
   configuration is deployed while nothing serves and no exchange is there. *)
LEMMA AuthInvNext ==
  AuthInv /\ [Next]_vars => AuthInv'
<1> USE DEF AuthInv, TypeOK
<1>cycle. ASSUME AuthInv, Start \/ Stop \/ Deploy
          PROVE  AuthInv'
  <2>start. CASE Start
    BY <1>cycle, <2>start DEF Start
  <2>stop. CASE Stop
    BY <1>cycle, <2>stop DEF Stop
  <2>deploy. CASE Deploy
    BY <1>cycle, <2>deploy DEF Deploy
  <2> QED
    BY <1>cycle, <2>start, <2>stop, <2>deploy
<1>decide. ASSUME AuthInv, NEW request \in Request, Decide(request)
           PROVE  AuthInv'
  <2>served. serving /\ UNCHANGED <<config, disable_auth, serving>>
    BY <1>decide DEF Decide, RefuseBearer, RefuseApp, SkipAuthorization, GrantRole,
                     GrantPolicy, Refuse, Answer
  <2> QED
    BY <1>decide, <2>served, AnswersTyped
<1>still. ASSUME AuthInv, UNCHANGED vars
          PROVE  AuthInv'
  BY <1>still DEF vars
<1> QED
  BY <1>cycle, <1>decide, <1>still DEF Next, Decide

LEMMA AuthInvInductive ==
  Spec => []AuthInv
  BY AuthInvInit, AuthInvNext, PTL DEF Spec

(* TYPE CORRECTNESS.  The process that serves always serves a configuration
   validate accepted, under the arguments it was started with. *)
THEOREM TypeCorrect ==
  Spec => []TypeOK
<1>1. AuthInv => TypeOK
  BY DEF AuthInv
<1> QED
  BY <1>1, AuthInvInductive, PTL

-----------------------------------------------------------------------------
(* For every policy a request may be granted by, matching is being entitled. *)
LEMMA MatchingIsEntitlement ==
  ASSUME AuthInv, serving, ~disable_auth, NEW request \in Request,
         NEW i \in DOMAIN Policies(config, request.target.kind)
  PROVE  PolicyMatches(Policies(config, request.target.kind)[i], request)
           <=> PolicyEntitles(Policies(config, request.target.kind)[i], request)
<1>1. config \in Config /\ Valid(config, disable_auth)
  BY DEF AuthInv, TypeOK
<1>2. request.target.kind \in {"repository", "owner"}
  BY TargetKinds DEF Request
<1> QED
  BY <1>1, <1>2, PoliciesValid, PolicyMatchesWhenEntitled

(* What entitles a caller depends on the configuration alone. *)
LEMMA EntitlementUnchanged ==
  ASSUME UNCHANGED config
  PROVE  /\ \A request : RoleEntitles(request)' <=> RoleEntitles(request)
         /\ \A policy, request :
              PolicyEntitles(policy, request)' <=> PolicyEntitles(policy, request)
  BY DEF RoleEntitles, PolicyEntitles

(* What each answer says, and what it rests on. *)
Says(request, status, scope) ==
  exchange' = [request |-> request, status |-> status, scope |-> scope]

LEMMA AnswerRests ==
  ASSUME AuthInv, serving, NEW request \in Request, Decide(request)
  PROVE  LET kind == request.target.kind
             policies == Policies(config, kind)
         IN
         \/ /\ request.bearer = NoBearer
            /\ Says(request, "unauthorized", NoScope)
         \/ Says(request, "not_found", NoScope)
         \/ /\ disable_auth \/ RoleEntitles(request)
            /\ Says(request, "granted", Broad)
         \/ /\ ~disable_auth
            /\ ~RoleEntitles(request)
            /\ \E i \in DOMAIN policies :
                 /\ PolicyEntitles(policies[i], request)
                 /\ policies[i].permissions # {}
                 /\ \A j \in 1 .. i - 1 : ~PolicyEntitles(policies[j], request)
                 /\ Says(request, "granted", PolicyScope(policies[i], kind))
         \/ /\ ~RoleEntitles(request)
            /\ \A i \in DOMAIN policies : ~PolicyEntitles(policies[i], request)
            /\ Says(request, "unauthorized", NoScope)
<1> DEFINE kind == request.target.kind
           policies == Policies(config, kind)
<1> USE DEF Answer, Says
<1>1. CASE RefuseBearer(request)
  BY <1>1 DEF RefuseBearer
<1>2. CASE RefuseApp(request)
  BY <1>2 DEF RefuseApp
<1>3. CASE SkipAuthorization(request)
  BY <1>3 DEF SkipAuthorization
<1>4. CASE GrantRole(request)
  BY <1>4, AllowedRoleMatchIsEntitlement DEF GrantRole
<1>5. CASE GrantPolicy(request)
  <2>1. ~disable_auth /\ ~RoleEntitles(request)
    BY <1>5, AllowedRoleMatchIsEntitlement DEF GrantPolicy, Authorizing
  <2>2. PICK i \in DOMAIN policies :
          /\ PolicyMatches(policies[i], request)
          /\ \A j \in 1 .. i - 1 : ~PolicyMatches(policies[j], request)
          /\ Says(request, "granted", PolicyScope(policies[i], kind))
    BY <1>5 DEF GrantPolicy
  <2>3. PolicyEntitles(policies[i], request)
    BY <2>1, <2>2, MatchingIsEntitlement
  <2>4. config \in Config /\ Valid(config, disable_auth) /\ kind \in {"repository", "owner"}
    BY TargetKinds DEF AuthInv, TypeOK, Request
  <2>5. policies[i].permissions # {}
    BY <2>1, <2>4, PoliciesValid DEF ValidPolicy
  <2>6. \A j \in 1 .. i - 1 : j \in DOMAIN policies
    BY <2>4, PoliciesTyped
  <2>7. \A j \in 1 .. i - 1 : ~PolicyEntitles(policies[j], request)
    BY <2>1, <2>2, <2>6, MatchingIsEntitlement
  <2> QED
    BY <2>1, <2>2, <2>3, <2>5, <2>7
<1>6. CASE Refuse(request)
  <2>1. ~disable_auth /\ ~RoleEntitles(request)
    BY <1>6, AllowedRoleMatchIsEntitlement DEF Refuse, Authorizing
  <2>2. \A i \in DOMAIN policies : ~PolicyEntitles(policies[i], request)
    BY <1>6, <2>1, MatchingIsEntitlement DEF Refuse
  <2> QED
    BY <1>6, <2>1, <2>2 DEF Refuse
<1> QED
  BY <1>1, <1>2, <1>3, <1>4, <1>5, <1>6 DEF Decide

-----------------------------------------------------------------------------
(* THE PROPERTIES *)

(* ENTITLEMENT.  With authorization on, nobody is granted anything that no
   allowed role and no policy entitles him to, whatever the configuration. *)
THEOREM EntitledGrants ==
  Spec => []GrantsAreEntitled
<1>1. Init => GrantsAreEntitled
  BY DEF Init, GrantsAreEntitled, NoExchange, Granted
<1>2. AuthInv /\ GrantsAreEntitled /\ [Next]_vars => GrantsAreEntitled'
  <2> SUFFICES ASSUME AuthInv, GrantsAreEntitled, [Next]_vars
               PROVE  GrantsAreEntitled'
    OBVIOUS
  <2>1. CASE exchange' = NoExchange
    BY <2>1 DEF GrantsAreEntitled, NoExchange, Granted
  <2>2. CASE UNCHANGED <<config, disable_auth, exchange>>
    BY <2>2, EntitlementUnchanged DEF GrantsAreEntitled, Granted, Policies, PolicyScope
  <2>3. ASSUME NEW request \in Request, Decide(request), serving,
               UNCHANGED <<config, disable_auth, serving>>
        PROVE  GrantsAreEntitled'
    BY <2>3, AnswerRests, EntitlementUnchanged DEF Says, GrantsAreEntitled, Granted,
                                                    Policies, PolicyScope
  <2> QED
    BY <2>1, <2>2, <2>3, StepCases
<1> QED
  BY <1>1, <1>2, AuthInvInductive, PTL DEF Spec

(* COMPLETENESS.  Whoever shows a bearer token that some role or policy entitles
   is not turned away. *)
THEOREM DueRefusals ==
  Spec => []RefusalsAreDue
<1>1. Init => RefusalsAreDue
  BY DEF Init, RefusalsAreDue, NoExchange
<1>2. AuthInv /\ RefusalsAreDue /\ [Next]_vars => RefusalsAreDue'
  <2> SUFFICES ASSUME AuthInv, RefusalsAreDue, [Next]_vars
               PROVE  RefusalsAreDue'
    OBVIOUS
  <2>1. CASE exchange' = NoExchange
    BY <2>1 DEF RefusalsAreDue, NoExchange
  <2>2. CASE UNCHANGED <<config, disable_auth, exchange>>
    BY <2>2, EntitlementUnchanged DEF RefusalsAreDue, Policies, NoScope
  <2>3. ASSUME NEW request \in Request, Decide(request), serving,
               UNCHANGED <<config, disable_auth, serving>>
        PROVE  RefusalsAreDue'
    BY <2>3, AnswerRests, EntitlementUnchanged DEF Says, RefusalsAreDue, Policies, NoScope
  <2> QED
    BY <2>1, <2>2, <2>3, StepCases
<1> QED
  BY <1>1, <1>2, AuthInvInductive, PTL DEF Spec

(* NARROWING.  A grant of all the permissions of an installation comes from an
   allowed role: a policy always narrows them, though an empty table, which
   would not, passes through authorize_github_app as well. *)
THEOREM NarrowedPermissions ==
  Spec => []FullPermissionsNeedRole
<1>1. Init => FullPermissionsNeedRole
  BY DEF Init, FullPermissionsNeedRole, NoExchange, Granted
<1>2. AuthInv /\ FullPermissionsNeedRole /\ [Next]_vars => FullPermissionsNeedRole'
  <2> SUFFICES ASSUME AuthInv, FullPermissionsNeedRole, [Next]_vars
               PROVE  FullPermissionsNeedRole'
    OBVIOUS
  <2>1. CASE exchange' = NoExchange
    BY <2>1 DEF FullPermissionsNeedRole, NoExchange, Granted
  <2>2. CASE UNCHANGED <<config, disable_auth, exchange>>
    BY <2>2, EntitlementUnchanged DEF FullPermissionsNeedRole, Granted, PolicyScope, Broad
  <2>3. ASSUME NEW request \in Request, Decide(request), serving,
               UNCHANGED <<config, disable_auth, serving>>
        PROVE  FullPermissionsNeedRole'
    BY <2>3, AnswerRests, EntitlementUnchanged
       DEF Says, FullPermissionsNeedRole, Granted, PolicyScope, Broad
  <2> QED
    BY <2>1, <2>2, <2>3, StepCases
<1> QED
  BY <1>1, <1>2, AuthInvInductive, PTL DEF Spec

(* SCOPES.  What a policy grants on the repository endpoint is that repository,
   and the client can ask GitHub for every scope that is granted. *)
THEOREM SuitableScopes ==
  Spec => []ScopeSuitsTarget
<1>1. Init => ScopeSuitsTarget
  BY DEF Init, ScopeSuitsTarget, NoExchange, Granted
<1>2. AuthInv /\ ScopeSuitsTarget /\ [Next]_vars => ScopeSuitsTarget'
  <2> SUFFICES ASSUME AuthInv, ScopeSuitsTarget, [Next]_vars
               PROVE  ScopeSuitsTarget'
    OBVIOUS
  <2>1. CASE exchange' = NoExchange
    BY <2>1 DEF ScopeSuitsTarget, NoExchange, Granted
  <2>2. CASE UNCHANGED <<config, disable_auth, exchange>>
    BY <2>2, EntitlementUnchanged
       DEF ScopeSuitsTarget, Granted, PolicyScope, Broad, ScopeRefused, Request,
           InstallationTarget
  <2>3. ASSUME NEW request \in Request, Decide(request), serving,
               UNCHANGED <<config, disable_auth, serving>>
        PROVE  ScopeSuitsTarget'
    BY <2>3, AnswerRests, EntitlementUnchanged
       DEF Says, ScopeSuitsTarget, Granted, PolicyScope, Broad, ScopeRefused, Request,
           InstallationTarget
  <2> QED
    BY <2>1, <2>2, <2>3, StepCases
<1> QED
  BY <1>1, <1>2, AuthInvInductive, PTL DEF Spec

(* ORDER.  Among the policies that entitle a caller the first one decides. *)
THEOREM FirstPolicyWins ==
  Spec => []FirstPolicyDecides
<1>1. Init => FirstPolicyDecides
  BY DEF Init, FirstPolicyDecides, NoExchange, Granted
<1>2. AuthInv /\ FirstPolicyDecides /\ [Next]_vars => FirstPolicyDecides'
  <2> SUFFICES ASSUME AuthInv, FirstPolicyDecides, [Next]_vars
               PROVE  FirstPolicyDecides'
    OBVIOUS
  <2>1. CASE exchange' = NoExchange
    BY <2>1 DEF FirstPolicyDecides, NoExchange, Granted
  <2>2. CASE UNCHANGED <<config, disable_auth, exchange>>
    BY <2>2, EntitlementUnchanged DEF FirstPolicyDecides, Granted, Policies, PolicyScope
  <2>3. ASSUME NEW request \in Request, Decide(request), serving,
               UNCHANGED <<config, disable_auth, serving>>
        PROVE  FirstPolicyDecides'
    <3> DEFINE kind == request.target.kind
               policies == Policies(config, kind)
               entitles(i) == /\ PolicyEntitles(policies[i], request)
                              /\ \A j \in 1 .. i - 1 : ~PolicyEntitles(policies[j], request)
    <3>1. config' = config /\ disable_auth' = disable_auth
      BY <2>3
    <3>2. exchange'.request = request
      BY <2>3, AnswerRests DEF Says
    <3>3. SUFFICES ASSUME Granted', ~disable_auth, ~RoleEntitles(request),
                          NEW i \in DOMAIN policies, entitles(i)
                   PROVE  exchange'.scope = PolicyScope(policies[i], kind)
      BY <3>1, <3>2, EntitlementUnchanged DEF FirstPolicyDecides, Policies, PolicyScope
    <3>4. PICK k \in DOMAIN policies :
            entitles(k) /\ Says(request, "granted", PolicyScope(policies[k], kind))
      BY <2>3, <3>3, AnswerRests DEF Says, Granted
    <3>5. policies \in Seq(PolicyConfig)
      BY PoliciesTyped, TargetKinds DEF AuthInv, TypeOK, Request
    <3>6. i \in Nat /\ k \in Nat /\ i >= 1 /\ k >= 1
      BY <3>5
    <3>7. i = k
      BY <3>3, <3>4, <3>6
    <3> QED
      BY <3>4, <3>7 DEF Says
  <2> QED
    BY <2>1, <2>2, <2>3, StepCases
<1> QED
  BY <1>1, <1>2, AuthInvInductive, PTL DEF Spec

=============================================================================
