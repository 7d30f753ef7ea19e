---------------------------- MODULE Authorization ----------------------------
(***************************************************************************)
(* How idcat decides what a caller may have: the configuration it accepts  *)
(* at startup (src/src/config.rs, validate) and the answer it gives to a   *)
(* request under it (src/src/main.rs, create_installation_token up to the  *)
(* signer; src/src/service.rs, authorize_github_app and authorize_owner).  *)
(*                                                                         *)
(* Bearer tokens and roles are checked by the authzoo crate.  A claim      *)
(* requirement stands for the set of claim values that satisfy it, and a   *)
(* policy's globs for the targets they match (Patterns).                   *)
(***************************************************************************)
EXTENDS Scopes, Sequences, Naturals

CONSTANTS
  Role,      \* role names
  Issuer,    \* what signs bearer tokens: issuer, audience and key together
  Value,     \* values of claims, the names of repositories and owners included
  NoBearer,  \* no usable Authorization header
  Config,    \* the configuration files that may be deployed
  Bearer     \* the bearer tokens callers present

Claim == {"repository", "repository_owner", "sub"}

(* Tables from claim names to what a token has, or to what it is asked to have. *)
Table(S) == UNION {[names -> S] : names \in SUBSET Claim}

RoleConfig == [issuer : Issuer, claims : Table(SUBSET Value)]

PolicyConfig ==
  [github_app : App, targets : SUBSET InstallationTarget, role : Role,
   required_claims : Table(SUBSET Value), allow_self_access : BOOLEAN,
   permissions : SUBSET Permission]

BearerToken == [issuer : Issuer, claims : Table(Value)]

(* A configuration has roles and Apps by name, and the policies in the order of
   the file, a list for each endpoint. *)
Policies(c, kind) ==
  IF kind = "repository" THEN c.installation_policies ELSE c.owner_policies

WellFormed(c) ==
  /\ \A name \in DOMAIN c.roles : name \in Role /\ c.roles[name] \in RoleConfig
  /\ \A app \in DOMAIN c.github_apps : app \in App /\ c.github_apps[app] \subseteq Role
  /\ \A kind \in {"repository", "owner"} : Policies(c, kind) \in Seq(PolicyConfig)

(* The value of the self-access claim of a target: "owner/name", or the owner. *)
Rendered(target) ==
  IF target.kind = "repository" THEN <<target.owner, target.name>> ELSE target.owner

ASSUME AuthorizationAssumption ==
  /\ \A c \in Config : WellFormed(c)
  /\ Bearer \subseteq BearerToken
  /\ NoBearer \notin Bearer

VARIABLES
  config,        \* the configuration served
  disable_auth,  \* --disable-auth
  serving,       \* idcat is up
  exchange       \* the last request and its answer

vars == <<config, disable_auth, serving, exchange>>

NoScope == [repositories |-> "All", permissions |-> {}]
NoExchange == [status |-> "none"]

-----------------------------------------------------------------------------
(* Claims and roles. *)

Names(table) == DOMAIN table

(* BTreeMap::extend: entries of the second table replace those of the first. *)
Extend(table, more) ==
  [name \in Names(table) \cup Names(more) |->
     IF name \in Names(more) THEN more[name] ELSE table[name]]

Satisfies(claims, requirements) ==
  \A name \in Names(requirements) :
    name \in Names(claims) /\ claims[name] \in requirements[name]

RoleHolds(role, bearer) ==
  role.issuer = bearer.issuer /\ Satisfies(bearer.claims, role.claims)

(* TokenValidator::validate, the roles a bearer token has. *)
MatchingRoles(c, bearer) == {name \in DOMAIN c.roles : RoleHolds(c.roles[name], bearer)}

(* The claim allow-self-access is about, by the kind of the target. *)
SelfAccessClaim(kind) == IF kind = "repository" THEN "repository" ELSE "repository_owner"

(* claims_for_request and claims_for_owner_request. *)
ClaimsForRequest(policy, target) ==
  IF policy.allow_self_access
    THEN Extend(policy.required_claims,
                [name \in {SelfAccessClaim(target.kind)} |-> {Rendered(target)}])
    ELSE policy.required_claims

(* validate_role_with_claims: the role, its claims extended by the policy's. *)
RoleHoldsWithClaims(c, name, claims, bearer) ==
  /\ name \in DOMAIN c.roles
  /\ RoleHolds([c.roles[name] EXCEPT !.claims = Extend(@, claims)], bearer)

-----------------------------------------------------------------------------
(* Config::validate.  Checks on the form of single entries are left out. *)

(* Mutants of ValidPolicy: a policy may repeat a claim its role constrains, or
   may leave the permissions out. *)
ValidPolicyRepeatingRole(c, policy, kind) ==
  /\ policy.github_app \in DOMAIN c.github_apps
  /\ policy.role \in DOMAIN c.roles
  /\ Names(policy.required_claims) = {} => policy.allow_self_access
  /\ policy.permissions # {}

ValidPolicyWithoutPermissions(c, policy, kind) ==
  LET role_claims == c.roles[policy.role].claims IN
  /\ policy.github_app \in DOMAIN c.github_apps
  /\ policy.role \in DOMAIN c.roles
  /\ Names(policy.required_claims) = {} => policy.allow_self_access
  /\ Names(policy.required_claims) \cap Names(role_claims) = {}
  /\ policy.allow_self_access =>
       SelfAccessClaim(kind) \notin Names(policy.required_claims) \cup Names(role_claims)

(* [[installation-policy]] and [[owner-policy]] are held to the same rules. *)
ValidPolicy(c, policy, kind) ==
  LET role_claims == c.roles[policy.role].claims IN
  /\ policy.github_app \in DOMAIN c.github_apps
  /\ policy.role \in DOMAIN c.roles
  /\ Names(policy.required_claims) = {} => policy.allow_self_access
  /\ Names(policy.required_claims) \cap Names(role_claims) = {}
  /\ policy.allow_self_access =>
       SelfAccessClaim(kind) \notin Names(policy.required_claims) \cup Names(role_claims)
  /\ policy.permissions # {}

(* The checks of every [[installation-policy]] and of every [[owner-policy]]. *)
ValidPolicies(c, kind) ==
  \A i \in DOMAIN Policies(c, kind) : ValidPolicy(c, Policies(c, kind)[i], kind)

HasPolicy(c, app, kind) ==
  \E i \in DOMAIN Policies(c, kind) : Policies(c, kind)[i].github_app = app

(* Every App has an allowed role or a policy, and its allowed roles exist. *)
ValidApp(c, app) ==
  /\ c.github_apps[app] \subseteq DOMAIN c.roles
  /\ \/ c.github_apps[app] # {}
     \/ HasPolicy(c, app, "repository")
     \/ HasPolicy(c, app, "owner")

Valid(c, auth_disabled) ==
  /\ DOMAIN c.github_apps # {}
  /\ ~auth_disabled =>
       /\ DOMAIN c.roles # {}
       /\ \A app \in DOMAIN c.github_apps : ValidApp(c, app)
       /\ ValidPolicies(c, "repository")
       /\ ValidPolicies(c, "owner")

-----------------------------------------------------------------------------
(* Starting and stopping.  The configuration is read at the start only. *)

Init ==
  /\ config \in Config
  /\ disable_auth \in BOOLEAN
  /\ serving = FALSE
  /\ exchange = NoExchange

(* Mutant of Start: the configuration is checked as if authorization were off. *)
StartUnauthorized ==
  /\ ~serving
  /\ Valid(config, TRUE)
  /\ serving' = TRUE
  /\ UNCHANGED <<config, disable_auth, exchange>>

(* run: a configuration that is not valid ends the process at once. *)
Start ==
  /\ ~serving
  /\ Valid(config, disable_auth)
  /\ serving' = TRUE
  /\ UNCHANGED <<config, disable_auth, exchange>>

Stop ==
  /\ serving
  /\ serving' = FALSE
  /\ exchange' = NoExchange
  /\ UNCHANGED <<config, disable_auth>>

(* Another configuration, other arguments: they count from the next start on. *)
Deploy ==
  /\ ~serving
  /\ config' \in Config
  /\ disable_auth' \in BOOLEAN
  /\ UNCHANGED <<serving, exchange>>

-----------------------------------------------------------------------------
(* The answer to a request; every request is answered from `config' alone. *)

Request == [github_app : App, target : InstallationTarget, bearer : Bearer \cup {NoBearer}]

Answer(request, status, scope) ==
  /\ serving
  /\ exchange' = [request |-> request, status |-> status, scope |-> scope]
  /\ UNCHANGED <<config, disable_auth, serving>>

(* The bearer token is looked for first, the App next. *)
RefuseBearer(request) ==
  /\ ~disable_auth
  /\ request.bearer = NoBearer
  /\ Answer(request, "unauthorized", NoScope)

Heard(request) == disable_auth \/ request.bearer # NoBearer

Known(request) == request.github_app \in DOMAIN config.github_apps

RefuseApp(request) ==
  /\ Heard(request)
  /\ ~Known(request)
  /\ Answer(request, "not_found", NoScope)

(* TokenScope::broad. *)
Broad == [repositories |-> "All", permissions |-> {}]

SkipAuthorization(request) ==
  /\ disable_auth
  /\ Known(request)
  /\ Answer(request, "granted", Broad)

Authorizing(request) == ~disable_auth /\ request.bearer # NoBearer /\ Known(request)

AllowedRoleMatch(request) ==
  MatchingRoles(config, request.bearer) \cap config.github_apps[request.github_app] # {}

GrantRole(request) ==
  /\ Authorizing(request)
  /\ AllowedRoleMatch(request)
  /\ Answer(request, "granted", Broad)

(* The policies consulted are those of the endpoint the request came to. *)
PolicyMatches(policy, request) ==
  /\ policy.github_app = request.github_app
  /\ request.target \in policy.targets
  /\ RoleHoldsWithClaims(config, policy.role, ClaimsForRequest(policy, request.target),
                         request.bearer)

(* Mutant of PolicyScope: owner policies are scoped like the others. *)
PolicyScopeRequested(policy, kind) ==
  [repositories |-> "OnlyRequested", permissions |-> policy.permissions]

PolicyScope(policy, kind) ==
  [repositories |-> IF kind = "repository" THEN "OnlyRequested" ELSE "All",
   permissions  |-> policy.permissions]

(* Mutant of GrantPolicy: any policy that matches may decide. *)
GrantAnyPolicy(request) ==
  LET kind == request.target.kind
      policies == Policies(config, kind)
  IN
  /\ Authorizing(request)
  /\ ~AllowedRoleMatch(request)
  /\ \E i \in DOMAIN policies :
       /\ PolicyMatches(policies[i], request)
       /\ Answer(request, "granted", PolicyScope(policies[i], kind))

(* authorize_github_app and authorize_owner: the first policy in the file that
   matches decides.  Both endpoints work alike, each on its own list. *)
GrantPolicy(request) ==
  LET kind == request.target.kind
      policies == Policies(config, kind)
  IN
  /\ Authorizing(request)
  /\ ~AllowedRoleMatch(request)
  /\ \E i \in DOMAIN policies :
       /\ PolicyMatches(policies[i], request)
       /\ \A j \in 1 .. i - 1 : ~PolicyMatches(policies[j], request)
       /\ Answer(request, "granted", PolicyScope(policies[i], kind))

(* Mutant of Refuse: the first policy for the App and the target decides, and
   its claims are looked at afterwards. *)
RefuseFirstCandidate(request) ==
  LET policies == Policies(config, request.target.kind)
      Candidate(i) == /\ policies[i].github_app = request.github_app
                      /\ request.target \in policies[i].targets
  IN
  /\ Authorizing(request)
  /\ ~AllowedRoleMatch(request)
  /\ \A i \in DOMAIN policies :
       Candidate(i) /\ (\A j \in 1 .. i - 1 : ~Candidate(j)) => ~PolicyMatches(policies[i], request)
  /\ Answer(request, "unauthorized", NoScope)

Refuse(request) ==
  LET policies == Policies(config, request.target.kind) IN
  /\ Authorizing(request)
  /\ ~AllowedRoleMatch(request)
  /\ \A i \in DOMAIN policies : ~PolicyMatches(policies[i], request)
  /\ Answer(request, "unauthorized", NoScope)

Decide(request) ==
  \/ RefuseBearer(request)
  \/ RefuseApp(request)
  \/ SkipAuthorization(request)
  \/ GrantRole(request)
  \/ GrantPolicy(request)
  \/ Refuse(request)

Next ==
  \/ Start
  \/ Stop
  \/ Deploy
  \/ \E request \in Request : Decide(request)

Spec == Init /\ [][Next]_vars

-----------------------------------------------------------------------------
(* PROPERTIES *)

TypeOK ==
  /\ config \in Config
  /\ disable_auth \in BOOLEAN
  /\ serving \in BOOLEAN
  /\ serving => Valid(config, disable_auth)
  /\ exchange = NoExchange \/ exchange \in
       [request : Request, status : {"granted", "unauthorized", "not_found"},
        scope : TokenScope]

Granted == exchange.status = "granted"

(* An allowed role of the App holds for the bearer token. *)
RoleEntitles(request) ==
  \E name \in config.github_apps[request.github_app] :
    name \in DOMAIN config.roles /\ RoleHolds(config.roles[name], request.bearer)

(* What a policy demands, taken one by one: its role as configured, the claims
   it requires, and its self-access claim; no demand replaces another. *)
PolicyEntitles(policy, request) ==
  LET claims == request.bearer.claims
      self == SelfAccessClaim(request.target.kind)
  IN
  /\ policy.github_app = request.github_app
  /\ request.target \in policy.targets
  /\ RoleHolds(config.roles[policy.role], request.bearer)
  /\ Satisfies(claims, policy.required_claims)
  /\ policy.allow_self_access =>
       self \in Names(claims) /\ claims[self] = Rendered(request.target)

(* A grant with authorization on rests on an allowed role, and is then broad, or
   on a policy of the endpoint all of whose demands hold: extending the role's
   claims by the policy's never drops one of them. *)
GrantsAreEntitled ==
  Granted /\ ~disable_auth =>
    LET request == exchange.request
        policies == Policies(config, request.target.kind)
    IN
    \/ RoleEntitles(request) /\ exchange.scope = Broad
    \/ \E i \in DOMAIN policies :
         /\ PolicyEntitles(policies[i], request)
         /\ exchange.scope = PolicyScope(policies[i], request.target.kind)

(* A caller some role or policy entitles is never turned away. *)
RefusalsAreDue ==
  exchange.status = "unauthorized" /\ exchange.request.bearer # NoBearer =>
    LET request == exchange.request
        policies == Policies(config, request.target.kind)
    IN
    /\ ~RoleEntitles(request)
    /\ \A i \in DOMAIN policies : ~PolicyEntitles(policies[i], request)

(* Only an allowed role, or --disable-auth, gives all the permissions of an
   installation: a policy always narrows them. *)
FullPermissionsNeedRole ==
  Granted /\ exchange.scope.permissions = {} =>
    disable_auth \/ RoleEntitles(exchange.request)

(* README.md: an installation-policy "never widens beyond the requested
   repository", and no scope is handed out that the target does not suit. *)
ScopeSuitsTarget ==
  Granted => /\ ~ScopeRefused(exchange.scope, exchange.request.target)
             /\ \/ exchange.scope.repositories = "OnlyRequested"
                \/ exchange.request.target.kind = "owner"
                \/ disable_auth
                \/ RoleEntitles(exchange.request)

(* Of the policies that entitle a caller the first one in the file decides. *)
FirstPolicyDecides ==
  Granted /\ ~disable_auth /\ ~RoleEntitles(exchange.request) =>
    LET request == exchange.request
        policies == Policies(config, request.target.kind)
    IN
    \A i \in DOMAIN policies :
      /\ PolicyEntitles(policies[i], request)
      /\ \A j \in 1 .. i - 1 : ~PolicyEntitles(policies[j], request)
      => exchange.scope = PolicyScope(policies[i], request.target.kind)

=============================================================================
