--------------------------- MODULE MCAuthorization ---------------------------
(* Small instances of Authorization for TLC. *)
EXTENDS Authorization, Patterns, TLC

CONSTANTS deployments, unknown, acme, other, site, docs, read, write,
          workflow, operator, github, cluster, alice

Repository(login, repository) ==
  [kind |-> "repository", owner |-> login, name |-> repository]
Owner(login) == [kind |-> "owner", owner |-> login]

Site == Repository(acme, site)
Docs == Repository(acme, docs)

(* Globs for repositories, and the targets a policy with some of them matches. *)
Everything == {<<"*">>}
OfAcme == {<<"a", "/", "*">>}
AllSites == {<<"?", "/", "s">>}

ASSUME GlobsAreValid ==
  /\ \A p \in Everything \cup OfAcme \cup AllSites : IsValidRepoPattern(p)
  /\ \A p \in Everything : IsValidOwnerPattern(p)

Spelled == acme :> <<"a">> @@ site :> <<"s">> @@ docs :> <<"d">>

RepositoriesOf(patterns) ==
  {t \in {Site, Docs} :
     \E p \in patterns : Matches(p, FullName(Spelled[t.owner], Spelled[t.name]))}

OwnersOf(patterns) ==
  {t \in {Owner(acme)} : \E p \in patterns : Matches(p, Spelled[t.owner])}

MCValue == {<<acme, site>>, <<acme, docs>>, acme, alice}

(* Roles of one issuer; the workflow role may constrain a claim itself. *)
Roles(claims) ==
  workflow :> [issuer |-> github, claims |-> claims]
    @@ operator :> [issuer |-> cluster, claims |-> "sub" :> {alice}]

Policy(app, targets, claims, self, permissions) ==
  [github_app |-> app, targets |-> targets, role |-> workflow,
   required_claims |-> claims, allow_self_access |-> self, permissions |-> permissions]

File(roles, allowed, installation_policies, owner_policies) ==
  [roles |-> roles, github_apps |-> deployments :> allowed,
   installation_policies |-> installation_policies, owner_policies |-> owner_policies]

RoleClaims ==
  {<<>>, "sub" :> {alice}, "repository" :> {<<acme, docs>>},
   "repository_owner" :> {acme}}

PolicyClaims(kind) ==
  {<<>>, "sub" :> {alice, acme}, SelfAccessClaim(kind) :> MCValue}

OnePolicy(kind, targets) ==
  {<<Policy(app, targets, claims, self, permissions)>> :
     app \in {deployments, unknown}, claims \in PolicyClaims(kind),
     self \in BOOLEAN, permissions \in {{}, {read}}}

(* Every way to combine a role with one policy, valid or not; the policy's role
   may be missing. *)
RoleTables ==
  {Roles(claims) : claims \in RoleClaims}
    \cup {operator :> [issuer |-> cluster, claims |-> <<>>], <<>>}

ClaimsConfig ==
  {File(roles, allowed, installation_policies, <<>>) :
     roles \in RoleTables, allowed \in {{}, {operator}},
     installation_policies \in
       OnePolicy("repository", RepositoriesOf(Everything)) \cup {<<>>}}
  \cup
  {File(Roles(claims), {}, <<>>, owner_policies) :
     claims \in RoleClaims, owner_policies \in OnePolicy("owner", OwnersOf(Everything))}

(* Policies for overlapping targets, in either order, on either endpoint. *)
Overlapping ==
  {Policy(deployments, RepositoriesOf(AllSites), "sub" :> {alice}, FALSE, {read, write}),
   Policy(deployments, RepositoriesOf(OfAcme), <<>>, TRUE, {read}),
   Policy(deployments, RepositoriesOf(Everything), "repository" :> {<<acme, docs>>},
          FALSE, {write})}

OrderConfig ==
  {File(Roles(<<>>), {operator}, installation_policies, owner_policies) :
     installation_policies \in Overlapping \X Overlapping,
     owner_policies \in OnePolicy("owner", OwnersOf(Everything)) \cup {<<>>}}

MCConfig == ClaimsConfig \cup OrderConfig

Tables ==
  {repository @@ sub : repository \in {<<>>, "repository" :> <<acme, site>>,
                                       "repository" :> <<acme, docs>>,
                                       "repository_owner" :> acme,
                                       "repository_owner" :> alice},
                       sub \in {<<>>, "sub" :> alice}}

MCBearer ==
  {[issuer |-> github, claims |-> claims] : claims \in Tables}
    \cup {[issuer |-> cluster, claims |-> "sub" :> alice]}
=============================================================================
