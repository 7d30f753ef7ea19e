--------------------------- MODULE MCTokenService ---------------------------
(* Small instances of TokenService for TLC. *)
EXTENDS TokenService, TLC

CONSTANTS a1, user, repo, read, workflow, operator, github, cluster,
          alice, t1, t2

Repository(login, repository) ==
  [kind |-> "repository", owner |-> login, name |-> repository]
Owner(login) == [kind |-> "owner", owner |-> login]

MCValue == {<<user, repo>>, user, alice}

Roles ==
  workflow :> [issuer |-> github, claims |-> <<>>]
    @@ operator :> [issuer |-> cluster, claims |-> "sub" :> {alice}]

Policy(target) ==
  [github_app |-> a1, targets |-> {target}, role |-> workflow, required_claims |-> <<>>,
   allow_self_access |-> TRUE, permissions |-> {read}]

(* Workflows may read their repository, or else their owner's installation;
   the operator may do everything. *)
File(installation_policies, owner_policies) ==
  [roles |-> Roles, github_apps |-> a1 :> {operator},
   installation_policies |-> installation_policies, owner_policies |-> owner_policies]

MCConfig ==
  {File(<<Policy(Repository(user, repo))>>, <<>>), File(<<>>, <<Policy(Owner(user))>>)}

MCBearer ==
  {[issuer |-> github,
    claims |-> "repository" :> <<user, repo>> @@ "repository_owner" :> user],
   [issuer |-> cluster, claims |-> "sub" :> alice]}

(* One file, and the callers it is about. *)
ProxyConfig == {c \in MCConfig : c.installation_policies # <<>>}

WorkflowBearer == {bearer \in MCBearer : bearer.issuer = github}

TaskSymmetry == Permutations(Task)
=============================================================================
