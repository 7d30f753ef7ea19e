---------------------------- MODULE MCGithubClient ----------------------------
(* Small instances of GithubClient for TLC. *)
EXTENDS GithubClient, TLC

CONSTANTS a1, a2, org, user, repo, other, read, write, r1, r2

Repository(login, repository) ==
  [kind |-> "repository", owner |-> login, name |-> repository]
Owner(login) == [kind |-> "owner", owner |-> login]

Narrow(granted) == [repositories |-> "OnlyRequested", permissions |-> granted]
Wide(granted) == [repositories |-> "All", permissions |-> granted]

Key(app, wanted, reach) == [github_app |-> app, target |-> wanted, scope |-> reach]

(* One App, one repository, two scopes: the least for two entries of the cache. *)
ScopesWanted ==
  {Key(a1, Repository(org, repo), Narrow({read})),
   Key(a1, Repository(org, repo), Wide({}))}

(* Keys that differ from the first in the scope, in the App, in the repository
   and in the account. *)
IsolationWanted ==
  ScopesWanted \cup
  {Key(a2, Repository(org, repo), Narrow({read})),
   Key(a1, Repository(org, other), Narrow({read, write})),
   Key(a1, Owner(user), Wide({}))}

(* The longest way to a token: organization, user, installation, token. *)
OwnerWanted == {key \in IsolationWanted : key.target.owner = user}

(* Two entries of the id cache for one installation, and a scope that does not
   suit its target. *)
ReinstallWanted ==
  {Key(a1, Owner(user), Wide({})),
   Key(a1, Owner(user), Narrow({read})),
   Key(a1, Repository(user, repo), Narrow({read}))}

RequestSymmetry == Permutations(Request)

Wandering == {-1, 0, 1}
=============================================================================
