---------------------------- MODULE Installations ----------------------------
(***************************************************************************)
(* The values idcat and GitHub exchange about GitHub App installations:    *)
(* cache keys, installation ids, and installation tokens.                  *)
(***************************************************************************)
EXTENDS Scopes, Integers

CONSTANTS NoToken, NoId  \* what a call holds before it has a token, an id

InstallationTokenCacheKey ==
  [github_app : App, target : InstallationTarget, scope : TokenScope]

(***************************************************************************)
(* GitHub numbers installations and never reuses a number: an id is known  *)
(* by its App, its account and which change of that pair created it.       *)
(***************************************************************************)
InstallationId == [github_app : App, account : Account, change : Nat]

(* In a token, as in its request, {} means "not narrowed". *)
Token ==
  [installation : InstallationId, repositories : SUBSET RepoName,
   permissions : SUBSET Permission, minted_at : Int]

ASSUME NoValueAssumption == NoToken \notin Token /\ NoId \notin InstallationId

(***************************************************************************)
(* A token fits what it was asked for: it belongs to the App and to the    *)
(* account named, reaches the one repository named unless the scope is the *)
(* whole installation, and carries exactly the permissions of the scope.   *)
(***************************************************************************)
FitsRepositories(token, key) ==
  \/ /\ key.scope.repositories = "All"
     /\ token.repositories = {}
  \/ /\ key.scope.repositories = "OnlyRequested"
     /\ key.target.kind = "repository"
     /\ token.repositories = {key.target.name}

Fits(token, key) ==
  /\ token.installation.github_app = key.github_app
  /\ token.installation.account = key.target.owner
  /\ FitsRepositories(token, key)
  /\ token.permissions = key.scope.permissions

=============================================================================
