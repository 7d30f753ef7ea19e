------------------------------- MODULE Scopes -------------------------------
(***************************************************************************)
(* What authorization hands to the GitHub client: a target and a scope.    *)
(***************************************************************************)
CONSTANTS
  App,        \* names of GitHub Apps
  Account,    \* GitHub accounts
  RepoName,   \* repository names inside an account
  Permission  \* (permission, access level) pairs of a permissions table

(* A repository, or the account the App is installed on. *)
InstallationTarget ==
  [kind : {"repository"}, owner : Account, name : RepoName]
    \cup [kind : {"owner"}, owner : Account]

(* How far a token may reach; no permissions means all the installation has. *)
TokenScope ==
  [repositories : {"OnlyRequested", "All"}, permissions : SUBSET Permission]

(* A repository scope cannot be applied to a request that names none. *)
ScopeRefused(scope, target) ==
  scope.repositories = "OnlyRequested" /\ target.kind = "owner"

=============================================================================
