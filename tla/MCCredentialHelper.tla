------------------------- MODULE MCCredentialHelper -------------------------
(* A small instance of CredentialHelper for TLC. *)
EXTENDS CredentialHelper

CONSTANTS acme, site, dotdot, deployments, oidc_file, oidc_command, old, new

DotGit(name) == [name |-> name, git |-> TRUE]

RepoPath == <<Plain(acme), DotGit(site)>>
LongPath == <<Plain(Nothing), Plain(site), Plain(acme), Plain(site)>>
OwnerPath == <<Plain(acme), DotGit(Nothing)>>
DotsPath == <<Plain(acme), DotGit(dotdot)>>
UpPath == <<Plain(dotdot), Plain(site)>>
UpUpPath == <<Plain(dotdot), Plain(dotdot)>>

Protocol(protocol) == [protocol |-> protocol]
HostLine(host) == [host |-> host]
PathLine(path) == [path |-> path]
UrlLine(host, path) == [url |-> [protocol |-> "https", host |-> host, path |-> path]]
BrokenUrl == [url |-> Broken]

Lines ==
  {<<>>, Protocol("https"), HostLine("GitHub.com"), PathLine(LongPath),
   UrlLine("github.com", RepoPath)}

(* Two lines in any order; what is wrong with a url; the three attributes git
   writes, with names of dots among them; a url with two paths. *)
Requests ==
  {<<>>, <<[other |-> Nothing]>>}
    \cup {<<a, b>> : <<a, b>> \in {p \in Lines \X (Lines \ {<<>>}) : p[1] # p[2]}}
    \cup {<<UrlLine("github.com:8443", LongPath)>>,
          <<UrlLine("github.com", RepoPath), BrokenUrl>>,
          <<BrokenUrl, UrlLine("github.com", LongPath)>>}
    \cup {<<Protocol("https"), HostLine("github.com"), PathLine(path)>> :
            path \in {LongPath, OwnerPath, DotsPath, UpPath, UpUpPath}}
    \cup {<<Protocol("http"), HostLine("github.com"), PathLine(LongPath)>>,
          <<Protocol("https"), HostLine("example.com"), PathLine(LongPath)>>}
    \cup {<<UrlLine("github.com", <<>>), PathLine(a), PathLine(b)>> :
            a, b \in {RepoPath, LongPath}}

RawFile(github_app, endpoint, token_path, token_command) ==
  [github_app |-> github_app, endpoint |-> endpoint,
   token_path |-> token_path, token_command |-> token_command]

(* Two sound ones, one of these with an App that is "..", one with a bad endpoint, one
   with both sources and one with none. *)
Files ==
  {RawFile(deployments, "url", oidc_file, Nothing),
   RawFile(dotdot, "url", Nothing, oidc_command),
   RawFile(deployments, Broken, oidc_file, Nothing),
   RawFile(deployments, "url", oidc_file, oidc_command),
   RawFile(deployments, "url", Nothing, Nothing)}
=============================================================================
