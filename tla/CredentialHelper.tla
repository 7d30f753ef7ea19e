-------------------------- MODULE CredentialHelper --------------------------
(***************************************************************************)
(* git-credential-idcat (src/git-credential-helper): git starts it, writes *)
(* a request to its standard input, and takes a user name and a password   *)
(* from its standard output.                                               *)
(*                                                                         *)
(* A run is sequential, but nothing it reads stands still meanwhile: the   *)
(* configuration file, the source of the bearer token and idcat are the    *)
(* environment.  Runs share no state: a behaviour is one run, which begins *)
(* in any state of its environment.                                        *)
(***************************************************************************)
EXTENDS Integers, Sequences

CONSTANTS
  Name,      \* names of Apps, accounts and repositories
  Dots,      \* of them, the names "." and ".."
  Source,    \* where bearer tokens come from: files and commands
  Bearer,    \* bearer tokens
  Broken,    \* a file that cannot be read or parsed, a command that fails, a token
             \* that is white space only
  Hanging,   \* a command that does not end, a pipe nobody writes to
  Nothing,   \* an absent value
  ConfigFile, \* contents of the configuration file
  Request    \* what git may write: sequences of lines up to the blank one

(* A path component, with or without the suffix ".git"; the name may be empty. *)
Component == [name : Name \cup {Nothing}, git : BOOLEAN]

Host == {"github.com", "GitHub.com", "github.com:8443", "example.com"}

Plain(name) == [name |-> name, git |-> FALSE]

DotComponent == {Plain(name) : name \in Dots}

(* What may be a segment of a url::Url. *)
Segment == Component \ DotComponent

(* What url::Url makes of a URL: the host in lower case, no default port, and the
   path normalised. *)
Url == [protocol : {"https", "http"}, host : Host \ {"GitHub.com"}, path : Seq(Segment)]

(* A line is key=value, here a record of one field; <<>> is one without key or
   '='; "other" stands for every key the helper does not look at. *)
Line ==
  [protocol : {"https", "http"}] \cup [host : Host] \cup [path : Seq(Component)]
    \cup [url : Url \cup {Broken}] \cup [other : {Nothing}] \cup {<<>>}

(* What a source of bearer tokens may yield. *)
Yield == Bearer \cup {Broken, Hanging}

(* The endpoint is a base URL or not. *)
RawConfig ==
  [github_app : Name, endpoint : {"url", Broken},
   token_path : Source \cup {Nothing}, token_command : Source \cup {Nothing}]

Repo == [owner : Component, name : Name]

(* A token idcat has issued, by what it was asked for: for a repository of the owner,
   or for the owner's whole installation. *)
InstallationToken ==
  [github_app : Segment, owner : Segment, repository : Segment \cup {Nothing},
   bearer : Bearer]

ASSUME HelperAssumption ==
  /\ Request \subseteq Seq(Line) /\ <<>> \in Request
  /\ ConfigFile \subseteq RawConfig
  /\ Dots \subseteq Name
  /\ Nothing \notin Name \cup Source
  /\ Nothing \notin {"https", "http"} \cup Host \cup Seq(Component) \cup Url
  /\ Nothing \notin Segment \cup Repo \cup InstallationToken \cup Bearer \cup ConfigFile
  /\ {Broken, Hanging} \cap Bearer = {}
  /\ Broken # Hanging

VARIABLES
  file,     \* the configuration file
  offered,  \* what each source of bearer tokens yields
  run,      \* the run: what git asks, and what has been read and done so far
  window    \* history: what the source of the configuration held since it was loaded

vars == <<file, offered, run, window>>

Action == {"get", "store", "erase", "unknown"}

Run ==
  [step     : {"start", "load", "read", "token", "stuck", "post", "exited"},
   action   : Action,
   lines    : Request,                     \* what git writes, if that is read
   config   : ConfigFile \cup {Nothing},
   repo     : Repo \cup {Nothing},
   bearer   : Bearer \cup {Nothing},
   asked    : BOOLEAN,                     \* whether idcat has got a request
   password : InstallationToken \cup {Nothing},
   status   : {0, 1}]

Fresh(action, lines) ==
  [step |-> "start", action |-> action, lines |-> lines, config |-> Nothing,
   repo |-> Nothing, bearer |-> Nothing, asked |-> FALSE, password |-> Nothing,
   status |-> 0]

Exited(r, status) == [r EXCEPT !.step = "exited", !.status = status]

Init ==
  /\ file \in ConfigFile \cup {Broken}
  /\ offered \in [Source -> Yield]
  /\ \/ \E lines \in Request : run = Fresh("get", lines)
     \/ \E action \in Action \ {"get"} : run = Fresh(action, <<>>)
  /\ window = {}

-----------------------------------------------------------------------------
(* What the lines say. *)

Said(lines, key) == {i \in DOMAIN lines : key \in DOMAIN lines[i]}

(* parse_credential inserts line by line: the last line of a key counts. *)
Explicit(lines, key) ==
  IF Said(lines, key) = {} THEN Nothing
  ELSE lines[CHOOSE i \in Said(lines, key) : \A j \in Said(lines, key) : j <= i][key]

(* Mutant of Attribute: the url attribute goes before the explicit ones. *)
AttributeOfUrl(lines, key) ==
  LET url == Explicit(lines, "url") IN
  IF url \notin {Nothing, Broken} THEN url[key] ELSE Explicit(lines, key)

(* merge_url_credential fills in what no line says.  A path of a URL is left out
   if it is empty. *)
Attribute(lines, key) ==
  LET url == Explicit(lines, "url") IN
  IF Explicit(lines, key) # Nothing THEN Explicit(lines, key)
  ELSE IF url \in {Nothing, Broken} \/ (key = "path" /\ url.path = <<>>) THEN Nothing
  ELSE url[key]

(* Mutant of IsGithub: the port is not looked at. *)
IsGithubAnyPort(host) == host \in {"github.com", "GitHub.com", "github.com:8443"}

(* eq_ignore_ascii_case. *)
IsGithub(host) == host \in {"github.com", "GitHub.com"}

IsGithubHttpsRequest(lines) ==
  Attribute(lines, "protocol") = "https" /\ IsGithub(Attribute(lines, "host"))

IsEmpty(component) == component.name = Nothing /\ ~component.git

(* components.next(): where the next component after place n is that is not empty. *)
NextComponent(path, n) ==
  LET rest == {i \in DOMAIN path : i > n /\ ~IsEmpty(path[i])} IN
  IF rest = {} THEN 0 ELSE CHOOSE i \in rest : \A j \in rest : i <= j

(* Mutant of RepoFromPath: what is left without ".git" is not looked at. *)
RepoFromPathNoRest(path) ==
  LET owner == NextComponent(path, 0)
      name == NextComponent(path, owner)
  IN  IF name = 0 THEN Nothing ELSE [owner |-> path[owner], name |-> path[name].name]

(* The first two components that are not empty; ".git" is taken off the second,
   and nothing may be left of it. *)
RepoFromPath(path) ==
  LET owner == NextComponent(path, 0)
      name == NextComponent(path, owner)
  IN  IF name = 0 \/ path[name].name = Nothing THEN Nothing
      ELSE [owner |-> path[owner], name |-> path[name].name]

RepoFromCredential(lines) ==
  IF Attribute(lines, "path") = Nothing THEN Nothing
  ELSE RepoFromPath(Attribute(lines, "path"))

(* As a table, which TLC fills in once. *)
RepoOf == [lines \in Request |-> RepoFromCredential(lines)]

-----------------------------------------------------------------------------
(* The steps of a run. *)

At(step) == run.step = step

(* store and erase succeed without a look at the input; a command line that is
   not understood is an error. *)
Start ==
  /\ At("start")
  /\ run' = IF run.action = "get" THEN [run EXCEPT !.step = "load"]
            ELSE Exited(run, IF run.action = "unknown" THEN 1 ELSE 0)
  /\ UNCHANGED <<file, offered, window>>

(* TryFrom<RawConfig>: exactly one source. *)
ValidConfig(c) == c # Broken /\ (c.token_path = Nothing) # (c.token_command = Nothing)

TokenSource(c) == IF c.token_path # Nothing THEN c.token_path ELSE c.token_command

(* Before a line is read. *)
LoadConfig ==
  /\ At("load")
  /\ IF ValidConfig(file)
       THEN /\ run' = [run EXCEPT !.step = "read", !.config = file]
            /\ window' = {offered[TokenSource(file)]}
       ELSE run' = Exited(run, 1) /\ UNCHANGED window
  /\ UNCHANGED <<file, offered>>

Malformed(lines) == \E i \in DOMAIN lines : lines[i] = <<>>

ReadRequest ==
  /\ At("read")
  /\ run' = IF Malformed(run.lines) THEN Exited(run, 1)
            ELSE IF ~IsGithubHttpsRequest(run.lines) THEN Exited(run, 0)
            ELSE IF RepoOf[run.lines] = Nothing THEN Exited(run, 0)
            ELSE [run EXCEPT !.step = "token", !.repo = RepoOf[run.lines]]
  /\ UNCHANGED <<file, offered, window>>

(* Mutant of Read: without a token there is no credential, and no error. *)
ReadQuietly(r, yield) ==
  IF yield \in Bearer THEN [r EXCEPT !.step = "post", !.bearer = yield]
  ELSE IF yield = Hanging THEN [r EXCEPT !.step = "stuck"]
  ELSE Exited(r, 0)

Read(r, yield) ==
  IF yield \in Bearer THEN [r EXCEPT !.step = "post", !.bearer = yield]
  ELSE IF yield = Hanging THEN [r EXCEPT !.step = "stuck"]
  ELSE Exited(r, 1)

ReadToken ==
  /\ At("token")
  /\ run' = Read(run, offered[TokenSource(run.config)])
  /\ UNCHANGED <<file, offered, window>>

(* path_segments_mut().extend: "." and ".." are passed over. *)
Appended(component) == IF component \in Segment THEN <<component>> ELSE <<>>

(* What comes after /installation-token. *)
Segments(github_app, repo) ==
  Appended(Plain(github_app)) \o Appended(repo.owner) \o Appended(Plain(repo.name))

Token(segments, bearer) ==
  [github_app |-> segments[1], owner |-> segments[2],
   repository |-> IF Len(segments) = 3 THEN segments[3] ELSE Nothing, bearer |-> bearer]

(* Mutant of Issued: the App is read from the file once more. *)
IssuedByFile(r) ==
  Token(Segments(IF file = Broken THEN r.config.github_app ELSE file.github_app, r.repo),
        r.bearer)

(* The token for what the URL and the authorization header say: with two segments
   left the URL is that of an owner. *)
Issued(r) == Token(Segments(r.config.github_app, r.repo), r.bearer)

(* idcat issues a token, and it is printed.  A URL with less than two segments is
   not one of idcat's. *)
Post ==
  /\ At("post")
  /\ run.config.endpoint # Broken
  /\ Len(Segments(run.config.github_app, run.repo)) >= 2
  /\ run' = Exited([run EXCEPT !.asked = TRUE, !.password = Issued(run)], 0)
  /\ UNCHANGED <<file, offered, window>>

(* Mutant of PostFails: an answer that does not come is waited for. *)
PostFailsWithoutTimeout ==
  /\ At("post")
  /\ run.config.endpoint = Broken
  /\ run' = Exited(run, 1)
  /\ UNCHANGED <<file, offered, window>>

(* No URL to call; or a refusal, an answer without a token, or none within the
   time the client waits for one. *)
PostFails ==
  /\ At("post")
  /\ run' = Exited([run EXCEPT !.asked = run.config.endpoint # Broken], 1)
  /\ UNCHANGED <<file, offered, window>>

(* The user interrupts git. *)
Kill ==
  /\ ~At("exited")
  /\ run' = Exited(run, 1)
  /\ UNCHANGED <<file, offered, window>>

-----------------------------------------------------------------------------
(* The file and the sources change at any time of the run at which it may still
   read them, or might. *)

WriteFile(content) ==
  /\ ~At("exited") /\ ~At("stuck")
  /\ file' = content
  /\ UNCHANGED <<offered, run, window>>

Offer(source, yield) ==
  /\ ~At("exited") /\ ~At("stuck") /\ ~At("post")
  /\ offered' = [offered EXCEPT ![source] = yield]
  /\ window' = IF run.config = Nothing THEN window
               ELSE IF TokenSource(run.config) = source THEN window \cup {yield}
               ELSE window
  /\ UNCHANGED <<file, run>>

-----------------------------------------------------------------------------
Next ==
  \/ Start \/ LoadConfig \/ ReadRequest \/ ReadToken \/ Post \/ PostFails
  \/ Kill
  \/ \E content \in ConfigFile \cup {Broken} : WriteFile(content)
  \/ \E source \in Source, yield \in Yield : Offer(source, yield)

Spec == Init /\ [][Next]_vars

(***************************************************************************)
(* The program runs; reqwest's blocking client answers within 30 seconds,  *)
(* with an error if with nothing else.  Nothing ends a token-command.      *)
(***************************************************************************)
Fairness ==
  /\ WF_vars(Start) /\ WF_vars(LoadConfig) /\ WF_vars(ReadRequest)
  /\ WF_vars(ReadToken) /\ WF_vars(PostFails)

FairSpec == Spec /\ Fairness

-----------------------------------------------------------------------------
(* PROPERTIES *)

TypeOK ==
  /\ file \in ConfigFile \cup {Broken}
  /\ offered \in [Source -> Yield]
  /\ run \in Run
  /\ window \subseteq Yield

(* What git asks for, by its protocol: a url is as good as its protocol, host
   and path, said before anything else, and of two lines the later one counts. *)
UrlLines(url) ==
  <<[protocol |-> url.protocol], [host |-> url.host]>>
    \o IF url.path = <<>> THEN <<>> ELSE <<[path |-> url.path]>>

Spelled(lines) ==
  LET urls == {i \in DOMAIN lines : "url" \in DOMAIN lines[i]}
      last == CHOOSE i \in urls : \A j \in urls : j <= i
  IN  IF urls = {} THEN lines
      ELSE IF lines[last].url = Broken THEN lines
      ELSE UrlLines(lines[last].url) \o lines

Says(lines, key, value) ==
  \E i \in DOMAIN lines :
    /\ lines[i] = [x \in {key} |-> value]
    /\ \A j \in (i + 1) .. Len(lines) : key \notin DOMAIN lines[j]

(* The path begins with the owner and the repository, empty components aside. *)
Names(path, repo) ==
  \E i, j \in DOMAIN path :
    /\ i < j
    /\ \A k \in 1 .. j : k \in {i, j} <=> (path[k].name # Nothing \/ path[k].git)
    /\ path[i] = repo.owner
    /\ path[j].name = repo.name

AsksFor(lines, repo) ==
  /\ Says(Spelled(lines), "protocol", "https")
  /\ \E host \in {"github.com", "GitHub.com"} : Says(Spelled(lines), "host", host)
  /\ \E i \in DOMAIN Spelled(lines) :
       /\ "path" \in DOMAIN Spelled(lines)[i]
       /\ Says(Spelled(lines), "path", Spelled(lines)[i].path)
       /\ Names(Spelled(lines)[i].path, repo)

(* The call has a segment less than what it is about. *)
Shortened(github_app, repo) ==
  {Plain(github_app), repo.owner, Plain(repo.name)} \cap DotComponent # {}

AsRepo(owner, name) == [owner |-> owner, name |-> name]

(* README.md of the helper: for OWNER/REPO.git it "calls POST
   {idcat-endpoint}/installation-token/{github-app}/OWNER/REPO".  The password is a
   token for the repository git asks for, however the request spells it.  Where the
   App, the owner or the repository is named "." or "..", it is not: it is then a
   token for a whole installation, and for no repository. *)
RightRepository ==
  run.password # Nothing =>
    \E owner \in Component, name \in Name :
      /\ AsksFor(run.lines, AsRepo(owner, name))
      /\ IF Shortened(run.config.github_app, AsRepo(owner, name))
           THEN run.password.repository = Nothing
           ELSE run.password.owner = owner /\ run.password.repository = Plain(name)

(* The App and the bearer go together: both are of one version of the file,
   though file and source change under the run, and the bearer is one the source
   that version names has yielded during the run.  (An App named "." or ".." is in
   no URL.) *)
RightBearer ==
  run.password # Nothing =>
    /\ run.config.github_app \notin Dots =>
         run.password.github_app = Plain(run.config.github_app)
    /\ run.password.bearer \in window

Ignorable(lines) ==
  \A owner \in Component, name \in Name : ~AsksFor(lines, AsRepo(owner, name))

(* README.md: requests for other hosts, without TLS, or without a repository
   "are ignored so that other credential helpers can handle them": no token is
   read for them, idcat hears nothing of them, and git gets no password. *)
OthersAreIgnored ==
  Ignorable(run.lines) => ~run.asked /\ run.bearer = Nothing /\ run.password = Nothing

(* A `get' that succeeds without a password was one to ignore: every fault on the
   way ends with an error that git sees, and an error never comes with a password. *)
SilenceIsIntended ==
  At("exited") /\ run.action = "get" =>
    /\ run.status = 0 => run.password # Nothing \/ Ignorable(run.lines)
    /\ run.password # Nothing => run.status = 0

(* A run ends, unless the source of the bearer token keeps it waiting for ever. *)
EveryRunEnds == ~At("exited") ~> At("exited") \/ At("stuck")

=============================================================================
