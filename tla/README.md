# idcat in TLA+

idcat is a service that hands out GitHub App installation tokens to callers it
authorizes by JWT bearer tokens, together with a credential helper that makes
git ask it for them. This directory holds TLA+ modules that model both, TLC
configurations that check the modules on small instances, and theorems TLAPS
proves for every instance. Paths below are relative to the repository.

## 1. The system

| component | state | operations | interacts with |
|---|---|---|---|
| GitHub client, `src/github.rs` + `src/jwt.rs` | `GithubCache`: installation ids and installation tokens, behind one tokio `Mutex` | `create_installation_token`, `proxy_request` | called by every token and proxy request, concurrently; calls the signer and three GitHub endpoints |
| Authorization, `src/service.rs` | `AppState`, built once and never written | `authorize_github_app`, `authorize_owner`, `signer` | authzoo checks tokens and roles |
| Configuration, `src/config.rs` | none; the file is read at the start | `load`, `validate` | decides what `AppState` can hold, and whether the process starts |
| HTTP service and process, `src/main.rs`, `src/error.rs` | the tasks in flight | start, check run, the six routes, termination | composes the others |
| Webhook bridge, `src/webhook.rs` + `src/nats.rs` | the NATS client's buffer | `validate_delivery`, `publish_github_webhook`, `subject_for_github_webhook` | GitHub, a secret file, NATS |
| Signers, `src/signer.rs`, `src/secret.rs`, `src/kms.rs` | none | `sign` | a key file read per request, or AWS KMS |
| Credential helper, `git-credential-helper/` | none | one `get` per run of git | a configuration file, a token file or command, idcat |

What is hard about them, and what makes each correct:

* **GitHub client.** A call waits up to nine times (two cache locks around the
  id, two around the token, the signer, up to two lookups, the token request
  and its body) and other calls run in between over the same two maps. It must
  never answer a call with a token of another App, account, repository or
  permission set; never serve a token GitHub no longer honours; never present
  a JWT that GitHub refuses for its dates; and always come to an end.
* **Authorization.** A role's claims are *replaced* by a policy's claims of the
  same name. That this never loosens a role rests on checks made at the start
  of the process, in another file. The order of the policies decides what is
  granted. An empty permissions table means *all* permissions.
* **Webhook bridge.** The secret may be rotated during a delivery; a failed
  publication is acknowledged all the same; what is in the client's buffer is
  lost when the process ends. A subject is made from a header and a payload,
  and must not become one of another shape.
* **Process.** Nothing is persisted. Termination drops the calls in flight. A
  check run and a start read the same file with the same code, up to a point:
  what the first lets through must not keep the second from starting.
* **Credential helper.** git may spell a request in many ways, and whatever the
  helper makes of it decides for which repository a token is issued. Its files
  are rotated under it. Its silence has a meaning to git, and so has its exit
  status.

`PROJECT.json` lists every hazard at its line, with the properties about it.

## 2. The modules

    Scopes
      |-- Installations
      |     |-- InstallationTokens     the contract of GithubClient
      |     |-- GithubClient           MCGithubClient, GithubClientProofs
      |     |-- TokenService           MCTokenService, TokenServiceProofs
      |     \-- Delegation             the contract of TokenService
      \-- Authorization                MCAuthorization, AuthorizationProofs
    Patterns                           PatternsProofs; MCAuthorization extends it
    WebhookBridge                      MCWebhookBridge, WebhookBridgeProofs
    Deliveries                         the contract of WebhookBridge
    Subjects
      \-- Process                      MCProcess, ProcessProofs
    CredentialHelper                   MCCredentialHelper, CredentialHelperProofs
    Extremes                           least and greatest numbers, for Process,
                                       CredentialHelper and Patterns

A module EXTENDS the one above it; the MC and proof modules extend the one on
their line. Five refinements tie them together. GithubClient implements
InstallationTokens. TokenService, which has one INSTANCE of GithubClient for all
its tasks and one of Authorization for each task, implements both of them
(`ImplementsClient`, and `ImplementsAuthorization` task by task), and as a whole
Delegation (`ImplementsDelegation`). WebhookBridge implements Deliveries
(`ImplementsDeliveries`).

**Scopes** -- targets, token scopes, and the one combination the client refuses.

**Installations** -- cache keys, installation ids, tokens, and `Fits`, the
definition of "this token is what was asked for".

**GithubClient** -- the client under concurrent calls.

| module | code |
|---|---|
| `tokens`, `ids` | `GithubCache.installation_tokens`, `.installation_ids`, as sets of entries; an insertion replaces the entry of its key |
| `call[r].step` | the `.await` the call of task `r` is at |
| `call[r].key`, `.sample`, `.jwt`, `.id`, `.token` | its locals: the cache key, the last `Instant::now()`, when the JWT was issued, the installation id, the response |
| `Create` | the call starts; reads the clock, *then* waits for the lock |
| `UseCachedToken`, `BuildJwt` | `cached_installation_token` under the lock: hit, or miss and `build_github_app_jwt` up to the signer |
| `Sign` | the signer's answer |
| `UseCachedId`, `LookUpId`, `CacheId` | `cached_installation_id` |
| `AnswerRepository`, `AnswerOrganization`, `AnswerUser` | GitHub's answers to the three lookups and what the code makes of them |
| `Mint`, `Receive`, `CacheToken` | the token request handled at GitHub; the response parsed and the clock read; `cache_installation_token` |
| `Fail`, `Cancel`, `Restart` | an error at any await, the client disconnecting, the process ending |
| `Change`, `Tick` | GitHub's side: installs and uninstalls; time |

An action reaches from one await to the next: the mutex is only held inside
synchronous code, so nothing can run in the middle of one. One exchange with
GitHub is one await, although the code awaits the head and the body of a lookup
one after the other: nothing is read or written between the two. The token
request is split in two at the moment GitHub mints, because tokens age from
then on.

GitHub is the environment. It numbers installations and never reuses a number;
it accepts a JWT between its `iat` and `exp` on *its* clock (`Drift` away from
idcat's) unless `exp` lies too far ahead; it answers 404 for a lookup on the
wrong kind of account. GitHub may refuse any request (`Fail`). The model assumes
that account and repository names have no `/` and are not `.` or `..`, as those
GitHub gives; a caller can send others, as `%2F`, and section 7 says what is set
aside with them. App names have no `/` because `validate` refuses it
(`src/config.rs:291`).

**InstallationTokens** -- what a caller sees: a call is pending, then answered
with a token that fits its key and is younger than `MaxAge`, or dropped. No
cache, no lookups. `GithubClient!Abstract` instantiates it with the mapping
`Status` and `MaxAge = Ttl + 2 * MaxDelay`.

**Authorization** -- `Valid` is what `Config::validate` demands of roles, Apps
and policies together; `Start` refuses a file that is not valid; the request
actions are `create_installation_token` of `main.rs` up to the signer, with
`authorize_github_app` and `authorize_owner` (the same code on two lists).
A claim requirement is the set of claim values that satisfy it and the globs of a
policy the set of targets they match. Bearer tokens are records of an issuer and claims;
authzoo's check of signature, audience and expiry is the comparison of issuers.
Malformed entries (empty names, zero ids, bad globs, names given twice) are left
out: every configuration in the model is well formed.

**Patterns** -- which globs `validate` accepts (`is_valid_repo_pattern`,
`is_valid_owner_pattern`), and what a glob matches, as `service.rs` uses the
wildmatch crate: a character of the glob at a time, each taking a piece of the
text. Strings are sequences of characters. `MatchesAtASlash` and `MatchesByPart`
say what a glob means to its author, for any text and for names without a `/`.
MCAuthorization makes the targets of its policies from globs this way.

**TokenService** -- requests, from the bearer token to GitHub and back.

| module | code |
|---|---|
| `exchanges[t]` | the request task `t` serves and the decision on it, `exchange` of Authorization |
| `keys` | the Apps whose private key file can be read |
| `handler[t]` | the route and where its handler stands: in `create_installation_token`, in `proxy_request`, or answered |
| `Begin`, `MissKey`, `Reject` | `create_installation_token` of `main.rs` up to its only await: decide, read the key file, call the client |
| `Work`, `CallFails` | a step of the client's call, and what the handler makes of its end |
| `Relay`, `RelayFails` | `proxy_repo_request` after the token: GitHub's answer is handed on whatever it says |
| `Disconnect`, `Start`, `Stop`, `Deploy` | the caller leaves; the process starts, ends with everything in it, and is configured anew in between |

The actions of the two instances are used as they are, `Auth(t)!Decide(request)`,
`Client!Create(t, key)`, `Client!Progress(t)`, so that TokenService says only
what `main.rs` says: in which order they come, and what is passed from one to
the other.

**Delegation** -- what the service promises, to callers and to the owners of Apps.
An errand of a task is pending, or acting with a token at GitHub (the proxy), or
has come to a token, a relayed answer, a refusal or an error; `Errand` maps the
state of the handler, its request and its call to it. `Arrive`: a request is
refused exactly if nothing in the configuration entitles its caller (`Entitled`,
by what Authorization calls an entitlement, not by its decision). `Deliver`: a
token is `Due`, that is, of the App and account asked for and within what
entitles the caller, and younger than `Ttl + 2 * MaxDelay`. `Tick`: no token
expires on who acts with it. There is no cache, no id, no key file and no call in
it; what `keys` decides, and every failure, is an error there.

**WebhookBridge** -- the webhook route, from a delivery of GitHub to NATS.

| module | code |
|---|---|
| `handler[d]` | each delivery: waiting for the secret file, waiting for room at `publish`, answered, or dropped |
| `Receive` | `webhook` up to its first await: the App is looked up, and whether to validate decided |
| `Read`, `Judged` | `validate_delivery`: the file as it is at some moment after the arrival |
| `Publish`, `PublishFails` | `publish_github_webhook`, and the 202 that follows either way |
| `Start`, `Valid` | the part of `validate` and `build_app_state` that decides whether there is a publisher |
| `Stop` | the process ends with its handlers and with what the NATS client has not sent |
| `publisher`, `Reconnect`, `TokenAccepted` | the connection, and the auth callback that reads the token file anew for each |
| `buffer`, `Flush`, `Disconnect` | the async-nats client, external: a bounded buffer, at-most-once |
| `WriteSecret`, `WriteToken`, `DemandToken` | rotations, at each end on its own |
| `window[d]` | history: what the secret file held while delivery `d` was validated |

GitHub may sign a delivery with any secret, since it rotates whenever it likes.
HMAC is the comparison of the two secrets. What a delivery is published under
is left to the next module.

**Deliveries** -- what GitHub and NATS see of the route: a delivery is answered once
and for good; one that becomes a message is acknowledged by the step that makes
it one (`Hand`), which asks for no connection; NATS gets messages in that order
and none twice; what it does not get was lost with a connection (`Break`) or with
the process (`End`), the oldest first. `Answer` maps handlers to it; secret files,
tokens and configurations are gone.

**Subjects** -- `subject_for_github_webhook` as functions on sequences of
characters: `TrimDots` of the base, `SubjectToken` of the event and of each name,
`SubjectFor`; and `Legal`, what NATS takes for a subject. Letters stand for the
characters `subject_token` keeps, specials for those it replaces.

**Process** -- launches of the program, one after the other, on whatever the
configuration file holds when it is read.

| module | code |
|---|---|
| `process.state` | where `run` stands: `launched` (the file is not read), `building` (`build_app_state`), `securing` (the TLS files), `binding`, `serving`, `down` |
| `process.check`, `.disable_auth` | the command line |
| `process.config`, `.touched`, `.publisher`, `.status` | what was read, what was reached for outside of the file, whether there is a publisher, the exit status |
| `world` | what is there: NATS, the TLS files, the port |
| `Refuse`, `Pass`, `Load` | `load` and `validate`, and what follows: an error, the end of a check run, or `bind_address.parse()` and on |
| `Build`, `Secure`, `Bind` | the awaits of a start, each of which may end it |
| `Publish` | a delivery at a server that has a publisher |
| `Signal` | SIGTERM or SIGINT: status 0 from a server, fatal or lost before |
| `Launch`, `Turn` | the next launch; something in the world comes or goes |
| `checked`, `lacked`, `subject` | history: the last check that passed, what the process was ever without, the last subject |

`Valid` has the checks of `validate` that bear on a start: that the address, the
names of the TLS files, of the key directory and of keys, and the entries of NATS
are not empty, or have a form. An address that is not one of a socket, and an
endpoint that is not one of NATS, pass `Valid`; `Load` and `Build` are what parses
them (`Parses`). `access` says how the roles, Apps and
policies of Authorization come out. A signal before the server listens for it
has its default effect: it kills the process, or, where idcat is the first
process of a container as in the repository's `Dockerfile`, is lost.

**CredentialHelper** -- one run of the helper, in an environment that moves.

| module | code |
|---|---|
| `run.step` | `start` (the command line), `load` (the configuration), `read` (the request on standard input), `token` (its source), `stuck` (a source that does not end), `post` (the call to idcat), `exited` |
| `run.lines` | what git writes, line by line: an attribute, or a line that is malformed |
| `run.config`, `.repo`, `.bearer`, `.asked`, `.password`, `.status` | the locals of `get`, what idcat got to see, and what git gets |
| `Attribute`, `IsGithubHttpsRequest`, `RepoFromPath` | `credential.rs`: `parse_credential`, and what is made of a URL, a host, a path |
| `LoadConfig`, `ReadRequest`, `ReadToken`, `Post`, `PostFails` | `get`, in the order of the code, with every early exit |
| `WriteFile`, `Offer`, `Kill` | the user, whatever renews the bearer tokens, and an interrupt |
| `window` | history: what the source of the configuration read has yielded since |

A path is a sequence of components, each a name, perhaps empty, with or without
`.git` at its end: as much as `repo_from_path` tells apart; a name in `Dots` is `.`
or `..`. `Segments` is what `installation_token_url` makes of App and repository:
the url crate leaves components that are `.` or `..` out, so the call may have two
segments, that is, be one of the owner endpoint, or fewer, which is none of idcat's.
idcat is external: it issues a token for what the segments name, or refuses, or does
not answer.

**Extremes** -- sets of numbers have least elements, and greatest ones if they are
bounded; the proofs about `CHOOSE` rest on it.

## 3. The runs

| run | module | checks | distinct states |
|---|---|---|---|
| `isolation` | MCGithubClient | `TypeOK`, `IdsBelong`, `Isolation`, `ImplementsInstallationTokens` | 299,392 |
| `fresh` | MCGithubClient | `CachedTokenUnexpired`, `ServedTokenUnexpired`, `JwtAcceptedInFlight` | 161,303 |
| `reinstall` | MCGithubClient | `EveryCallReturns` under `FairSpec` | 81,271 |
| `readme_cache` | MCGithubClient | `OneTokenPerAppAndRepo`, expected violation, section 6 | |
| `authorization` | MCAuthorization | `TypeOK`, `GrantsAreEntitled`, `FullPermissionsNeedRole`, `ScopeSuitsTarget`, `RefusalsAreDue`, `FirstPolicyDecides` | 52,634 |
| `service` | MCTokenService | `TypeOK`, `DelegatedTokens`, `ImplementsAuthorization` | 209,272 |
| `proxy` | MCTokenService | `ProxyTokenUnexpired`, `ImplementsClient`, `ImplementsDelegation`, and `EveryRequestAnswered` under `FairSpec` | 177,732 |
| `webhooks` | MCWebhookBridge | `TypeOK`, `AcceptedAreSigned`, `RefusalsHaveCause`, `PublishedOnce`, `AcknowledgedAfterPublish` | 1,354,844 |
| `webhooks_end` | MCWebhookBridge | `ImplementsDeliveries`, and `EveryDeliveryEnds`, `ConnectionReturns` under `FairSpec` | 19,200 |
| `process` | MCProcess | `TypeOK`, `ApprovedFilesStart`, `ServesAsConfigured`, `SubjectsAreLegal`, and `EveryLaunchSettles` under `FairSpec` | 194,184 |
| `readme_validate` | MCProcess | `ApprovedFilesAlwaysStart`, expected violation, section 6 | |
| `helper` | MCCredentialHelper | `TypeOK`, `RightRepository`, `RightBearer`, `OthersAreIgnored`, `SilenceIsIntended`, and `EveryRunEnds` under `FairSpec` | 321,216 |

What the properties say:

* **Client.** Ids and tokens, cached or in a call, belong to the App, account,
  repository and permissions they are kept under (`IdsBelong`, `Isolation`);
  what is cached or served has not expired, and a JWT is valid wherever it is
  presented; each call returns, however installs come and go.
* **Authorization.** Nobody is granted what no role or policy entitles him to
  (`GrantsAreEntitled`), nobody entitled is refused (`RefusalsAreDue`), the first
  entitling policy decides, and no policy grants all permissions.
* **Service.** What a caller gets is his due under the configuration served,
  whatever is cached and for whom (`DelegatedTokens`); the token of a proxied
  request is valid until GitHub has answered; every request is answered. All that
  a caller can see is a behaviour of the contract (`ImplementsDelegation`).
* **Bridge.** What is accepted was signed with a secret that was in the file
  during the delivery, and a refusal has a cause there; a delivery reaches NATS
  once at most, is not acknowledged before its publication was tried, and ends;
  a connection lost comes back after a rotation. What was acknowledged and did not
  arrive was lost with a connection or the process (`ImplementsDeliveries`).
* **Process.** A check run reaches for nothing but the file, and a server has all
  its file asks for (`ServesAsConfigured`); a file a check passed does not keep a
  server from starting, if its address and its endpoint of NATS parse
  (`ApprovedFilesStart`); subjects keep their shape; every launch settles.
* **Helper.** The password is for the repository git asks for, and for no repository
  but a whole installation just if the App, the owner or the repository is named `.`
  or `..` (`RightRepository`, section 5); the App and the bearer go together; a
  request that is not for the helper costs no token and no call; silence with status
  0 means just that; a run ends.

Bounds, and why they are enough:

* Two tasks. Every interaction between calls goes through one cache entry, so
  two calls that race for it, over an entry a third left behind, are all there
  is; the theorems hold for any number.
* `isolation` has five keys: four differ from the first in one respect each, so
  that every component of a cache key is needed. `reinstall` has two keys that
  share an installation and one whose scope does not suit its target.
* `MaxTime` and `MaxChanges` cap the clock and the installs; `reinstall` allows
  three changes, an install, an uninstall and an install. `fresh` runs nine units
  with `Ttl = 2`, `MaxDelay = 1` and GitHub's clock a unit ahead, a unit behind
  or even, long enough to mint, cache, serve at the last moment and mint again.
  Its constants meet `LatencyAssumption` with equality
  (`Lifetime = Ttl + 2 * MaxDelay`), where an off-by-one shows; the code's own, in
  minutes, are 50, 60, 9 and 1, and meet it for `MaxDelay = 1`.
* `isolation` and `reinstall` set `MaxDelay = 0`: time passes between calls only,
  which keeps the interleavings few; `fresh` lets it pass at every await.
* `authorization` takes every combination of role claims, or of no such role, with
  one policy, on either endpoint, valid or not, and every ordered pair of three
  policies whose globs overlap. `validate` and `authorize_*` never compare more
  than one policy with its role, or two policies with each other.
* `service` has two callers of different rights, a workflow that a policy lets
  read and an operator with an allowed role, and two files that give the
  workflow different targets, so that a deployment takes rights away. The clock
  stands still there. `proxy` has one task and lets the clock move at every
  await; `Lifetime` is `Ttl + 3 * MaxDelay`, the least `ProxyLatencyAssumption`
  allows, one await more than the client alone needs.
* `webhooks` has two deliveries for one place in the buffer, so that one waits
  while the other is in it, and two secrets besides the empty and the missing
  file. `webhooks_end` has two tokens of NATS and no secret that matches: there a
  validated delivery ends at its file, and one that is not goes on to the buffer.
  `ImplementsDeliveries` is checked there with one place in the buffer; the theorem
  holds for any number.
* `process` has a plain file and eleven that each differ from it, or from a bridged
  one, in what decides on a start; `readme_validate` leaves out the one whose endpoint
  of NATS does not parse. Subjects with trailing dots, a base of nothing else, names
  with dots and with a wild card, and absent or empty names.
* `helper` has requests of two lines in any order, with URLs that are whole,
  broken, on another port, without a path, and paths with empty components and
  with bare `.git`, and with `..` for an owner, a repository, and both; three lines at
  the most decide. Two sources, two bearers, five files of which two are sound, one of
  these with an App named `..`.
* Deadlock is checked in every run but `helper`, where a run of the program ends.

**Fairness.** `FairSpec` is weak fairness of each call's progress: tokio polls
every ready task and its mutex is first come first served, so a call at a lock
gets it. That GitHub and the signer answer at all is an assumption: the HTTP
client sets no timeout (`src/github.rs:146`), so the code has nothing else
that would end the wait. There is no fairness on failures, cancellations,
restarts, installs or time. `FairSpec` of TokenService adds that the proxy's wait
on GitHub ends, with an answer or an error, under the same assumption. In
WebhookBridge a file read ends, and strong fairness stands for three queues: the
senders at the bounded channel of async-nats are served in turn, its writer gets
messages out if it is connected again and again, and it retries a connection
until it succeeds. That NATS comes back is a premise of `EveryDeliveryEnds`, and
that the token file becomes right for good one of `ConnectionReturns`. In
Process every step of a start ends, a connection to NATS within the timeout of
its client; a signal is not fair. In CredentialHelper the steps of the program
are fair, and `PostFails` is, since reqwest's blocking client gives up after 30
seconds; nothing ends a `token-command`, so `EveryRunEnds` excepts `stuck`.

Every property has a *mutant*: a variant of one definition, kept next to it and
named in `PROJECT.json`, with a plausible bug in it, which TLC finds.

## 4. The proofs

All of it holds for all values of the constants that satisfy the named
assumptions of the modules. Each proof module has its invariant, one lemma for
each action and what it disturbs, and the theorems at its end.

`GithubClientProofs`, from `NoValueAssumption`, `ConstantsAssumption`,
`TimeAssumption` and, from `AlwaysTimely` on, `LatencyAssumption`:

| theorem | statement |
|---|---|
| `TypeCorrect` | `Spec => []TypeOK` |
| `IdsAlwaysBelong` | `Spec => []IdsBelong` |
| `TokensAreIsolated` | `Spec => []Isolation` |
| `AlwaysTimely` | `Spec => []Timely`, the invariant behind the next three |
| `CachedTokensAreFresh`, `ServedTokensAreFresh`, `JwtsAreAccepted` | `Spec => []CachedTokenUnexpired`, ... |
| `Implementation` | `Spec => ImplementsInstallationTokens` |
| `NoCallGoesBack` | `Spec => CallsAdvance`, stated there |

*Isolation.* `Isolation` is not inductive: a token fits its key because the id
it was minted with belongs to the key's App and account, and that id may come
from the id cache. `IsolationInv` is `TypeOK`, `IdsBelong` and `Isolation`
together; each action preserves each part, the interesting ones being
`UseCachedId` (the key of the entry names App and account), `Mint` and
`UseCachedToken`.

*Freshness.* How old a token is when it is served depends on how long the call
that minted it took to cache it. `Timely` states, step by step, how old what a
call holds may be, and how far the refresh time of an entry may lie beyond the
age of its token: a token is minted at m, read at most one await later, cached
with `refresh_after <= m + MaxDelay + Ttl`, chosen by a clock read before that
and served at most one await after. `TimeInv` adds `TypeOK`. The freshness
theorems and the bound in the contract are arithmetic from there. The bound on
awaits is the guard of `Tick`, an assumption about the network: without it
none of the three holds, since the code sets no timeout.

*Refinement.* Each step of the client is a step of the contract or leaves it
alone: `Create` is `Ask`, `UseCachedToken` and `CacheToken` are `Answer`, ends
without a token are `Drop`.

*Progress.* `AwaitsLeft` counts the awaits a call may still have, nine at the start:
every step of a call takes at least one away, and nothing else moves a call but
its end. So nothing in `create_installation_token` is tried again, and if each
await ends, the call does: the half of `EveryCallReturns` that needs no fairness.
It also bounds a call in time, by nine times `MaxDelay`.

`AuthorizationProofs`, from `AuthorizationAssumption` (configurations and
bearer tokens are well formed), for every set of configurations and bearers:

| theorem | statement |
|---|---|
| `TypeCorrect` | `Spec => []TypeOK`, with: a process that serves has a valid configuration |
| `EntitledGrants` | `Spec => []GrantsAreEntitled` |
| `DueRefusals` | `Spec => []RefusalsAreDue` |
| `NarrowedPermissions` | `Spec => []FullPermissionsNeedRole` |
| `SuitableScopes` | `Spec => []ScopeSuitsTarget` |
| `FirstPolicyWins` | `Spec => []FirstPolicyDecides` |

`PolicyMatches` is what the code evaluates, on the merged table of claims;
`PolicyEntitles` takes every demand one by one. `PolicyMatchesWhenEntitled` shows
them equal for a policy `Valid` accepts, from `ExtendDisjoint`: merging tables
that name no claim twice demands what both demand. The invariant, `AuthInv`,
says that what was answered was answered from the configuration served now,
and that this one is valid; `AnswerRests` says what each answer rests on, and
the five theorems read it off.

`PatternsProofs` proves `PatternsMatchAtASlash`: the code matches a glob against
`owner/name` as a whole, and in wildmatch a `*` takes a `/` like any other
character; nevertheless a glob `validate` accepts, other than `*`, matches just if
the text falls, at one of its slashes, in two parts that match the glob's two
parts. This holds of every text; owner and name come from the path of a request,
where `%2F` stands for a slash, so a text may have more than one. `acme/*` matches
what begins with `acme/`, and `*/site` what ends in `/site`, whatever is between.
A match is a cut of the text into what each character takes. The glob's slash
takes a slash of the text; cuts come apart there (`CutAtSplit`) and can be put
together (`Glued`). Of names without a slash (`PatternsMatchByPart`) a glob matches
if its part before the slash matches the owner and the one behind it the name: so
`acme/*` is about the repositories of `acme` only, as its author reads it, and for
Authorization a set of globs is the union of rectangles of owners and names, or
everything.

`TokenServiceProofs`, from the assumptions of both components and, for the last
two, `ProxyLatencyAssumption`:

| theorem | statement |
|---|---|
| `ClientImplemented` | `Spec => ImplementsClient` |
| `AuthorizationImplemented` | `Spec => ImplementsAuthorization` |
| `TypeCorrect` | `Spec => []TypeOK` |
| `DelegatedTokensOnly` | `Spec => []DelegatedTokens` |
| `ProxyTokensFresh` | `Spec => []ProxyTokenUnexpired` |
| `DelegationImplemented` | `Spec => ImplementsDelegation` |

Every step of the service is a step of the client or leaves it alone, so the
theorems of `GithubClientProofs`, instantiated, hold of it as they stand: a token
in a call fits its key (`Isolation`) and has the age `Timely` gives it. In the same
way each task's part is a behaviour of Authorization. What the service adds is
the thread between the two. `ServiceInv` is `ProcessOK` (what is served is valid,
and nothing goes on while nothing is), `Typed`, and for each task `Sound(t)`: the
call under way, or the token in hand, is for the target and scope of the decision,
and the configuration served now entitles the bearer to them. `DelegatedTokens`
follows from `Sound` and `Isolation`, and `ProxyTokenUnexpired` from `Timely` and
one await more.

*The contract.* Each step of the service is a step of Delegation or one no caller
sees. `DecisionDue` is about the arrival of a request: the decision, which goes
through roles and policies in the order of the code, grants it exactly if
something entitles the caller. For `Return` the token's key and age come from
`Isolation` and `Timely` *after* the step (`ReturnedNext`) and become its due by
`FittingDue`. `Proxying` says that the proxy is for repositories only. `Tick`
needs three awaits between the minting of a token and the end of the proxied
request, and so `ProxyLatencyAssumption`.

`WebhookBridgeProofs`, for every number of deliveries, secrets, tokens and places:

| theorem | statement |
|---|---|
| `TypeCorrect` | `Spec => []TypeOK` |
| `AcceptedSigned`, `RefusalsCaused` | `Spec => []AcceptedAreSigned`, `[]RefusalsHaveCause` |
| `AcknowledgedLast` | `Spec => AcknowledgedAfterPublish` |
| `AtMostOnce` | `Spec => []PublishedOnce` |
| `DeliveriesImplemented` | `Spec => ImplementsDeliveries` |

`HandlersGood` ties a handler to the configuration served and to what its file
held, and `Bridged` says that a process with a bridged App has a publisher. For
`PublishedOnce`: a step that publishes nothing leaves no more messages than there
were, which an injective map from the places after it to those before shows
(`FewerSent`); the one step that publishes a delivery ends its handler. For the
contract, `Connected` says that a handler waits for room only at a publisher there is.

`ProcessProofs`, for every set of files, events and repositories:

| theorem | statement |
|---|---|
| `TypeCorrect` | `Spec => []TypeOK` |
| `ApprovedStart` | `Spec => []ApprovedFilesStart` |
| `RunsAreAsConfigured` | `Spec => []ServesAsConfigured` |
| `LegalSubjects` | `Spec => []SubjectsAreLegal` |

`ProcInv` says what a process has read (`Loaded`), reached for (`Reached`) and
missed (`Missed`), that an end in error has something to blame, in the file or out
of it (`Blamed`: in a valid file, only an address or an endpoint that does not
parse), that what a check passed is valid (`CheckedIsValid`), and that subjects come
from a publisher (`PublishedLegally`). `SubjectForIsLegal` is about
`Subjects` alone: whatever the header and the payload, joining tokens without
dots, spaces and wild cards to a legal base gives a legal subject with one dot or
three more.

`CredentialHelperProofs`, for every request, file and source:

| theorem | statement |
|---|---|
| `TypeCorrect` | `Spec => []TypeOK` |
| `CredentialsFit`, `BearersFit` | `Spec => []RightRepository`, `[]RightBearer` |
| `OthersIgnored`, `SilenceIntended` | `Spec => []OthersAreIgnored`, `[]SilenceIsIntended` |

`HelperInv` says how far a run has come (`Progress`), what it had to have for that
(`Earned`), what an exit without a password means (`Excused`) and where the bearer
is from (`Watched`). The rest is about requests: `AnswerableIsAsked` and
`AskedIsAnswerable` show that the helper, which looks up keys, overrides and
splits, finds a repository just if the request, its URL spelled out in front, names
it: of two lines the later counts. These take the last of some lines and the first
component that is not empty, and so `Extremes`. `TokenIs` goes through what
the URL is left with: all three segments if none is `.` or `..`, and otherwise two
at the most, which name no repository.

Only model-checked: `EveryCallReturns`, `EveryRequestAnswered`, `EveryDeliveryEnds`,
`ConnectionReturns`, `EveryLaunchSettles` and `EveryRunEnds`, since liveness under
fairness is out of the prover's reach.

## 5. What the checks show beyond "it holds"

* The cache is safe without single flight: concurrent misses mint several
  tokens and the last insertion stays, but none is ever stale or foreign. The
  entry left may be the *older* token; it is fresh all the same because its
  refresh time is bounded by its own age.
* Nothing in the token flow re-checks a caller after the decision, and nothing
  needs to: rights change only by a restart, which drops every handler and
  every cached token (`DelegatedTokens`; the mutant of `Stop` that lets handlers
  finish breaks `TypeOK`).
* 50 minutes are safe against GitHub's 60 as long as one await stays under five
  minutes: `Ttl + 2 * MaxDelay <= Lifetime`. A proxied request makes it three
  awaits of three minutes each. The JWT is tighter: at most six awaits in eight
  minutes, less the skew.
* The id cache has no way out: after a reinstallation the old id is used until
  the process restarts (state graph of `reinstall`). Calls end, with errors.
* `validate` is load-bearing for `authorize_*`: without the check on duplicate
  claims `GrantsAreEntitled` fails, and without that on empty permissions
  `FullPermissionsNeedRole` does.
* An acknowledged delivery can be lost, in three ways: `publish` fails and is
  logged, the connection breaks under what was written to it, or the process
  ends before the client has sent its buffer. All three are in the model, and by
  `ImplementsDeliveries` there is no fourth: what is handed to the client arrives in
  order or was lost in one of the last two, with all that was older and not there
  yet. Nothing in the repository promises otherwise. It is never lost because a
  publisher is missing (`AcknowledgedAfterPublish`), which `validate` alone sees
  to, also with `--disable-auth`.
* During a rotation of a webhook secret deliveries are refused until both ends
  agree, and only then (`RefusalsHaveCause`).
* A webhook never changes the shape of its subject, but the configured base may be
  none: `validate` lets a base of dots, or one with wild cards, pass
  (`src/config.rs:258`). `SubjectsAreLegal` assumes a legal base.
* A subject has an owner and a repository only if the payload has
  `repository.owner.name` (`src/nats.rs:85`); payloads without it give the base and
  the event. The model has both.
* The rule for the names of keys is written twice, in `validate`
  (`src/config.rs:304-305`) and in `path_for_key` (`src/secret.rs:37`), as the same
  expression. `Signs` in `ServesAsConfigured` is the second of them: a server at work
  refuses no key for its name.
* The helper reads its configuration before it looks at the request, so with a
  file that is not sound it ends in error also for requests it would ignore;
  `SilenceIsIntended` says no more than that a silent success was one to ignore. For
  a URL without a path git asks for no repository, unless `credential.useHttpPath`
  is set, and is ignored.
* The helper's README (`git-credential-helper/README.md:65-68`) says that for
  `OWNER/REPO.git` it calls `{idcat-endpoint}/installation-token/{github-app}/OWNER/REPO`.
  The URL is put together by `path_segments_mut().extend`
  (`git-credential-helper/src/idcat.rs:57`), which passes over `.` and `..`: of the
  path `acme/..` the call is `{github-app}/acme`, that of the owner endpoint, and the
  token is for the whole installation of `acme`. `RightRepository` says so, and that
  it happens for such names only. idcat's own rules apply to that call: an
  `[[owner-policy]]` or an allowed role must entitle the bearer to it.
* The helper's answer is bounded by idcat's, not by the bearer: a `token-command`
  that does not end keeps git waiting, and nothing in the code would end it.

## 6. Findings

* `readme_cache`: `README.md:228-229` says that installation tokens are cached
  "for 50 minutes per GitHub app and repo". The cache is keyed by App, target
  and *scope* (`src/github.rs:73`), and has to be: the run shows two entries for
  one App and repository that carry different permissions.
* `readme_validate`: `README.md:217-219` says of `--validate-config` that it "exits 0
  for a valid config and non-zero with the reason otherwise". A server parses
  `bind-address` as the address of a socket only after a check run has returned
  (`src/main.rs:94`), and `validate` asks just that it is not empty: a file with a
  host name there passes the check and keeps the server from starting.
  The same is true of `endpoint` in `[nats]`, if some App is bridged: `validate` asks
  that it is not empty (`src/config.rs:260`), the server parses it when it connects
  (`src/nats.rs:18-20`), and an endpoint that is no address fails the start, with
  NATS in reach or not. `ApprovedFilesStart` and its theorem `ApprovedStart` show
  that of what the model has of a file these two entries are the only ones.

## 7. Not modelled

* What the proxy makes of paths, headers and bodies: conversions without state.
  That an answer of GitHub which refuses the token drops no cache entry is in
  the model (`Relay` leaves the client alone); how long such a token is used is
  bounded by `ServedTokenUnexpired` and `ProxyTokenUnexpired`.
* Names with a `/`, and names that are `.` or `..`, in the client and the service.
  axum decodes the segments of a path, so `%2F` puts a `/` into an owner or a
  repository, and nothing in `src/main.rs:245` refuses it. `repository_installation_id`
  (`src/github.rs:297`) and `owner_installation_id` (`src/github.rs:323`) format the
  names into a URL as they are, and a parsed URL is normalised: what is looked up
  can then be another account, or another path of GitHub's, than the one the text of
  the policies was matched with. `AnswerRepository` and `AnswerOrganization`, and the
  keys of the id cache, are of plain names only, and so is everything shown of the
  client and the service, `IdsBelong`, `Isolation` and `DelegatedTokens` included.
  Only `PatternsMatchAtASlash` is about such names.
* In the helper, characters the url crate drops from a segment (tabs and line ends)
  or escapes; `.` and `..` are in the model.
* Cryptography, TLS, JSON, TOML, headers: conversions without state.
* Signers: an await that answers or fails; AWS KMS behind one of them is I/O.
* Checks of `validate` on single entries that relate to nothing else: empty names,
  names given twice, ids of zero.
* Eviction: the code has none (`src/github.rs:39`); the model keeps every entry as
  the code does. A late insertion of an id (`src/github.rs:408`) is in the model,
  where the id that stays belongs to App and account all the same (`IdsBelong`).
* `github-permissions.toml` and other warnings; `encrypt-key-material.sh` and
  `examples/`, tools outside the service.

## 8. What could come next

* Globs inside Authorization, with policies as the file has them, in place of the
  sets of targets; for names without a `/` these lose nothing (`PatternsMatchByPart`).
* Names with a `/` or of dots through GithubClient: lookups keyed by what the
  normalised URL names, and what is left of `Isolation` then.
* WebhookBridge with subjects, that is, with Process in place of its own start.
* The helper and TokenService together: that the repository git asks for is the
  one a policy was asked about follows from `RightRepository` and
  `DelegatedTokens`, and could be one theorem.
