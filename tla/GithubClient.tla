---------------------------- MODULE GithubClient ----------------------------
(***************************************************************************)
(* The GitHub client of idcat (src/src/github.rs): concurrent calls of     *)
(* create_installation_token over one GithubCache, which holds the         *)
(* installation ids and the installation tokens behind a tokio Mutex.      *)
(*                                                                         *)
(* The mutex is held only inside synchronous code, so a critical section   *)
(* is one action.  Everything between two `.await`s of a call is one       *)
(* action as well, and `call[r].step' names the await the call is at.      *)
(* GitHub, its clock and its installations are the environment.            *)
(***************************************************************************)
EXTENDS Installations, Sequences

CONSTANTS
  Organization,  \* the accounts that are organizations; the others are users
  Request,       \* tasks of the server, each running one call at a time
  Wanted,        \* the (app, target, scope) triples callers ask for
  Ttl,           \* INSTALLATION_TOKEN_CACHE_TTL
  Lifetime,      \* how long GitHub honours an installation token
  JwtTtl,        \* GITHUB_APP_JWT_TTL_SECONDS
  ClockSkew,     \* CLOCK_SKEW_SECONDS
  JwtLimit,      \* how far ahead GitHub lets the exp of an App JWT lie
  Drift,         \* what GitHub's clock minus idcat's may be, at one time or another
  MaxDelay,      \* the longest one await of a call lasts (environment)
  Epoch,         \* the time when the model starts
  MaxTime,       \* bound: the clock stops here
  MaxChanges     \* bound: installs plus uninstalls of one App on one account

ASSUME ConstantsAssumption ==
  /\ Organization \subseteq Account
  /\ Wanted \subseteq InstallationTokenCacheKey
  /\ Wanted # {}

ASSUME TimeAssumption ==
  /\ {Ttl, Lifetime, JwtTtl, ClockSkew, JwtLimit, MaxDelay, Epoch} \subseteq Nat
  /\ Drift \subseteq Int
  /\ Drift # {}
  /\ MaxTime \in Nat
  /\ Ttl > 0
  /\ Epoch >= ClockSkew

(***************************************************************************)
(* The latency the code's constants tolerate.  A cached token is handed    *)
(* out at most Ttl plus two awaits after GitHub minted it; a JWT is        *)
(* presented at most six awaits after it was issued.  The HTTP client sets *)
(* no timeout, so MaxDelay is an assumption on the network, not a fact of  *)
(* the code: with 50 and 60 minutes for the tokens and 9 and 1 minutes for *)
(* the JWT it may be as large as one minute.                               *)
(***************************************************************************)
ASSUME LatencyAssumption ==
  /\ Ttl + 2 * MaxDelay <= Lifetime
  /\ \A drift \in Drift :
       /\ 6 * MaxDelay + drift < JwtTtl - ClockSkew
       /\ -ClockSkew <= drift
       /\ JwtTtl - ClockSkew - drift <= JwtLimit

VARIABLES
  now,           \* the clock, read by Instant::now() and SystemTime::now()
  installation,  \* GitHub: changes of (App, account) so far; odd is installed
  ids,           \* GithubCache.installation_ids
  tokens,        \* GithubCache.installation_tokens
  call           \* where each task's call stands, with its local variables

vars == <<now, installation, ids, tokens, call>>

(* The awaits of a call, in the order it reaches them. *)
Awaiting ==
  {"lock_tokens", "sign", "lock_ids", "get_repository", "get_organization",
   "get_user", "insert_id", "post", "reply", "insert_token"}

Call ==
  [step   : Awaiting \cup {"idle", "returned"},
   key    : InstallationTokenCacheKey,
   since  : Int,                          \* when the call got to this step
   sample : Int,                          \* the last Instant::now() it read
   jwt    : Int,                          \* when its App JWT was issued
   id     : InstallationId \cup {NoId},
   token  : Token \cup {NoToken}]

Idle ==
  [step |-> "idle", key |-> CHOOSE k \in Wanted : TRUE, since |-> Epoch,
   sample |-> Epoch, jwt |-> Epoch, id |-> NoId, token |-> NoToken]

Init ==
  /\ now = Epoch
  /\ installation \in [App \X Account -> 0 .. 1]
  /\ ids = {}
  /\ tokens = {}
  /\ call = [r \in Request |-> Idle]

-----------------------------------------------------------------------------
(* The two maps of GithubCache: inserting under a key replaces its entry. *)

(* format!("{github_app_name}/{}", target.cache_key()), split at its separators:
   no App name has a '/', no owner and no repository name has one either. *)
IdCacheKey(app, target) ==
  IF target.kind = "repository"
    THEN <<app, "repo", target.owner, target.name>>
    ELSE <<app, "owner", target.owner>>

(* Mutants of CachedIds: the App, or the account, is left out of the key. *)
CachedIdsOfAnyApp(app, target) ==
  {e \in ids : Tail(e.cache_key) = Tail(IdCacheKey(app, target))}

CachedIdsOfAnyOwner(app, target) == {e \in ids : e.cache_key[1] = app}

CachedIds(app, target) ==
  {e \in ids : e.cache_key = IdCacheKey(app, target)}

InsertId(app, target, id) ==
  (ids \ CachedIds(app, target))
    \cup {[cache_key |-> IdCacheKey(app, target), id |-> id]}

(* Mutant of EntriesOf: tokens are cached per App and target, not per scope. *)
EntriesOfTarget(key) ==
  {e \in tokens : e.key.github_app = key.github_app /\ e.key.target = key.target}

EntriesOf(key) == {e \in tokens : e.key = key}

(* Mutant of FreshEntries: an entry may be used at its refresh time. *)
FreshEntriesInclusive(key, sample) ==
  {e \in EntriesOf(key) : e.refresh_after >= sample}

FreshEntries(key, sample) == {e \in EntriesOf(key) : e.refresh_after > sample}

(* Mutant of RefreshAfter: kept as long as GitHub honours the token. *)
RefreshAtExpiry(sample) == sample + Lifetime

RefreshAfter(sample) == sample + Ttl

(* Mutant of InsertToken: the entry forgets the permissions asked for. *)
InsertTokenAnyPermissions(key, token, sample) ==
  tokens \cup {[key |-> [key EXCEPT !.scope.permissions = {}], token |-> token,
                refresh_after |-> RefreshAfter(sample)]}

InsertToken(key, token, sample) ==
  (tokens \ EntriesOf(key))
    \cup {[key |-> key, token |-> token, refresh_after |-> RefreshAfter(sample)]}

-----------------------------------------------------------------------------
(* Mutant of IssuedAt: the skew of the clocks is not tolerated. *)
IssuedNow(t) == t

(* The App JWT: dated back by the tolerated skew, saturating at zero. *)
IssuedAt(t) == IF t < ClockSkew THEN 0 ELSE t - ClockSkew

Expiry(t) == IssuedAt(t) + JwtTtl

(* GitHub, on its own clock, accepts a JWT that is issued, unexpired and short. *)
JwtAccepted(t, drift) ==
  /\ IssuedAt(t) <= now + drift
  /\ now + drift < Expiry(t)
  /\ Expiry(t) <= now + drift + JwtLimit

Installed(app, account) == installation[<<app, account>>] % 2 = 1

CurrentId(app, account) ==
  [github_app |-> app, account |-> account,
   change |-> installation[<<app, account>>]]

Live(id) == installation[<<id.github_app, id.account>>] = id.change

-----------------------------------------------------------------------------
(* The body of the token request; `repositories' carries the bare name. *)
RequestedRepositories(scope, target) ==
  IF scope.repositories = "All" THEN {} ELSE {target.name}

-----------------------------------------------------------------------------
(* Moving a call on: the await it is at, and when it got there. *)

At(r, step) == call[r].step = step

Moved(r, step) == [call[r] EXCEPT !.step = step, !.since = now]

(* create_installation_token returns; the locals of the call are dropped. *)
Returned(r, token) ==
  [Idle EXCEPT !.step = "returned", !.key = call[r].key, !.since = now, !.token = token]

(* A call to GitHub with an id at hand, or the refusal to make one. *)
Requesting(r, id) ==
  IF ScopeRefused(call[r].key.scope, call[r].key.target)
    THEN Idle
    ELSE [Moved(r, "post") EXCEPT !.id = id]

Found(r, id) == [Moved(r, "insert_id") EXCEPT !.id = id]

-----------------------------------------------------------------------------
(* The steps of create_installation_token. *)

(* A task calls create_installation_token.  The clock is read before the
   cache is locked. *)
Create(r, key) ==
  /\ call[r].step \in {"idle", "returned"}
  /\ call' = [call EXCEPT ![r] =
       [Idle EXCEPT !.step = "lock_tokens", !.key = key, !.since = now, !.sample = now]]
  /\ UNCHANGED <<now, installation, ids, tokens>>

UseCachedToken(r) ==
  /\ At(r, "lock_tokens")
  /\ \E e \in FreshEntries(call[r].key, call[r].sample) :
       call' = [call EXCEPT ![r] = Returned(r, e.token)]
  /\ UNCHANGED <<now, installation, ids, tokens>>

(* A miss: build_github_app_jwt reads the clock, then awaits the signer. *)
BuildJwt(r) ==
  /\ At(r, "lock_tokens")
  /\ FreshEntries(call[r].key, call[r].sample) = {}
  /\ call' = [call EXCEPT ![r] = [Moved(r, "sign") EXCEPT !.jwt = now]]
  /\ UNCHANGED <<now, installation, ids, tokens>>

Sign(r) ==
  /\ At(r, "sign")
  /\ call' = [call EXCEPT ![r] = Moved(r, "lock_ids")]
  /\ UNCHANGED <<now, installation, ids, tokens>>

UseCachedId(r) ==
  /\ At(r, "lock_ids")
  /\ \E e \in CachedIds(call[r].key.github_app, call[r].key.target) :
       call' = [call EXCEPT ![r] = Requesting(r, e.id)]
  /\ UNCHANGED <<now, installation, ids, tokens>>

LookUpId(r) ==
  /\ At(r, "lock_ids")
  /\ CachedIds(call[r].key.github_app, call[r].key.target) = {}
  /\ call' = [call EXCEPT ![r] =
       IF call[r].key.target.kind = "repository"
         THEN Moved(r, "get_repository")
         ELSE Moved(r, "get_organization")]
  /\ UNCHANGED <<now, installation, ids, tokens>>

(* The id is inserted, whatever another call has inserted meanwhile. *)
CacheId(r) ==
  /\ At(r, "insert_id")
  /\ ids' = InsertId(call[r].key.github_app, call[r].key.target, call[r].id)
  /\ call' = [call EXCEPT ![r] = Requesting(r, call[r].id)]
  /\ UNCHANGED <<now, installation, tokens>>

(* The response is parsed; the clock is read before the cache is locked. *)
Receive(r) ==
  /\ At(r, "reply")
  /\ call' = [call EXCEPT ![r] = [Moved(r, "insert_token") EXCEPT !.sample = now]]
  /\ UNCHANGED <<now, installation, ids, tokens>>

CacheToken(r) ==
  /\ At(r, "insert_token")
  /\ tokens' = InsertToken(call[r].key, call[r].token, call[r].sample)
  /\ call' = [call EXCEPT ![r] = Returned(r, call[r].token)]
  /\ UNCHANGED <<now, installation, ids>>

-----------------------------------------------------------------------------
(* GitHub's answers, and what the code makes of each. *)

(* GET repos/{owner}/{repo}/installation: any error status ends the call. *)
AnswerRepository(r) ==
  LET key == call[r].key IN
  /\ At(r, "get_repository")
  /\ \E drift \in Drift : call' = [call EXCEPT ![r] =
       IF JwtAccepted(call[r].jwt, drift) /\ Installed(key.github_app, key.target.owner)
         THEN Found(r, CurrentId(key.github_app, key.target.owner))
         ELSE Idle]
  /\ UNCHANGED <<now, installation, ids, tokens>>

(* Mutant of AnswerOrganization: 404 is taken for a failure worth a retry. *)
AnswerOrganizationRetried(r) ==
  LET key == call[r].key IN
  /\ At(r, "get_organization")
  /\ \E drift \in Drift : call' = [call EXCEPT ![r] =
       IF ~JwtAccepted(call[r].jwt, drift) THEN Idle
       ELSE IF key.target.owner \in Organization
               /\ Installed(key.github_app, key.target.owner)
         THEN Found(r, CurrentId(key.github_app, key.target.owner))
         ELSE call[r]]
  /\ UNCHANGED <<now, installation, ids, tokens>>

(* GET orgs/{owner}/installation: only 404 makes the code try the user. *)
AnswerOrganization(r) ==
  LET key == call[r].key IN
  /\ At(r, "get_organization")
  /\ \E drift \in Drift : call' = [call EXCEPT ![r] =
       IF ~JwtAccepted(call[r].jwt, drift) THEN Idle
       ELSE IF key.target.owner \in Organization
               /\ Installed(key.github_app, key.target.owner)
         THEN Found(r, CurrentId(key.github_app, key.target.owner))
         ELSE Moved(r, "get_user")]
  /\ UNCHANGED <<now, installation, ids, tokens>>

(* GET users/{owner}/installation. *)
AnswerUser(r) ==
  LET key == call[r].key IN
  /\ At(r, "get_user")
  /\ \E drift \in Drift : call' = [call EXCEPT ![r] =
       IF /\ JwtAccepted(call[r].jwt, drift)
          /\ key.target.owner \notin Organization
          /\ Installed(key.github_app, key.target.owner)
         THEN Found(r, CurrentId(key.github_app, key.target.owner))
         ELSE Idle]
  /\ UNCHANGED <<now, installation, ids, tokens>>

(* POST app/installations/{id}/access_tokens, handled at GitHub: the JWT has to
   be that of the App installed, and the installation has to exist still. *)
Mint(r) ==
  LET key == call[r].key
      id  == call[r].id
      token == [installation |-> id,
                repositories |-> RequestedRepositories(key.scope, key.target),
                permissions  |-> key.scope.permissions,
                minted_at    |-> now]
  IN
  /\ At(r, "post")
  /\ \E drift \in Drift : call' = [call EXCEPT ![r] =
       IF JwtAccepted(call[r].jwt, drift) /\ id.github_app = key.github_app /\ Live(id)
         THEN [Moved(r, "reply") EXCEPT !.token = token]
         ELSE Idle]
  /\ UNCHANGED <<now, installation, ids, tokens>>

-----------------------------------------------------------------------------
(* What the server does not decide. *)

(* The signer fails, GitHub cannot be reached, answers with an error status,
   or the body cannot be parsed: the call returns an error and caches nothing. *)
Fail(r) ==
  /\ call[r].step \in {"sign", "get_repository", "get_organization", "get_user",
                       "post", "reply"}
  /\ call' = [call EXCEPT ![r] = Idle]
  /\ UNCHANGED <<now, installation, ids, tokens>>

(* The client disconnects: the server drops the handler at its await. *)
Cancel(r) ==
  /\ call[r].step \in Awaiting
  /\ call' = [call EXCEPT ![r] = Idle]
  /\ UNCHANGED <<now, installation, ids, tokens>>

(* The process ends, at a signal or not, and starts with an empty GithubCache. *)
Restart ==
  /\ call' = [r \in Request |-> Idle]
  /\ ids' = {}
  /\ tokens' = {}
  /\ UNCHANGED <<now, installation>>

(* The App is installed on the account, or uninstalled from it. *)
Change(app, account) ==
  /\ installation[<<app, account>>] < MaxChanges
  /\ installation' = [installation EXCEPT ![<<app, account>>] = @ + 1]
  /\ UNCHANGED <<now, ids, tokens, call>>

(* Time passes, but no await takes longer than MaxDelay. *)
Tick ==
  /\ now < MaxTime
  /\ \A r \in Request : call[r].step \in Awaiting => now < call[r].since + MaxDelay
  /\ now' = now + 1
  /\ UNCHANGED <<installation, ids, tokens, call>>

-----------------------------------------------------------------------------
(* One step towards the end of a call, by the task or by GitHub. *)
Progress(r) ==
  \/ UseCachedToken(r) \/ BuildJwt(r) \/ Sign(r)
  \/ UseCachedId(r) \/ LookUpId(r) \/ CacheId(r)
  \/ AnswerRepository(r) \/ AnswerOrganization(r) \/ AnswerUser(r)
  \/ Mint(r) \/ Receive(r) \/ CacheToken(r)

Next ==
  \/ \E r \in Request : \/ \E key \in Wanted : Create(r, key)
                        \/ Progress(r)
                        \/ Fail(r)
                        \/ Cancel(r)
  \/ \E app \in App, account \in Account : Change(app, account)
  \/ Restart
  \/ Tick

Spec == Init /\ [][Next]_vars

(***************************************************************************)
(* tokio polls every task whose await is over and its Mutex is fair;       *)
(* GitHub and the signer are taken to answer, if only with an error: the   *)
(* client sets no timeout, so nothing else ends a call.                    *)
(***************************************************************************)
Fairness == \A r \in Request : WF_vars(Progress(r))

FairSpec == Spec /\ Fairness

-----------------------------------------------------------------------------
(* PROPERTIES *)

(* What a call holds at a step: an id to insert or to ask with, a token to
   insert or returned, and a scope its target suits once a request is built. *)
Holding(c) ==
  /\ c.step \in {"insert_id", "post"} => c.id \in InstallationId
  /\ c.step \in {"reply", "insert_token", "returned"} => c.token \in Token
  /\ c.step = "post" => ~ScopeRefused(c.key.scope, c.key.target)

(* The caches hold ids and tokens under keys some call asked for, and a call
   holds what its step needs. *)
TypeOK ==
  /\ now \in Int
  /\ installation \in [App \X Account -> Nat]
  /\ ids \subseteq [cache_key : {IdCacheKey(k.github_app, k.target) : k \in Wanted},
                    id : InstallationId]
  /\ tokens \subseteq [key : Wanted, token : Token, refresh_after : Int]
  /\ call \in [Request -> Call]
  /\ \A r \in Request : call[r].key \in Wanted /\ Holding(call[r])

(* Every id in the id cache is of the App and the account its key names, and so
   is the id a call carries to the token request. *)
IdsBelong ==
  /\ \A e \in ids : /\ e.id.github_app = e.cache_key[1]
                    /\ e.id.account = e.cache_key[3]
  /\ \A r \in Request : call[r].step \in {"insert_id", "post"} =>
       /\ call[r].id.github_app = call[r].key.github_app
       /\ call[r].id.account = call[r].key.target.owner

(* No caller ever gets, and no cache entry ever holds, a token of another App
   or account, for other repositories or with other permissions than were
   asked for: whoever minted it, and whatever was cached before. *)
Isolation ==
  /\ \A e \in tokens : Fits(e.token, e.key)
  /\ \A r \in Request : call[r].step \in {"reply", "insert_token", "returned"} =>
       Fits(call[r].token, call[r].key)

(* A cache entry the next call would serve holds a token GitHub still honours. *)
CachedTokenUnexpired ==
  \A e \in tokens : e.refresh_after > now => now < e.token.minted_at + Lifetime

(* The token a call returns is one GitHub still honours when it is returned,
   though the clock that chose it was read before the cache was locked. *)
ServedTokenUnexpired ==
  \A r \in Request :
    At(r, "returned") => call[r].since < call[r].token.minted_at + Lifetime

(* While a call waits on GitHub, GitHub accepts the App JWT it was given at
   the start: the lookups that come first do not use up its lifetime. *)
JwtAcceptedInFlight ==
  \A r \in Request :
    call[r].step \in {"get_repository", "get_organization", "get_user", "post"} =>
      \A drift \in Drift : JwtAccepted(call[r].jwt, drift)

(* How old what a call holds can be: every await adds at most MaxDelay.  The
   inductive invariant behind the three properties above. *)
AwaitsAreShort ==
  \A r \in Request : call[r].step \in Awaiting =>
    call[r].since <= now /\ now <= call[r].since + MaxDelay

JwtAge(c) ==
  /\ c.step \in {"sign", "lock_ids", "get_repository", "get_organization", "get_user",
                 "insert_id", "post"} => Epoch <= c.jwt /\ c.jwt <= c.since
  /\ c.step = "sign" => c.since <= c.jwt
  /\ c.step = "lock_ids" => c.since <= c.jwt + MaxDelay
  /\ c.step \in {"get_repository", "get_organization"} => c.since <= c.jwt + 2 * MaxDelay
  /\ c.step = "get_user" => c.since <= c.jwt + 3 * MaxDelay
  /\ c.step = "insert_id" => c.since <= c.jwt + 4 * MaxDelay
  /\ c.step = "post" => c.since <= c.jwt + 5 * MaxDelay

TokenAge(c) ==
  /\ c.step = "lock_tokens" => c.sample = c.since
  /\ c.step = "reply" => c.token.minted_at = c.since
  /\ c.step = "insert_token" => /\ c.sample = c.since
                                /\ c.token.minted_at <= c.since
                                /\ c.since <= c.token.minted_at + MaxDelay
  /\ c.step = "returned" => /\ c.token.minted_at <= c.since
                            /\ c.since < c.token.minted_at + Ttl + 2 * MaxDelay

EntryAge(e) ==
  /\ e.token.minted_at <= now
  /\ e.refresh_after <= e.token.minted_at + MaxDelay + Ttl

Timely ==
  /\ Epoch <= now
  /\ AwaitsAreShort
  /\ \A r \in Request : JwtAge(call[r]) /\ TokenAge(call[r])
  /\ \A e \in tokens : EntryAge(e)

(* Every call that starts is over some time: it returns a token or an error. *)
EveryCallReturns ==
  \A r \in Request : At(r, "lock_tokens") ~> call[r].step \in {"idle", "returned"}

(* README.md: "Installation tokens are cached in memory for 50 minutes per
   GitHub app and repo" -- one entry per App and repository. *)
OneTokenPerAppAndRepo ==
  \A e, f \in tokens :
    /\ e.key.target.kind = "repository"
    /\ e.key.github_app = f.key.github_app
    /\ e.key.target = f.key.target
    => e = f

-----------------------------------------------------------------------------
(* What the caller sees of a call is specified by InstallationTokens. *)

StatusOf(c) ==
  [state |-> IF c.step \in Awaiting THEN "pending" ELSE c.step,
   key   |-> c.key,
   token |-> IF c.step = "returned" THEN c.token ELSE NoToken]

Status == [r \in Request |-> StatusOf(call[r])]

Abstract ==
  INSTANCE InstallationTokens WITH status <- Status, MaxAge <- Ttl + 2 * MaxDelay

(* Calls, cache, lookups, failures, restarts: the client does what its contract
   says, whatever other calls do meanwhile. *)
ImplementsInstallationTokens == Abstract!Spec

=============================================================================
