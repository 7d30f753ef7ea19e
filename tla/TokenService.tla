---------------------------- MODULE TokenService ----------------------------
(***************************************************************************)
(* The requests idcat serves (src/src/main.rs): the token endpoints and    *)
(* the proxy, over the authorization and the GitHub client.                *)
(*                                                                         *)
(* A handler runs without a wait from the arrival of a request to the      *)
(* first await of create_installation_token: the bearer token, the App,    *)
(* the decision and the private key file are one action.  From there it is *)
(* wherever its call is, and a proxy handler then waits for GitHub once    *)
(* more.  The process starts and stops; nothing outlives it.               *)
(***************************************************************************)
EXTENDS Installations, Sequences

CONSTANTS
  Task,  \* tasks of the server, each serving one request at a time
  Organization, Ttl, Lifetime, JwtTtl, ClockSkew, JwtLimit, Drift, MaxDelay,
  Epoch, MaxTime, MaxChanges,                     \* see GithubClient
  Role, Issuer, Value, NoBearer, Config, Bearer   \* see Authorization

(***************************************************************************)
(* The proxy waits once more with the token at hand: the assumption on the *)
(* network is one await stronger than the client's.                        *)
(***************************************************************************)
ASSUME ProxyLatencyAssumption ==
  /\ {Ttl, Lifetime, MaxDelay} \subseteq Nat
  /\ Ttl + 3 * MaxDelay <= Lifetime

VARIABLES
  now, installation, ids, tokens, call,  \* see GithubClient
  config, disable_auth, serving,         \* see Authorization
  exchanges,  \* the request each task was given last, and the decision on it
  keys,       \* the Apps whose private key file can be read
  handler     \* where each task stands

client == <<now, installation, ids, tokens, call>>
process == <<config, disable_auth, serving>>
vars == <<client, process, exchanges, keys, handler>>

Client ==
  INSTANCE GithubClient WITH Request <- Task, Wanted <- InstallationTokenCacheKey

Auth(t) == INSTANCE Authorization WITH exchange <- exchanges[t]

(* What authorization says of a request whatever became of the last one. *)
Rules == INSTANCE Authorization WITH exchange <- [status |-> "none"]

(* What the client and the authorization rely on. *)
ASSUME PartsAssumption ==
  /\ Task # {}
  /\ Client!ConstantsAssumption
  /\ Client!TimeAssumption
  /\ Client!LatencyAssumption
  /\ Rules!AuthorizationAssumption

Handler ==
  [route : {"token", "proxy"},
   step  : {"free", "calling", "forwarding", "answered"},
   reply : {"none", "token", "relayed", "refused", "error"}]

Free == [route |-> "token", step |-> "free", reply |-> "none"]

NoExchange == [status |-> "none"]

Init ==
  /\ Client!Init
  /\ config \in Config
  /\ disable_auth \in BOOLEAN
  /\ serving = FALSE
  /\ exchanges = [t \in Task |-> NoExchange]
  /\ keys \in SUBSET App
  /\ handler = [t \in Task |-> Free]

-----------------------------------------------------------------------------
(* A request arrives. *)

At(t, step) == handler[t].step = step

Ready(t) == handler[t].step \in {"free", "answered"}

Calling(t, route) ==
  handler' = [handler EXCEPT ![t] = [route |-> route, step |-> "calling", reply |-> "none"]]

Replied(t, reply) ==
  handler' = [handler EXCEPT ![t] = [Free EXCEPT !.step = "answered", !.reply = reply]]

(* The proxy serves repositories only. *)
Routes(request) ==
  IF request.target.kind = "repository" THEN {"token", "proxy"} ELSE {"token"}

Decide(t, request, status, scope) ==
  /\ exchanges' = [exchanges EXCEPT ![t] =
       [request |-> request, status |-> status, scope |-> scope]]
  /\ Auth(t)!Decide(request)

Key(request, scope) ==
  [github_app |-> request.github_app, target |-> request.target, scope |-> scope]

(* Mutant of Begin: the policy's permissions are lost on the way to the client. *)
BeginUnnarrowed(t, request, scope) ==
  /\ Ready(t)
  /\ request.github_app \in keys
  /\ Decide(t, request, "granted", scope)
  /\ Client!Create(t, Key(request, [scope EXCEPT !.permissions = {}]))
  /\ \E route \in Routes(request) : Calling(t, route)
  /\ UNCHANGED keys

(* The request is granted, the private key file can be read, and the handler
   calls create_installation_token. *)
Begin(t, request, scope) ==
  /\ Ready(t)
  /\ request.github_app \in keys
  /\ Decide(t, request, "granted", scope)
  /\ Client!Create(t, Key(request, scope))
  /\ \E route \in Routes(request) : Calling(t, route)
  /\ UNCHANGED keys

(* Mutant of MissKey: an App without its key is taken for one that is not served. *)
MissKeyRefusing(t, request, scope) ==
  /\ Ready(t)
  /\ request.github_app \notin keys
  /\ Decide(t, request, "granted", scope)
  /\ Replied(t, "refused")
  /\ UNCHANGED <<client, keys>>

(* Without its key no call is made, whatever is cached. *)
MissKey(t, request, scope) ==
  /\ Ready(t)
  /\ request.github_app \notin keys
  /\ Decide(t, request, "granted", scope)
  /\ Replied(t, "error")
  /\ UNCHANGED <<client, keys>>

Reject(t, request) ==
  /\ Ready(t)
  /\ \E status \in {"unauthorized", "not_found"} :
       Decide(t, request, status, Rules!NoScope)
  /\ Replied(t, "refused")
  /\ UNCHANGED <<client, keys>>

-----------------------------------------------------------------------------
(* The call of a handler goes on, and ends. *)

Continue(t) ==
  /\ call'[t].step \notin {"returned", "idle"}
  /\ UNCHANGED handler

(* The token is the reply; the proxy sends the caller's request on with it. *)
Return(t) ==
  /\ call'[t].step = "returned"
  /\ IF handler[t].route = "token"
       THEN Replied(t, "token")
       ELSE handler' = [handler EXCEPT ![t].step = "forwarding"]

GiveUp(t) ==
  /\ call'[t].step = "idle"
  /\ Replied(t, "error")

Work(t) ==
  /\ At(t, "calling")
  /\ Client!Progress(t)
  /\ Continue(t) \/ Return(t) \/ GiveUp(t)
  /\ UNCHANGED <<process, exchanges, keys>>

CallFails(t) ==
  /\ At(t, "calling")
  /\ Client!Fail(t)
  /\ GiveUp(t)
  /\ UNCHANGED <<process, exchanges, keys>>

(* GitHub's answer is handed on, whatever it is: an error of GitHub about the
   token does not make the handler ask for another one. *)
Relay(t) ==
  /\ At(t, "forwarding")
  /\ Replied(t, "relayed")
  /\ UNCHANGED <<client, process, exchanges, keys>>

RelayFails(t) ==
  /\ At(t, "forwarding")
  /\ Replied(t, "error")
  /\ UNCHANGED <<client, process, exchanges, keys>>

(* The caller is gone: the handler is dropped at its await. *)
Disconnect(t) ==
  /\ \/ At(t, "calling") /\ Client!Cancel(t)
     \/ At(t, "forwarding") /\ UNCHANGED client
  /\ handler' = [handler EXCEPT ![t] = Free]
  /\ UNCHANGED <<process, exchanges, keys>>

-----------------------------------------------------------------------------
(* The process. *)

Start ==
  /\ UNCHANGED <<client, exchanges, keys, handler>>
  /\ \A t \in Task : Auth(t)!Start

(* Mutant of Stop: the handlers at work are kept until they have answered. *)
StopDraining ==
  /\ serving
  /\ serving' = FALSE
  /\ UNCHANGED <<client, config, disable_auth, exchanges, keys, handler>>

(* Mutant of Stop: the tokens outlive the process. *)
StopKeepingTokens ==
  /\ exchanges' = [t \in Task |-> NoExchange]
  /\ \A t \in Task : Auth(t)!Stop
  /\ call' = [t \in Task |-> Client!Idle]
  /\ ids' = {}
  /\ handler' = [t \in Task |-> Free]
  /\ UNCHANGED <<now, installation, tokens, keys>>

(* serve_until_termination drops the server with every handler in it. *)
Stop ==
  /\ exchanges' = [t \in Task |-> NoExchange]
  /\ \A t \in Task : Auth(t)!Stop
  /\ Client!Restart
  /\ handler' = [t \in Task |-> Free]
  /\ UNCHANGED keys

(* Mutant of Deploy: a file that changes is loaded at once. *)
DeployAtOnce ==
  /\ config' \in Config
  /\ UNCHANGED <<client, disable_auth, serving, exchanges, keys, handler>>

Deploy ==
  /\ UNCHANGED <<client, exchanges, keys, handler>>
  /\ \A t \in Task : Auth(t)!Deploy

(* A private key file appears, or goes.  Keys held by KMS are never missing:
   there `keys' stays as it is. *)
ChangeKey(app) ==
  /\ keys' = IF app \in keys THEN keys \ {app} ELSE keys \cup {app}
  /\ UNCHANGED <<client, process, exchanges, handler>>

Change(app, account) ==
  /\ Client!Change(app, account)
  /\ UNCHANGED <<process, exchanges, keys, handler>>

(* Time passes; the proxy's wait for GitHub is bounded like the others. *)
Tick ==
  /\ \A t \in Task : At(t, "forwarding") => now < call[t].since + MaxDelay
  /\ Client!Tick
  /\ UNCHANGED <<process, exchanges, keys, handler>>

-----------------------------------------------------------------------------
Serve(t) ==
  \/ \E request \in Rules!Request :
       \/ \E scope \in TokenScope : Begin(t, request, scope) \/ MissKey(t, request, scope)
       \/ Reject(t, request)
  \/ Work(t)
  \/ CallFails(t)
  \/ Relay(t)
  \/ RelayFails(t)
  \/ Disconnect(t)

Next ==
  \/ \E t \in Task : Serve(t)
  \/ Start \/ Stop \/ Deploy
  \/ \E app \in App : ChangeKey(app)
  \/ \E app \in App, account \in Account : Change(app, account)
  \/ Tick

Spec == Init /\ [][Next]_vars

(* As for the client, and GitHub answers what the proxy asks. *)
Fairness == \A t \in Task : WF_vars(Work(t)) /\ WF_vars(Relay(t) \/ RelayFails(t))

FairSpec == Spec /\ Fairness

-----------------------------------------------------------------------------
(* PROPERTIES *)

(* The client and the authorization stay well typed; a handler is at work only
   on a granted request of a serving process, its call is where it says, and
   what it is about to deliver is the token the call returned. *)
Consistent(t) ==
  /\ At(t, "calling") <=> call[t].step \in Client!Awaiting
  /\ At(t, "forwarding") \/ handler[t].reply = "token" => call[t].step = "returned"
  /\ handler[t].step \in {"calling", "forwarding"} =>
       serving /\ exchanges[t].status = "granted"

TypeOK ==
  /\ Client!TypeOK
  /\ \A t \in Task : Auth(t)!TypeOK /\ Consistent(t)
  /\ keys \subseteq App
  /\ handler \in [Task -> Handler]

(* What task t gives its caller, as a reply or as a proxied request. *)
Delivering(t) == At(t, "forwarding") \/ handler[t].reply = "token"

(* What the contract Delegation calls the errand of a task. *)
Errand(t) ==
  LET h == handler[t]
      request == exchanges[t].request
  IN
  CASE h.step = "free" -> [state |-> "none"]
    [] h.step = "calling" -> [state |-> "pending", request |-> request]
    [] h.step = "forwarding" ->
         [state |-> "acting", request |-> request, token |-> call[t].token]
    [] h.step = "answered" /\ h.reply = "token" ->
         [state |-> "token", request |-> request, token |-> call[t].token]
    [] h.step = "answered" /\ h.reply # "token" ->
         [state |-> h.reply, request |-> request]

Errands == [t \in Task |-> Errand(t)]

Promise == INSTANCE Delegation WITH errand <- Errands, MaxAge <- Ttl + 2 * MaxDelay

(* From the bearer token to the token at GitHub: whatever was cached, for whom
   and under which configuration, what a caller gets or makes the proxy use is
   a token of the App and the account asked for that the configuration served
   now lets this caller have. *)
DelegatedTokens ==
  \A t \in Task : Delivering(t) => serving /\ Promise!Due(exchanges[t].request, call[t].token)

(* GitHub still honours the token while the proxied request is under way. *)
ProxyTokenUnexpired ==
  \A t \in Task : At(t, "forwarding") => now < call[t].token.minted_at + Lifetime

(* What the handlers do to the cache and with their calls is what the client
   specifies, whatever else they do: a stop forgets the cache, and no request
   touches it without a call. *)
ImplementsClient == Client!Spec

(* Each task decides as the authorization specifies, whatever the others do, all
   from one configuration that only a restart replaces: \A t \in Task : Auth(t)!Spec. *)
ImplementsAuthorization ==
  /\ \A t \in Task : Auth(t)!Init
  /\ [][\A t \in Task : UNCHANGED Auth(t)!vars \/ Auth(t)!Next]_vars

(* The service as a whole implements the contract: what a caller gets depends on
   the configuration served and on what entitles the caller, and on nothing that
   was cached, granted, signed or asked for before, or is at the same time. *)
ImplementsDelegation == Promise!Spec

(* Every request that is granted is answered some time, also by the proxy, if
   only with an error, unless its caller leaves or the process stops. *)
EveryRequestAnswered ==
  \A t \in Task : At(t, "calling") ~> handler[t].step \in {"free", "answered"}

=============================================================================
