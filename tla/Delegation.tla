----------------------------- MODULE Delegation -----------------------------
(***************************************************************************)
(* What idcat promises the callers of its token endpoints and the owners   *)
(* of GitHub Apps, with no cache, no installation, no private key and no   *)
(* call in sight.  Under the configuration served, a request is turned     *)
(* away exactly if nothing entitles its caller; and what comes of any      *)
(* other one, if it is not an error, is a young token for the App and the  *)
(* account asked for, as wide as what entitles the caller.  With           *)
(* `disable_auth' everybody is entitled to everything.                     *)
(***************************************************************************)
EXTENDS Installations, Sequences

CONSTANTS
  Task,      \* tasks of the server, each serving one request at a time
  Role, Issuer, Value, NoBearer, Config, Bearer,  \* see Authorization
  Epoch,     \* the time of the start
  MaxAge,    \* no token is handed out at this age or older
  Lifetime   \* how long GitHub honours a token

VARIABLES
  now,                            \* the clock
  config, disable_auth, serving,  \* see Authorization
  errand     \* what the last request of each task has come to

process == <<config, disable_auth, serving>>
contract == <<now, process, errand>>

(* What authorization says of a request. *)
Rules == INSTANCE Authorization WITH exchange <- [status |-> "none"]

Nothing == [state |-> "none"]

Init ==
  /\ now = Epoch
  /\ config \in Config /\ disable_auth \in BOOLEAN /\ serving = FALSE
  /\ errand = [t \in Task |-> Nothing]

PoliciesFor(request) == Rules!Policies(config, request.target.kind)

Entitled(request) ==
  /\ Rules!Known(request)
  /\ \/ disable_auth
     \/ /\ request.bearer # NoBearer
        /\ \/ Rules!RoleEntitles(request)
           \/ \E i \in DOMAIN PoliciesFor(request) :
                Rules!PolicyEntitles(PoliciesFor(request)[i], request)

(* A token goes no further than a policy that entitles the caller, unless an
   allowed role does: its permissions, and of repositories the one asked for. *)
Within(policy, request, token) ==
  /\ Rules!PolicyEntitles(policy, request)
  /\ token.permissions = policy.permissions /\ token.permissions # {}
  /\ request.target.kind = "repository" => token.repositories = {request.target.name}

Due(request, token) ==
  /\ token.installation.github_app = request.github_app
  /\ token.installation.account = request.target.owner
  /\ \/ disable_auth
     \/ Rules!RoleEntitles(request)
     \/ \E i \in DOMAIN PoliciesFor(request) : Within(PoliciesFor(request)[i], request, token)

Busy(t) == errand[t].state \in {"pending", "acting"}

(* What the errand of task t becomes. *)
Became(t, states) == errand'[t].state \in states

Arrive(t) ==
  /\ ~Busy(t)
  /\ Became(t, {"pending", "error", "refused"})
  /\ LET request == errand'[t].request IN
       /\ request \in Rules!Request
       /\ Became(t, {"refused"}) <=> ~Entitled(request)
       /\ errand'[t] = [state |-> errand'[t].state, request |-> request]

(* A token, as the reply or, for a repository, to act with at GitHub. *)
Deliver(t) ==
  /\ errand[t].state = "pending"
  /\ Became(t, {"token", "acting"})
  /\ LET request == errand[t].request
         token == errand'[t].token
     IN
       /\ token \in Token
       /\ Due(request, token)
       /\ token.minted_at <= now /\ now < token.minted_at + MaxAge
       /\ Became(t, {"acting"}) => request.target.kind = "repository"
       /\ errand'[t] = [state |-> errand'[t].state, request |-> request, token |-> token]

(* Without a token, or with GitHub's answer to what was done with it. *)
End(t) ==
  /\ Busy(t)
  /\ Became(t, {"error", "relayed"})
  /\ Became(t, {"relayed"}) => errand[t].state = "acting"
  /\ errand'[t] = [state |-> errand'[t].state, request |-> errand[t].request]

Leave(t) ==
  /\ Busy(t)
  /\ errand'[t] = Nothing

Move(t) ==
  /\ serving
  /\ errand' = [errand EXCEPT ![t] = errand'[t]]
  /\ Arrive(t) \/ Deliver(t) \/ End(t) \/ Leave(t)
  /\ UNCHANGED <<now, process>>

Start ==
  /\ Rules!Start
  /\ UNCHANGED <<now, errand>>

Stop ==
  /\ Rules!Stop
  /\ errand' = [t \in Task |-> Nothing]
  /\ UNCHANGED now

Deploy ==
  /\ Rules!Deploy
  /\ UNCHANGED <<now, errand>>

(* No token expires on who acts with it. *)
Tick ==
  /\ now' = now + 1
  /\ \A t \in Task : errand[t].state = "acting" => now' < errand[t].token.minted_at + Lifetime
  /\ UNCHANGED <<process, errand>>

Next ==
  \/ \E t \in Task : Move(t)
  \/ Start \/ Stop \/ Deploy
  \/ Tick

Spec == Init /\ [][Next]_contract

=============================================================================
