------------------------- MODULE GithubClientProofs -------------------------
(***************************************************************************)
(* Theorems of GithubClient for every set of Apps, accounts, requests and  *)
(* wanted keys, and for every clock that LatencyAssumption admits.         *)
(***************************************************************************)
EXTENDS GithubClient, TLAPS

(* The parts of a key callers ask for. *)
LEMMA KeyParts ==
  ASSUME NEW key \in Wanted
  PROVE  /\ key \in InstallationTokenCacheKey
         /\ key.github_app \in App
         /\ key.target \in InstallationTarget
         /\ key.target.owner \in Account
         /\ key.target.kind \in {"repository", "owner"}
         /\ key.target.kind = "repository" => key.target.name \in RepoName
         /\ key.scope.repositories \in {"OnlyRequested", "All"}
         /\ key.scope.permissions \in SUBSET Permission
BY ConstantsAssumption
   DEF InstallationTokenCacheKey, InstallationTarget, TokenScope

(* A call that is over, or has not begun, is well formed. *)
LEMMA IdleCall ==
  /\ Idle \in Call
  /\ Idle.key \in Wanted
  /\ Idle.step = "idle"
  /\ Holding(Idle)
<1>1. (CHOOSE k \in Wanted : TRUE) \in Wanted
  BY ConstantsAssumption
<1>2. Epoch \in Int
  BY TimeAssumption
<1> QED
  BY <1>1, <1>2, KeyParts DEF Idle, Call, Holding

-----------------------------------------------------------------------------
(* TYPE CORRECTNESS *)

(* What TypeOK says of one call. *)
WellFormed(c) == c \in Call /\ c.key \in Wanted /\ Holding(c)

(* A step that leaves the caches and GitHub alone and gives one call a well
   formed record keeps the types. *)
LEMMA OneCallMoves ==
  ASSUME TypeOK, NEW r \in Request, NEW c, WellFormed(c),
         call' = [call EXCEPT ![r] = c],
         UNCHANGED <<now, installation, ids, tokens>>
  PROVE  TypeOK'
<1>1. call' \in [Request -> Call]
  BY DEF TypeOK, WellFormed
<1>2. \A s \in Request : call'[s].key \in Wanted /\ Holding(call'[s])
  BY DEF TypeOK, WellFormed
<1> QED
  BY <1>1, <1>2 DEF TypeOK, Holding, ScopeRefused

(* The fields of a call that moves to another step. *)
LEMMA MovedCall ==
  ASSUME TypeOK, NEW r \in Request, NEW step \in Awaiting
  PROVE  /\ Moved(r, step) \in Call
         /\ Moved(r, step).key = call[r].key
         /\ Moved(r, step).step = step
         /\ Moved(r, step).id = call[r].id
         /\ Moved(r, step).token = call[r].token
         /\ Moved(r, step).jwt = call[r].jwt
         /\ Moved(r, step).sample = call[r].sample
         /\ Moved(r, step).since = now
BY DEF TypeOK, Call, Moved

(* A call that goes on to the token request carries an id, or is refused. *)
LEMMA RequestingCall ==
  ASSUME TypeOK, NEW r \in Request, NEW id \in InstallationId
  PROVE  WellFormed(Requesting(r, id))
<1>1. [Moved(r, "post") EXCEPT !.id = id] \in Call
  BY MovedCall DEF Call, Awaiting
<1>2. CASE ScopeRefused(call[r].key.scope, call[r].key.target)
  BY <1>2, IdleCall DEF Requesting, WellFormed
<1>3. CASE ~ScopeRefused(call[r].key.scope, call[r].key.target)
  <2>1. Requesting(r, id) = [Moved(r, "post") EXCEPT !.id = id]
    BY <1>3 DEF Requesting
  <2>2. /\ Requesting(r, id).key = call[r].key
        /\ Requesting(r, id).step = "post"
        /\ Requesting(r, id).id = id
    BY <2>1, MovedCall DEF Call, Awaiting
  <2> QED
    BY <1>1, <1>3, <2>1, <2>2 DEF WellFormed, Holding, TypeOK
<1> QED
  BY <1>2, <1>3

(* A call to which GitHub has named the current installation. *)
LEMMA FoundCall ==
  ASSUME TypeOK, NEW r \in Request, NEW id \in InstallationId
  PROVE  WellFormed(Found(r, id))
<1>1. Found(r, id) \in Call
  BY MovedCall DEF Found, Call, Awaiting
<1>2. /\ Found(r, id).key = call[r].key
      /\ Found(r, id).step = "insert_id"
      /\ Found(r, id).id = id
  BY MovedCall DEF Found, Call, Awaiting
<1> QED
  BY <1>1, <1>2 DEF WellFormed, Holding, TypeOK

LEMMA CurrentIdType ==
  ASSUME TypeOK, NEW r \in Request
  PROVE  CurrentId(call[r].key.github_app, call[r].key.target.owner) \in InstallationId
BY KeyParts DEF TypeOK, CurrentId, InstallationId

(* A call that hands out a token. *)
LEMMA ReturnedCall ==
  ASSUME TypeOK, NEW r \in Request, NEW token \in Token
  PROVE  /\ WellFormed(Returned(r, token))
         /\ Returned(r, token).step = "returned"
         /\ Returned(r, token).key = call[r].key
         /\ Returned(r, token).token = token
         /\ Returned(r, token).since = now
<1>1. Returned(r, token) \in Call
  BY IdleCall DEF Returned, Call, TypeOK
<1>2. /\ Returned(r, token).step = "returned"
      /\ Returned(r, token).key = call[r].key
      /\ Returned(r, token).token = token
      /\ Returned(r, token).since = now
  BY IdleCall DEF Returned, Call
<1> QED
  BY <1>1, <1>2 DEF WellFormed, Holding, TypeOK

(* The body of a token request that is built names repositories of the model. *)
LEMMA RequestedType ==
  ASSUME NEW key \in Wanted, ~ScopeRefused(key.scope, key.target)
  PROVE  RequestedRepositories(key.scope, key.target) \in SUBSET RepoName
BY KeyParts DEF ScopeRefused, RequestedRepositories

LEMMA InitTyped == Init => TypeOK
<1> SUFFICES ASSUME Init PROVE TypeOK
  OBVIOUS
<1>1. now \in Int
  BY TimeAssumption DEF Init
<1>2. installation \in [App \X Account -> Nat]
  BY DEF Init
<1>3. ids = {} /\ tokens = {}
  BY DEF Init
<1>4. call \in [Request -> Call] /\ \A r \in Request : call[r] = Idle
  BY IdleCall DEF Init
<1> QED
  BY <1>1, <1>2, <1>3, <1>4, IdleCall DEF TypeOK

LEMMA NextTyped == TypeOK /\ [Next]_vars => TypeOK'
<1> SUFFICES ASSUME TypeOK, [Next]_vars PROVE TypeOK'
  OBVIOUS
<1>1. ASSUME NEW r \in Request, NEW key \in Wanted, Create(r, key) PROVE TypeOK'
  <2> DEFINE c == [Idle EXCEPT !.step = "lock_tokens", !.key = key, !.since = now,
                               !.sample = now]
  <2>1. c \in Call /\ c.key = key /\ c.step = "lock_tokens"
    BY IdleCall, KeyParts DEF Call, Awaiting, TypeOK
  <2>2. WellFormed(c)
    BY <2>1 DEF WellFormed, Holding
  <2> QED
    BY <1>1, <2>2, OneCallMoves DEF Create
<1>2. ASSUME NEW r \in Request, UseCachedToken(r) PROVE TypeOK'
  <2>1. PICK e \in FreshEntries(call[r].key, call[r].sample) :
          call' = [call EXCEPT ![r] = Returned(r, e.token)]
    BY <1>2 DEF UseCachedToken
  <2>2. e.token \in Token
    BY <2>1 DEF FreshEntries, EntriesOf, TypeOK
  <2> QED
    BY <1>2, <2>1, <2>2, ReturnedCall, OneCallMoves DEF UseCachedToken
<1>3. ASSUME NEW r \in Request, BuildJwt(r) PROVE TypeOK'
  <2> DEFINE c == [Moved(r, "sign") EXCEPT !.jwt = now]
  <2>1. c \in Call /\ c.key = call[r].key /\ c.step = "sign"
    BY MovedCall DEF Call, Awaiting, TypeOK
  <2>2. WellFormed(c)
    BY <2>1 DEF WellFormed, Holding, TypeOK
  <2> QED
    BY <1>3, <2>2, OneCallMoves DEF BuildJwt
<1>4. ASSUME NEW r \in Request, Sign(r) PROVE TypeOK'
  <2>1. WellFormed(Moved(r, "lock_ids"))
    BY MovedCall DEF WellFormed, Holding, TypeOK, Awaiting
  <2> QED
    BY <1>4, <2>1, OneCallMoves DEF Sign
<1>5. ASSUME NEW r \in Request, UseCachedId(r) PROVE TypeOK'
  <2>1. PICK e \in CachedIds(call[r].key.github_app, call[r].key.target) :
          call' = [call EXCEPT ![r] = Requesting(r, e.id)]
    BY <1>5 DEF UseCachedId
  <2>2. e.id \in InstallationId
    BY <2>1 DEF CachedIds, TypeOK
  <2> QED
    BY <1>5, <2>1, <2>2, RequestingCall, OneCallMoves DEF UseCachedId
<1>6. ASSUME NEW r \in Request, LookUpId(r) PROVE TypeOK'
  <2>1. /\ WellFormed(Moved(r, "get_repository"))
        /\ WellFormed(Moved(r, "get_organization"))
    BY MovedCall DEF WellFormed, Holding, TypeOK, Awaiting
  <2> QED
    BY <1>6, <2>1, OneCallMoves DEF LookUpId
<1>7. ASSUME NEW r \in Request, CacheId(r) PROVE TypeOK'
  <2>1. call[r].id \in InstallationId
    BY <1>7 DEF CacheId, At, TypeOK, Holding
  <2>2. WellFormed(Requesting(r, call[r].id))
    BY <2>1, RequestingCall
  <2>3. call' \in [Request -> Call]
    BY <1>7, <2>2 DEF CacheId, TypeOK, WellFormed
  <2>4. \A s \in Request : call'[s].key \in Wanted /\ Holding(call'[s])
    BY <1>7, <2>2 DEF CacheId, TypeOK, WellFormed
  <2>5. ids' \subseteq [cache_key : {IdCacheKey(k.github_app, k.target) : k \in Wanted},
                        id : InstallationId]
    BY <1>7, <2>1 DEF CacheId, InsertId, TypeOK
  <2> QED
    BY <1>7, <2>3, <2>4, <2>5 DEF CacheId, TypeOK, Holding, ScopeRefused
<1>8. ASSUME NEW r \in Request, Receive(r) PROVE TypeOK'
  <2> DEFINE c == [Moved(r, "insert_token") EXCEPT !.sample = now]
  <2>1. Moved(r, "insert_token") \in Call
    BY MovedCall DEF Awaiting
  <2>2. c \in Call
    BY <2>1 DEF Call, TypeOK
  <2>3. c.key = call[r].key /\ c.step = "insert_token" /\ c.token = call[r].token
    BY <2>1, MovedCall DEF Call, Awaiting
  <2>4. WellFormed(c)
    BY <1>8, <2>2, <2>3 DEF WellFormed, Holding, TypeOK, Receive, At
  <2> QED
    BY <1>8, <2>4, OneCallMoves DEF Receive
<1>9. ASSUME NEW r \in Request, CacheToken(r) PROVE TypeOK'
  <2>1. call[r].token \in Token
    BY <1>9 DEF CacheToken, At, TypeOK, Holding
  <2>2. WellFormed(Returned(r, call[r].token))
    BY <2>1, ReturnedCall
  <2>3. call' \in [Request -> Call]
    BY <1>9, <2>2 DEF CacheToken, TypeOK, WellFormed
  <2>4. \A s \in Request : call'[s].key \in Wanted /\ Holding(call'[s])
    BY <1>9, <2>2 DEF CacheToken, TypeOK, WellFormed
  <2>5. call[r].sample + Ttl \in Int
    BY TimeAssumption DEF TypeOK, Call
  <2>6. tokens' \subseteq [key : Wanted, token : Token, refresh_after : Int]
    BY <1>9, <2>1, <2>5 DEF CacheToken, InsertToken, RefreshAfter, EntriesOf, TypeOK
  <2> QED
    BY <1>9, <2>3, <2>4, <2>6 DEF CacheToken, TypeOK, Holding, ScopeRefused
<1>10. ASSUME NEW r \in Request, AnswerRepository(r) \/ AnswerUser(r) PROVE TypeOK'
  BY <1>10, IdleCall, FoundCall, CurrentIdType, OneCallMoves
     DEF AnswerRepository, AnswerUser, WellFormed
<1>11. ASSUME NEW r \in Request, AnswerOrganization(r) PROVE TypeOK'
  <2>1. WellFormed(Moved(r, "get_user"))
    BY MovedCall DEF WellFormed, Holding, TypeOK, Awaiting
  <2>2. WellFormed(Idle)
    BY IdleCall DEF WellFormed
  <2> QED
    BY <1>11, <2>1, <2>2, FoundCall, CurrentIdType, OneCallMoves DEF AnswerOrganization
<1>12. ASSUME NEW r \in Request, Mint(r) PROVE TypeOK'
  <2> DEFINE token == [installation |-> call[r].id,
                       repositories |-> RequestedRepositories(call[r].key.scope,
                                                              call[r].key.target),
                       permissions |-> call[r].key.scope.permissions,
                       minted_at |-> now]
             c == [Moved(r, "reply") EXCEPT !.token = token]
  <2>1. call[r].id \in InstallationId /\ ~ScopeRefused(call[r].key.scope, call[r].key.target)
    BY <1>12 DEF Mint, At, TypeOK, Holding
  <2>2. token \in Token
    BY <2>1, KeyParts, RequestedType DEF Token, TypeOK
  <2>3. c \in Call /\ c.key = call[r].key /\ c.step = "reply" /\ c.token = token
    BY <2>2, MovedCall DEF Call, Awaiting
  <2>4. WellFormed(c) /\ WellFormed(Idle)
    BY <2>2, <2>3, IdleCall DEF WellFormed, Holding, TypeOK
  <2> QED
    BY <1>12, <2>4, OneCallMoves DEF Mint
<1>13. ASSUME NEW r \in Request, Fail(r) \/ Cancel(r) PROVE TypeOK'
  BY <1>13, IdleCall, OneCallMoves DEF Fail, Cancel, WellFormed
<1>14. ASSUME NEW app \in App, NEW account \in Account, Change(app, account) PROVE TypeOK'
  BY <1>14 DEF Change, TypeOK, Holding, ScopeRefused
<1>15. CASE Restart
  BY <1>15, IdleCall DEF Restart, TypeOK, Holding, ScopeRefused
<1>16. CASE Tick
  BY <1>16 DEF Tick, TypeOK, Holding, ScopeRefused
<1>17. CASE UNCHANGED vars
  BY <1>17 DEF vars, TypeOK, Holding, ScopeRefused
<1> QED
  BY <1>1, <1>2, <1>3, <1>4, <1>5, <1>6, <1>7, <1>8, <1>9, <1>10, <1>11, <1>12, <1>13,
     <1>14, <1>15, <1>16, <1>17 DEF Next, Progress

(* The caches and the calls hold what the code's types and steps say. *)
THEOREM TypeCorrect == Spec => []TypeOK
BY InitTyped, NextTyped, PTL DEF Spec

-----------------------------------------------------------------------------
(* ISOLATION *)

(***************************************************************************)
(* Isolation alone is not inductive: the token GitHub mints belongs to the *)
(* App and the account of the key because the id it is minted for does,    *)
(* and that id may come from the id cache.                                 *)
(***************************************************************************)
IsolationInv == TypeOK /\ IdsBelong /\ Isolation

(* What IsolationInv says of one call. *)
Belongs(c) ==
  /\ c.step \in {"insert_id", "post"} =>
       c.id.github_app = c.key.github_app /\ c.id.account = c.key.target.owner
  /\ c.step \in {"reply", "insert_token", "returned"} => Fits(c.token, c.key)

(* What it says of the caches. *)
IdEntryBelongs(e) == e.id.github_app = e.cache_key[1] /\ e.id.account = e.cache_key[3]

LEMMA IsolationParts ==
  (IdsBelong /\ Isolation)
    <=> /\ \A e \in ids : IdEntryBelongs(e)
        /\ \A e \in tokens : Fits(e.token, e.key)
        /\ \A r \in Request : Belongs(call[r])
BY DEF IdsBelong, Isolation, Belongs, IdEntryBelongs

LEMMA IsolationPartsNext ==
  (IdsBelong /\ Isolation)'
    <=> /\ \A e \in ids' : IdEntryBelongs(e)
        /\ \A e \in tokens' : Fits(e.token, e.key)
        /\ \A r \in Request : Belongs(call'[r])
BY DEF IdsBelong, Isolation, Belongs, IdEntryBelongs, Fits, FitsRepositories

(* A step of one call that leaves the caches alone. *)
LEMMA OneCallBelongs ==
  ASSUME TypeOK, IdsBelong, Isolation,
         NEW r \in Request, NEW c, Belongs(c),
         call' = [call EXCEPT ![r] = c], UNCHANGED <<ids, tokens>>
  PROVE  (IdsBelong /\ Isolation)'
<1>1. \A s \in Request : call'[s] = IF s = r THEN c ELSE call[s]
  BY DEF TypeOK
<1> QED
  BY <1>1, IsolationParts, IsolationPartsNext

LEMMA IdleBelongs == Belongs(Idle)
BY IdleCall DEF Belongs

(* The key of the id cache names the App first and the account third. *)
LEMMA IdCacheKeyParts ==
  ASSUME NEW app, NEW target
  PROVE  /\ IdCacheKey(app, target)[1] = app
         /\ IdCacheKey(app, target)[3] = target.owner
BY DEF IdCacheKey

LEMMA RequestingBelongs ==
  ASSUME TypeOK, NEW r \in Request, NEW id \in InstallationId,
         id.github_app = call[r].key.github_app,
         id.account = call[r].key.target.owner
  PROVE  Belongs(Requesting(r, id))
<1>1. CASE ScopeRefused(call[r].key.scope, call[r].key.target)
  BY <1>1, IdleBelongs DEF Requesting
<1>2. CASE ~ScopeRefused(call[r].key.scope, call[r].key.target)
  <2>1. Requesting(r, id) = [Moved(r, "post") EXCEPT !.id = id]
    BY <1>2 DEF Requesting
  <2>2. /\ Requesting(r, id).key = call[r].key
        /\ Requesting(r, id).step = "post"
        /\ Requesting(r, id).id = id
    BY <2>1, MovedCall DEF Call, Awaiting
  <2> QED
    BY <2>2 DEF Belongs
<1> QED
  BY <1>1, <1>2

(* The current installation of the App and the account the key names. *)
LEMMA FoundBelongs ==
  ASSUME TypeOK, NEW r \in Request
  PROVE  Belongs(Found(r, CurrentId(call[r].key.github_app, call[r].key.target.owner)))
<1> DEFINE id == CurrentId(call[r].key.github_app, call[r].key.target.owner)
<1>1. id \in InstallationId
  BY CurrentIdType
<1>2. /\ id.github_app = call[r].key.github_app
      /\ id.account = call[r].key.target.owner
  BY DEF CurrentId
<1>3. /\ Found(r, id).key = call[r].key
      /\ Found(r, id).step = "insert_id"
      /\ Found(r, id).id = id
  BY <1>1, MovedCall DEF Found, Call, Awaiting
<1> QED
  BY <1>2, <1>3 DEF Belongs

LEMMA InitIsolated == Init => IdsBelong /\ Isolation
<1> SUFFICES ASSUME Init PROVE IdsBelong /\ Isolation
  OBVIOUS
<1>1. ids = {} /\ tokens = {} /\ \A r \in Request : call[r] = Idle
  BY DEF Init
<1> QED
  BY <1>1, IdleBelongs, IsolationParts

LEMMA NextIsolated == IsolationInv /\ [Next]_vars => (IdsBelong /\ Isolation)'
<1> SUFFICES ASSUME TypeOK, IdsBelong, Isolation, [Next]_vars
             PROVE  (IdsBelong /\ Isolation)'
  BY DEF IsolationInv
<1>1. ASSUME NEW r \in Request, NEW key \in Wanted, Create(r, key)
      PROVE  (IdsBelong /\ Isolation)'
  <2> DEFINE c == [Idle EXCEPT !.step = "lock_tokens", !.key = key, !.since = now,
                               !.sample = now]
  <2>1. c.step = "lock_tokens"
    BY IdleCall DEF Call
  <2>2. Belongs(c)
    BY <2>1 DEF Belongs
  <2> QED
    BY <1>1, <2>2, OneCallBelongs DEF Create
<1>2. ASSUME NEW r \in Request, UseCachedToken(r) PROVE (IdsBelong /\ Isolation)'
  <2>1. PICK e \in FreshEntries(call[r].key, call[r].sample) :
          call' = [call EXCEPT ![r] = Returned(r, e.token)]
    BY <1>2 DEF UseCachedToken
  <2>2. e \in tokens /\ e.key = call[r].key
    BY <2>1 DEF FreshEntries, EntriesOf
  <2>3. e.token \in Token /\ Fits(e.token, call[r].key)
    BY <2>2 DEF TypeOK, Isolation
  <2>4. Belongs(Returned(r, e.token))
    BY <2>3, ReturnedCall DEF Belongs
  <2> QED
    BY <1>2, <2>1, <2>4, OneCallBelongs DEF UseCachedToken
<1>3. ASSUME NEW r \in Request, BuildJwt(r) PROVE (IdsBelong /\ Isolation)'
  <2> DEFINE c == [Moved(r, "sign") EXCEPT !.jwt = now]
  <2>1. c.step = "sign"
    BY MovedCall DEF Call, Awaiting
  <2>2. Belongs(c)
    BY <2>1 DEF Belongs
  <2> QED
    BY <1>3, <2>2, OneCallBelongs DEF BuildJwt
<1>4. ASSUME NEW r \in Request, Sign(r) \/ LookUpId(r) PROVE (IdsBelong /\ Isolation)'
  <2>1. \A step \in {"lock_ids", "get_repository", "get_organization"} :
          Belongs(Moved(r, step))
    BY MovedCall DEF Belongs, Awaiting
  <2> QED
    BY <1>4, <2>1, OneCallBelongs DEF Sign, LookUpId
<1>5. ASSUME NEW r \in Request, UseCachedId(r) PROVE (IdsBelong /\ Isolation)'
  <2>1. PICK e \in CachedIds(call[r].key.github_app, call[r].key.target) :
          call' = [call EXCEPT ![r] = Requesting(r, e.id)]
    BY <1>5 DEF UseCachedId
  <2>2. /\ e \in ids
        /\ e.cache_key = IdCacheKey(call[r].key.github_app, call[r].key.target)
        /\ e.id \in InstallationId
    BY <2>1 DEF CachedIds, TypeOK
  <2>3. /\ e.id.github_app = call[r].key.github_app
        /\ e.id.account = call[r].key.target.owner
    BY <2>2, IdCacheKeyParts DEF IdsBelong
  <2> QED
    BY <1>5, <2>1, <2>2, <2>3, RequestingBelongs, OneCallBelongs DEF UseCachedId
<1>6. ASSUME NEW r \in Request, CacheId(r) PROVE (IdsBelong /\ Isolation)'
  <2>1. /\ call[r].id \in InstallationId
        /\ call[r].id.github_app = call[r].key.github_app
        /\ call[r].id.account = call[r].key.target.owner
    BY <1>6 DEF CacheId, At, TypeOK, Holding, IdsBelong
  <2> DEFINE e == [cache_key |-> IdCacheKey(call[r].key.github_app, call[r].key.target),
                   id |-> call[r].id]
  <2>2. IdEntryBelongs(e)
    BY <2>1, IdCacheKeyParts DEF IdEntryBelongs
  <2>3. \A f \in ids' : IdEntryBelongs(f)
    BY <1>6, <2>2, IsolationParts DEF CacheId, InsertId
  <2>4. Belongs(Requesting(r, call[r].id))
    BY <2>1, RequestingBelongs
  <2>5. \A s \in Request : Belongs(call'[s])
    BY <1>6, <2>4, IsolationParts DEF CacheId, TypeOK
  <2> QED
    BY <1>6, <2>3, <2>5, IsolationParts, IsolationPartsNext DEF CacheId
<1>7. ASSUME NEW r \in Request, Receive(r) PROVE (IdsBelong /\ Isolation)'
  <2> DEFINE c == [Moved(r, "insert_token") EXCEPT !.sample = now]
  <2>1. c.key = call[r].key /\ c.step = "insert_token" /\ c.token = call[r].token
    BY MovedCall DEF Call, Awaiting
  <2>2. Belongs(c)
    BY <1>7, <2>1 DEF Receive, At, Belongs, Isolation
  <2> QED
    BY <1>7, <2>2, OneCallBelongs DEF Receive
<1>8. ASSUME NEW r \in Request, CacheToken(r) PROVE (IdsBelong /\ Isolation)'
  <2>1. call[r].token \in Token /\ Fits(call[r].token, call[r].key)
    BY <1>8 DEF CacheToken, At, TypeOK, Holding, Isolation
  <2>2. \A e \in tokens' : Fits(e.token, e.key)
    BY <1>8, <2>1, IsolationParts DEF CacheToken, InsertToken
  <2>3. Belongs(Returned(r, call[r].token))
    BY <2>1, ReturnedCall DEF Belongs
  <2>4. \A s \in Request : Belongs(call'[s])
    BY <1>8, <2>3, IsolationParts DEF CacheToken, TypeOK
  <2> QED
    BY <1>8, <2>2, <2>4, IsolationParts, IsolationPartsNext DEF CacheToken
<1>9. ASSUME NEW r \in Request,
             AnswerRepository(r) \/ AnswerOrganization(r) \/ AnswerUser(r)
      PROVE  (IdsBelong /\ Isolation)'
  <2>1. Belongs(Moved(r, "get_user"))
    BY MovedCall DEF Belongs, Awaiting
  <2> QED
    BY <1>9, <2>1, IdleBelongs, FoundBelongs, OneCallBelongs
       DEF AnswerRepository, AnswerOrganization, AnswerUser
<1>10. ASSUME NEW r \in Request, Mint(r) PROVE (IdsBelong /\ Isolation)'
  <2> DEFINE key == call[r].key
             token == [installation |-> call[r].id,
                       repositories |-> RequestedRepositories(key.scope, key.target),
                       permissions |-> key.scope.permissions,
                       minted_at |-> now]
             c == [Moved(r, "reply") EXCEPT !.token = token]
  <2>1. /\ call[r].id.github_app = key.github_app
        /\ call[r].id.account = key.target.owner
        /\ ~ScopeRefused(key.scope, key.target)
    BY <1>10 DEF Mint, At, TypeOK, Holding, IdsBelong
  <2>2. key \in Wanted
    BY DEF TypeOK
  <2>3. FitsRepositories(token, key)
    BY <2>1, <2>2, KeyParts DEF FitsRepositories, RequestedRepositories, ScopeRefused
  <2>4. Fits(token, key)
    BY <2>1, <2>3 DEF Fits
  <2>5. c.key = key /\ c.step = "reply" /\ c.token = token
    BY MovedCall DEF Call, Awaiting
  <2>6. Belongs(c)
    BY <2>4, <2>5 DEF Belongs
  <2> QED
    BY <1>10, <2>6, IdleBelongs, OneCallBelongs DEF Mint
<1>11. ASSUME NEW r \in Request, Fail(r) \/ Cancel(r) PROVE (IdsBelong /\ Isolation)'
  BY <1>11, IdleBelongs, OneCallBelongs DEF Fail, Cancel
<1>12. CASE Restart
  BY <1>12, IdleBelongs, IsolationPartsNext DEF Restart
<1>13. CASE \/ \E app \in App, account \in Account : Change(app, account)
            \/ Tick
            \/ UNCHANGED vars
  BY <1>13, IsolationParts, IsolationPartsNext DEF Change, Tick, vars
<1> QED
  BY <1>1, <1>2, <1>3, <1>4, <1>5, <1>6, <1>7, <1>8, <1>9, <1>10, <1>11, <1>12, <1>13
     DEF Next, Progress

LEMMA IsolationInvariant == Spec => []IsolationInv
<1>1. Init => IsolationInv
  BY InitTyped, InitIsolated DEF IsolationInv
<1>2. IsolationInv /\ [Next]_vars => IsolationInv'
  BY NextTyped, NextIsolated DEF IsolationInv
<1> QED
  BY <1>1, <1>2, PTL DEF Spec

(* Every cached or carried installation id belongs to the App and the account
   it is kept for. *)
THEOREM IdsAlwaysBelong == Spec => []IdsBelong
<1>1. IsolationInv => IdsBelong
  BY DEF IsolationInv
<1> QED
  BY <1>1, IsolationInvariant, PTL

(* No call is ever given a token of another App, account, repository or
   permission than it asked for, through whatever cache entry. *)
THEOREM TokensAreIsolated == Spec => []Isolation
<1>1. IsolationInv => Isolation
  BY DEF IsolationInv
<1> QED
  BY <1>1, IsolationInvariant, PTL

-----------------------------------------------------------------------------
(* FRESHNESS *)

TimeInv == TypeOK /\ Timely

(* What Timely says of one call at time t. *)
Aged(c, t) ==
  /\ c.step \in Awaiting => c.since <= t /\ t <= c.since + MaxDelay
  /\ JwtAge(c)
  /\ TokenAge(c)

LEMMA TimeConstants ==
  /\ Ttl \in Int /\ Ttl > 0
  /\ MaxDelay \in Int /\ MaxDelay >= 0
  /\ Lifetime \in Int /\ JwtTtl \in Int /\ JwtLimit \in Int /\ Drift \subseteq Int
  /\ ClockSkew \in Int /\ ClockSkew >= 0
  /\ Epoch \in Int /\ Epoch >= ClockSkew
BY TimeAssumption

LEMMA TimelyParts ==
  Timely <=> /\ Epoch <= now
             /\ \A r \in Request : Aged(call[r], now)
             /\ \A e \in tokens : EntryAge(e)
BY DEF Timely, AwaitsAreShort, Aged

LEMMA TimelyPartsNext ==
  Timely' <=> /\ Epoch <= now'
              /\ \A r \in Request : Aged(call'[r], now')
              /\ \A e \in tokens' : EntryAge(e)'
BY DEF Timely, AwaitsAreShort, Aged, JwtAge, TokenAge

(* The times of a call are integers. *)
LEMMA CallTimes ==
  ASSUME TypeOK, NEW r \in Request
  PROVE  /\ now \in Int
         /\ call[r].since \in Int /\ call[r].sample \in Int /\ call[r].jwt \in Int
         /\ call[r].token \in Token => call[r].token.minted_at \in Int
BY DEF TypeOK, Call, Token

(* A step of one call that leaves the clock and the token cache alone. *)
LEMMA OneCallAges ==
  ASSUME TypeOK, Timely, NEW r \in Request, NEW c, Aged(c, now),
         call' = [call EXCEPT ![r] = c], UNCHANGED <<now, tokens>>
  PROVE  Timely'
<1>1. \A s \in Request : call'[s] = IF s = r THEN c ELSE call[s]
  BY DEF TypeOK
<1>2. \A e \in tokens' : EntryAge(e)'
  BY DEF Timely, EntryAge
<1> QED
  BY <1>1, <1>2, TimelyParts, TimelyPartsNext

LEMMA IdleAged == ASSUME NEW t PROVE Aged(Idle, t)
BY IdleCall DEF Aged, JwtAge, TokenAge, Awaiting

(* A token handed out now is young enough: that is all a returned call claims. *)
LEMMA ReturnedAged ==
  ASSUME TypeOK, NEW r \in Request, NEW token \in Token,
         token.minted_at <= now, now < token.minted_at + Ttl + 2 * MaxDelay
  PROVE  Aged(Returned(r, token), now)
BY ReturnedCall DEF Aged, JwtAge, TokenAge, Awaiting

(* The token request goes out at most five awaits after the JWT was issued. *)
LEMMA RequestingAged ==
  ASSUME TypeOK, NEW r \in Request, NEW id \in InstallationId,
         Epoch <= call[r].jwt, call[r].jwt <= now, now <= call[r].jwt + 5 * MaxDelay
  PROVE  Aged(Requesting(r, id), now)
<1>1. CASE ScopeRefused(call[r].key.scope, call[r].key.target)
  BY <1>1, IdleAged DEF Requesting
<1>2. CASE ~ScopeRefused(call[r].key.scope, call[r].key.target)
  <2> DEFINE c == Requesting(r, id)
  <2>1. c = [Moved(r, "post") EXCEPT !.id = id]
    BY <1>2 DEF Requesting
  <2>2. c.step = "post" /\ c.since = now /\ c.jwt = call[r].jwt
    BY <2>1, MovedCall DEF Call, Awaiting
  <2>3. now \in Int
    BY CallTimes
  <2> QED
    BY <2>2, <2>3, TimeConstants DEF Aged, JwtAge, TokenAge
<1> QED
  BY <1>1, <1>2

(* So does the answer to a lookup, at most four awaits after. *)
LEMMA FoundAged ==
  ASSUME TypeOK, NEW r \in Request, NEW id \in InstallationId,
         Epoch <= call[r].jwt, call[r].jwt <= now, now <= call[r].jwt + 4 * MaxDelay
  PROVE  Aged(Found(r, id), now)
<1> DEFINE c == Found(r, id)
<1>1. c.step = "insert_id" /\ c.since = now /\ c.jwt = call[r].jwt
  BY MovedCall DEF Found, Call, Awaiting
<1>2. now \in Int
  BY CallTimes
<1> QED
  BY <1>1, <1>2, TimeConstants DEF Aged, JwtAge, TokenAge

LEMMA InitTimely == Init => Timely
<1> SUFFICES ASSUME Init PROVE Timely
  OBVIOUS
<1>1. now = Epoch /\ tokens = {} /\ \A r \in Request : call[r] = Idle
  BY DEF Init
<1> QED
  BY <1>1, IdleAged, TimelyParts, TimeConstants

LEMMA NextTimely == TimeInv /\ [Next]_vars => Timely'
<1> SUFFICES ASSUME TypeOK, Timely, [Next]_vars PROVE Timely'
  BY DEF TimeInv
<1> USE TimeConstants
<1>1. ASSUME NEW r \in Request, NEW key \in Wanted, Create(r, key) PROVE Timely'
  <2> DEFINE c == [Idle EXCEPT !.step = "lock_tokens", !.key = key, !.since = now,
                               !.sample = now]
  <2>1. c.step = "lock_tokens" /\ c.since = now /\ c.sample = now
    BY IdleCall DEF Call
  <2>2. Aged(c, now)
    BY <2>1 DEF Aged, JwtAge, TokenAge, TypeOK
  <2> QED
    BY <1>1, <2>2, OneCallAges DEF Create
<1>2. ASSUME NEW r \in Request, UseCachedToken(r) PROVE Timely'
  <2>1. PICK e \in FreshEntries(call[r].key, call[r].sample) :
          call' = [call EXCEPT ![r] = Returned(r, e.token)]
    BY <1>2 DEF UseCachedToken
  <2>2. /\ e \in tokens /\ e.refresh_after > call[r].sample
        /\ e.token \in Token /\ e.token.minted_at \in Int /\ e.refresh_after \in Int
    BY <2>1 DEF FreshEntries, EntriesOf, TypeOK, Token
  <2>3. EntryAge(e) /\ call[r].sample = call[r].since /\ now <= call[r].since + MaxDelay
    BY <1>2, <2>2, TimelyParts DEF UseCachedToken, At, Aged, TokenAge, Awaiting
  <2>4. now < e.token.minted_at + Ttl + 2 * MaxDelay /\ e.token.minted_at <= now
    BY <2>2, <2>3, CallTimes DEF EntryAge
  <2> QED
    BY <1>2, <2>1, <2>2, <2>4, ReturnedAged, OneCallAges DEF UseCachedToken
<1>3. ASSUME NEW r \in Request, BuildJwt(r) PROVE Timely'
  <2> DEFINE c == [Moved(r, "sign") EXCEPT !.jwt = now]
  <2>1. c.step = "sign" /\ c.since = now /\ c.jwt = now
    BY MovedCall DEF Call, Awaiting
  <2>2. Aged(c, now)
    BY <2>1, TimelyParts DEF Aged, JwtAge, TokenAge, TypeOK
  <2> QED
    BY <1>3, <2>2, OneCallAges DEF BuildJwt
<1>4. ASSUME NEW r \in Request, Sign(r) PROVE Timely'
  <2> DEFINE c == Moved(r, "lock_ids")
  <2>1. c.step = "lock_ids" /\ c.since = now /\ c.jwt = call[r].jwt
    BY MovedCall DEF Awaiting
  <2>2. call[r].jwt = call[r].since /\ Epoch <= call[r].jwt
    BY <1>4, TimelyParts, CallTimes DEF Sign, At, Aged, JwtAge
  <2>3. call[r].since <= now /\ now <= call[r].since + MaxDelay
    BY <1>4, TimelyParts DEF Sign, At, Aged, Awaiting
  <2>4. Aged(c, now)
    BY <2>1, <2>2, <2>3, CallTimes DEF Aged, JwtAge, TokenAge
  <2> QED
    BY <1>4, <2>4, OneCallAges DEF Sign
<1>5. ASSUME NEW r \in Request, UseCachedId(r) PROVE Timely'
  <2>1. PICK e \in CachedIds(call[r].key.github_app, call[r].key.target) :
          call' = [call EXCEPT ![r] = Requesting(r, e.id)]
    BY <1>5 DEF UseCachedId
  <2>2. e.id \in InstallationId
    BY <2>1 DEF CachedIds, TypeOK
  <2>3. /\ Epoch <= call[r].jwt /\ call[r].jwt <= call[r].since
        /\ call[r].since <= call[r].jwt + MaxDelay
        /\ call[r].since <= now /\ now <= call[r].since + MaxDelay
    BY <1>5, TimelyParts DEF UseCachedId, At, Aged, JwtAge, Awaiting
  <2>4. call[r].jwt <= now /\ now <= call[r].jwt + 5 * MaxDelay
    BY <2>3, CallTimes
  <2> QED
    BY <1>5, <2>1, <2>2, <2>3, <2>4, RequestingAged, OneCallAges DEF UseCachedId
<1>6. ASSUME NEW r \in Request, LookUpId(r) PROVE Timely'
  <2>1. /\ Epoch <= call[r].jwt /\ call[r].jwt <= call[r].since
        /\ call[r].since <= call[r].jwt + MaxDelay
        /\ call[r].since <= now /\ now <= call[r].since + MaxDelay
    BY <1>6, TimelyParts DEF LookUpId, At, Aged, JwtAge, Awaiting
  <2>2. ASSUME NEW step \in {"get_repository", "get_organization"}
        PROVE  Aged(Moved(r, step), now)
    <3>1. /\ Moved(r, step).step = step /\ Moved(r, step).since = now
          /\ Moved(r, step).jwt = call[r].jwt
      BY MovedCall DEF Awaiting
    <3> QED
      BY <2>1, <3>1, CallTimes DEF Aged, JwtAge, TokenAge
  <2> QED
    BY <1>6, <2>2, OneCallAges DEF LookUpId
<1>7. ASSUME NEW r \in Request, CacheId(r) PROVE Timely'
  <2>1. call[r].id \in InstallationId
    BY <1>7 DEF CacheId, At, TypeOK, Holding
  <2>2. /\ Epoch <= call[r].jwt /\ call[r].jwt <= call[r].since
        /\ call[r].since <= call[r].jwt + 4 * MaxDelay
        /\ call[r].since <= now /\ now <= call[r].since + MaxDelay
    BY <1>7, TimelyParts DEF CacheId, At, Aged, JwtAge, Awaiting
  <2>3. call[r].jwt <= now /\ now <= call[r].jwt + 5 * MaxDelay
    BY <2>2, CallTimes
  <2> QED
    BY <1>7, <2>1, <2>2, <2>3, RequestingAged, OneCallAges DEF CacheId
<1>8. ASSUME NEW r \in Request,
             AnswerRepository(r) \/ AnswerOrganization(r) \/ AnswerUser(r)
      PROVE  Timely'
  <2> DEFINE id == CurrentId(call[r].key.github_app, call[r].key.target.owner)
  <2>1. /\ Epoch <= call[r].jwt /\ call[r].jwt <= call[r].since
        /\ call[r].since <= call[r].jwt + 3 * MaxDelay
        /\ call[r].since <= now /\ now <= call[r].since + MaxDelay
    BY <1>8, TimelyParts, CallTimes
       DEF AnswerRepository, AnswerOrganization, AnswerUser, At, Aged, JwtAge, Awaiting
  <2>2. Aged(Found(r, id), now)
    BY <2>1, CurrentIdType, CallTimes, FoundAged
  <2>3. ASSUME At(r, "get_organization") PROVE Aged(Moved(r, "get_user"), now)
    <3>1. call[r].since <= call[r].jwt + 2 * MaxDelay
      BY <2>3, TimelyParts DEF At, Aged, JwtAge
    <3>2. /\ Moved(r, "get_user").step = "get_user" /\ Moved(r, "get_user").since = now
          /\ Moved(r, "get_user").jwt = call[r].jwt
      BY MovedCall DEF Awaiting
    <3> QED
      BY <2>1, <3>1, <3>2, CallTimes DEF Aged, JwtAge, TokenAge
  <2> QED
    BY <1>8, <2>2, <2>3, IdleAged, OneCallAges
       DEF AnswerRepository, AnswerOrganization, AnswerUser
<1>9. ASSUME NEW r \in Request, Mint(r) PROVE Timely'
  <2> DEFINE token == [installation |-> call[r].id,
                       repositories |-> RequestedRepositories(call[r].key.scope,
                                                              call[r].key.target),
                       permissions |-> call[r].key.scope.permissions,
                       minted_at |-> now]
             c == [Moved(r, "reply") EXCEPT !.token = token]
  <2>1. c.step = "reply" /\ c.since = now /\ c.token.minted_at = now
    BY MovedCall DEF Call, Awaiting
  <2>2. Aged(c, now)
    BY <2>1 DEF Aged, JwtAge, TokenAge, TypeOK
  <2> QED
    BY <1>9, <2>2, IdleAged, OneCallAges DEF Mint
<1>10. ASSUME NEW r \in Request, Receive(r) PROVE Timely'
  <2> DEFINE c == [Moved(r, "insert_token") EXCEPT !.sample = now]
  <2>1. /\ c.step = "insert_token" /\ c.since = now /\ c.sample = now
        /\ c.token = call[r].token
    BY MovedCall DEF Call, Awaiting
  <2>2. /\ call[r].token \in Token /\ call[r].token.minted_at = call[r].since
        /\ call[r].since <= now /\ now <= call[r].since + MaxDelay
    BY <1>10, TimelyParts DEF Receive, At, Aged, TokenAge, Awaiting, TypeOK, Holding
  <2>3. Aged(c, now)
    BY <2>1, <2>2, CallTimes DEF Aged, JwtAge, TokenAge
  <2> QED
    BY <1>10, <2>3, OneCallAges DEF Receive
<1>11. ASSUME NEW r \in Request, CacheToken(r) PROVE Timely'
  <2> DEFINE token == call[r].token
             e == [key |-> call[r].key, token |-> token,
                   refresh_after |-> RefreshAfter(call[r].sample)]
  <2>1. /\ token \in Token /\ token.minted_at \in Int
        /\ call[r].sample = call[r].since /\ token.minted_at <= call[r].since
        /\ call[r].since <= token.minted_at + MaxDelay
        /\ call[r].since <= now /\ now <= call[r].since + MaxDelay
    BY <1>11, TimelyParts, CallTimes
       DEF CacheToken, At, Aged, TokenAge, Awaiting, TypeOK, Holding
  <2>2. token.minted_at <= now /\ now < token.minted_at + Ttl + 2 * MaxDelay
    BY <2>1, CallTimes
  <2>3. EntryAge(e)
    BY <2>1, <2>2, CallTimes DEF EntryAge, RefreshAfter
  <2>4. \A f \in tokens' : f \in tokens \/ f = e
    BY <1>11 DEF CacheToken, InsertToken
  <2>5. \A f \in tokens' : EntryAge(f)'
    BY <1>11, <2>3, <2>4 DEF CacheToken, Timely, EntryAge
  <2>6. Aged(Returned(r, token), now)
    BY <2>1, <2>2, ReturnedAged
  <2>7. \A s \in Request : Aged(call'[s], now)
    BY <1>11, <2>6, TimelyParts DEF CacheToken, TypeOK
  <2> QED
    BY <1>11, <2>5, <2>7, TimelyParts, TimelyPartsNext DEF CacheToken
<1>12. ASSUME NEW r \in Request, Fail(r) \/ Cancel(r) PROVE Timely'
  BY <1>12, IdleAged, OneCallAges DEF Fail, Cancel
<1>13. CASE Restart
  BY <1>13, IdleAged, TimelyParts, TimelyPartsNext DEF Restart
<1>14. CASE Tick
  <2>1. \A r \in Request : call[r].step \in Awaiting =>
          call[r].since <= now' /\ now' <= call[r].since + MaxDelay
    BY <1>14, CallTimes DEF Tick, Timely, AwaitsAreShort
  <2>2. \A r \in Request : Aged(call[r], now')
    BY <2>1, TimelyParts DEF Aged
  <2>3. \A e \in tokens : e.token.minted_at \in Int
    BY DEF TypeOK, Token
  <2>4. \A e \in tokens : EntryAge(e)'
    BY <1>14, <2>3 DEF Tick, Timely, EntryAge, TypeOK
  <2>5. Epoch <= now'
    BY <1>14 DEF Tick, Timely, TypeOK
  <2> QED
    BY <1>14, <2>2, <2>4, <2>5, TimelyPartsNext DEF Tick
<1>15. CASE (\E app \in App, account \in Account : Change(app, account)) \/ UNCHANGED vars
  BY <1>15 DEF Change, vars, Timely, AwaitsAreShort, JwtAge, TokenAge, EntryAge
<1> QED
  BY <1>1, <1>2, <1>3, <1>4, <1>5, <1>6, <1>7, <1>8, <1>9, <1>10, <1>11, <1>12, <1>13,
     <1>14, <1>15 DEF Next, Progress

LEMMA TimeInvariant == Spec => []TimeInv
<1>1. Init => TimeInv
  BY InitTyped, InitTimely DEF TimeInv
<1>2. TimeInv /\ [Next]_vars => TimeInv'
  BY NextTyped, NextTimely DEF TimeInv
<1> QED
  BY <1>1, <1>2, PTL DEF Spec

(* The ages of JWTs, tokens and cache entries stay within the awaits between. *)
THEOREM AlwaysTimely == Spec => []Timely
<1>1. TimeInv => Timely
  BY DEF TimeInv
<1> QED
  BY <1>1, TimeInvariant, PTL

(* Under LatencyAssumption no entry the next call would serve has expired. *)
THEOREM CachedTokensAreFresh == Spec => []CachedTokenUnexpired
<1>1. TimeInv => CachedTokenUnexpired
  <2> SUFFICES ASSUME TimeInv, NEW e \in tokens, e.refresh_after > now
               PROVE  now < e.token.minted_at + Lifetime
    BY DEF CachedTokenUnexpired
  <2>1. EntryAge(e) /\ e.token.minted_at \in Int /\ e.refresh_after \in Int /\ now \in Int
    BY DEF TimeInv, Timely, TypeOK, Token
  <2> QED
    BY <2>1, TimeConstants, LatencyAssumption DEF EntryAge
<1> QED
  BY <1>1, TimeInvariant, PTL

(* Under LatencyAssumption every token is unexpired when its call returns. *)
THEOREM ServedTokensAreFresh == Spec => []ServedTokenUnexpired
<1>1. TimeInv => ServedTokenUnexpired
  <2> SUFFICES ASSUME TimeInv, NEW r \in Request, At(r, "returned")
               PROVE  call[r].since < call[r].token.minted_at + Lifetime
    BY DEF ServedTokenUnexpired
  <2>1. TokenAge(call[r]) /\ call[r].token \in Token
    BY DEF TimeInv, Timely, TypeOK, Holding, At
  <2>2. call[r].since \in Int /\ call[r].token.minted_at \in Int
    BY <2>1, CallTimes DEF TimeInv
  <2> QED
    BY <2>1, <2>2, TimeConstants, LatencyAssumption DEF TokenAge, At
<1> QED
  BY <1>1, TimeInvariant, PTL

(* Under LatencyAssumption the App JWT of a call outlives the lookups: GitHub
   accepts it whenever the call waits on GitHub. *)
THEOREM JwtsAreAccepted == Spec => []JwtAcceptedInFlight
<1>1. TimeInv => JwtAcceptedInFlight
  <2> SUFFICES ASSUME TimeInv, NEW r \in Request,
                      call[r].step \in {"get_repository", "get_organization",
                                        "get_user", "post"},
                      NEW drift \in Drift
               PROVE  JwtAccepted(call[r].jwt, drift)
    BY DEF JwtAcceptedInFlight
  <2> DEFINE t == call[r].jwt
  <2>1. /\ JwtAge(call[r])
        /\ call[r].since <= now /\ now <= call[r].since + MaxDelay
    BY DEF TimeInv, Timely, AwaitsAreShort, Awaiting
  <2>2. t \in Int /\ call[r].since \in Int /\ now \in Int
    BY CallTimes DEF TimeInv
  <2>3. Epoch <= t /\ t <= call[r].since /\ call[r].since <= t + 5 * MaxDelay
    BY <2>1, <2>2, TimeConstants DEF JwtAge
  <2>4. IssuedAt(t) = t - ClockSkew
    BY <2>2, <2>3, TimeConstants DEF IssuedAt
  <2>5. t <= now /\ now <= t + 6 * MaxDelay
    BY <2>1, <2>2, <2>3, TimeConstants
  <2> QED
    BY <2>2, <2>4, <2>5, TimeConstants, LatencyAssumption DEF JwtAccepted, Expiry
<1> QED
  BY <1>1, TimeInvariant, PTL

-----------------------------------------------------------------------------
(* REFINEMENT *)

(***************************************************************************)
(* A step of GithubClient is a step of InstallationTokens, or none: asking *)
(* is Create, answering is UseCachedToken or CacheToken, errors and drops  *)
(* are Drop, and what a call does in between cannot be seen.               *)
(***************************************************************************)

LEMMA OneCallStatus ==
  ASSUME TypeOK, NEW r \in Request, NEW c, call' = [call EXCEPT ![r] = c]
  PROVE  /\ Status' = [Status EXCEPT ![r] = StatusOf(c)]
         /\ Status[r] = StatusOf(call[r])
<1>1. \A s \in Request : call'[s] = IF s = r THEN c ELSE call[s]
  BY DEF TypeOK
<1>2. Status' = [s \in Request |-> StatusOf(call'[s])]
  BY DEF Status, StatusOf, Awaiting
<1>3. Status = [s \in Request |-> StatusOf(call[s])]
  BY DEF Status
<1> QED
  BY <1>1, <1>2, <1>3

LEMMA StatusOfIdle == StatusOf(Idle) = Abstract!NoCall
<1> DEFINE key == CHOOSE k \in Wanted : TRUE
<1>1. Idle.step = "idle" /\ Idle.key = key
  <2> HIDE DEF key
  <2>1. Idle = [step |-> "idle", key |-> key, since |-> Epoch, sample |-> Epoch,
                jwt |-> Epoch, id |-> NoId, token |-> NoToken]
    BY Zenon DEF Idle, key
  <2> QED
    BY <2>1
<1>2. StatusOf(Idle) = [state |-> "idle", key |-> key, token |-> NoToken]
  <2> HIDE DEF key
  <2> QED
    BY <1>1 DEF StatusOf, Awaiting
<1>3. Abstract!NoCall = [state |-> "idle", key |-> key, token |-> NoToken]
  BY Zenon DEF Abstract!NoCall
<1> QED
  BY <1>2, <1>3, Zenon

(* A call that ends without a token, or goes on waiting, or stays as it is. *)
LEMMA OneCallDropped ==
  ASSUME TypeOK, NEW r \in Request, call' = [call EXCEPT ![r] = Idle], UNCHANGED now
  PROVE  Abstract!Next
<1>1. Status' = [Status EXCEPT ![r] = Abstract!NoCall]
  BY OneCallStatus, StatusOfIdle
<1>2. Status' = [s \in Request |-> IF s \in {r} THEN Abstract!NoCall ELSE Status[s]]
  BY <1>1 DEF Status
<1>3. Abstract!Drop({r})
  BY <1>2 DEF Abstract!Drop
<1> QED
  BY <1>3 DEF Abstract!Next

LEMMA OneCallWaits ==
  ASSUME TypeOK, NEW r \in Request, NEW c, call[r].step \in Awaiting,
         c.step \in Awaiting, c.key = call[r].key,
         call' = [call EXCEPT ![r] = c], UNCHANGED now
  PROVE  UNCHANGED Abstract!contract
<1>1. StatusOf(c) = StatusOf(call[r])
  BY DEF StatusOf, Awaiting
<1>2. Status' = Status
  BY <1>1, OneCallStatus DEF Status
<1> QED
  BY <1>2 DEF Abstract!contract

LEMMA OneCallAnswered ==
  ASSUME TypeOK, NEW r \in Request, NEW token \in Token, call[r].step \in Awaiting,
         Fits(token, call[r].key),
         token.minted_at <= now, now < token.minted_at + Ttl + 2 * MaxDelay,
         call' = [call EXCEPT ![r] = Returned(r, token)], UNCHANGED now
  PROVE  Abstract!Next
<1>1. Status' = [Status EXCEPT ![r] = StatusOf(Returned(r, token))]
  BY OneCallStatus
<1>2. StatusOf(Returned(r, token))
        = [state |-> "returned", key |-> call[r].key, token |-> token]
  BY ReturnedCall DEF StatusOf, Awaiting
<1>3. Status[r].state = "pending" /\ Status[r].key = call[r].key
  BY DEF Status, StatusOf
<1>4. Status'[r].token = token
  BY <1>1, <1>2 DEF Status
<1>5. now < token.minted_at + (Ttl + 2 * MaxDelay)
  BY TimeConstants, CallTimes DEF Token
<1>6. Abstract!Answer(r)
  BY <1>1, <1>2, <1>3, <1>4, <1>5
     DEF Abstract!Answer, Abstract!Token, Abstract!Fits, Token, Fits,
         Abstract!InstallationId, InstallationId, Abstract!FitsRepositories,
         FitsRepositories
<1> QED
  BY <1>6 DEF Abstract!Next

LEMMA InitRefines == Init => Abstract!Init
<1> SUFFICES ASSUME Init PROVE Abstract!Init
  OBVIOUS
<1>1. now = Epoch /\ \A r \in Request : call[r] = Idle
  BY DEF Init
<1>2. Status = [r \in Request |-> Abstract!NoCall]
  BY <1>1, StatusOfIdle DEF Status
<1> QED
  BY <1>1, <1>2 DEF Abstract!Init

LEMMA NextRefines ==
  TypeOK /\ Isolation /\ Timely /\ [Next]_vars => [Abstract!Next]_(Abstract!contract)
<1> SUFFICES ASSUME TypeOK, Isolation, Timely, [Next]_vars
             PROVE  Abstract!Next \/ UNCHANGED Abstract!contract
  OBVIOUS
<1>1. ASSUME NEW r \in Request, NEW key \in Wanted, Create(r, key) PROVE Abstract!Next
  <2> DEFINE c == [Idle EXCEPT !.step = "lock_tokens", !.key = key, !.since = now,
                               !.sample = now]
  <2>1. c.step = "lock_tokens" /\ c.key = key
    BY IdleCall DEF Call
  <2>2. StatusOf(c) = [state |-> "pending", key |-> key, token |-> NoToken]
    BY <2>1 DEF StatusOf, Awaiting
  <2>3. /\ Status' = [Status EXCEPT ![r] = StatusOf(c)]
        /\ Status[r] = StatusOf(call[r])
    BY <1>1, OneCallStatus DEF Create
  <2>4. Status[r].state # "pending"
    BY <1>1, <2>3 DEF Create, StatusOf, Awaiting
  <2>5. Abstract!Ask(r, key)
    BY <1>1, <2>2, <2>3, <2>4 DEF Abstract!Ask, Create
  <2> QED
    BY <2>5 DEF Abstract!Next
<1>2. ASSUME NEW r \in Request, UseCachedToken(r) PROVE Abstract!Next
  <2>1. PICK e \in FreshEntries(call[r].key, call[r].sample) :
          call' = [call EXCEPT ![r] = Returned(r, e.token)]
    BY <1>2 DEF UseCachedToken
  <2>2. /\ e \in tokens /\ e.key = call[r].key /\ e.refresh_after > call[r].sample
        /\ e.token \in Token /\ e.token.minted_at \in Int /\ e.refresh_after \in Int
    BY <2>1 DEF FreshEntries, EntriesOf, TypeOK, Token
  <2>3. EntryAge(e) /\ call[r].sample = call[r].since /\ now <= call[r].since + MaxDelay
    BY <1>2, <2>2, TimelyParts DEF UseCachedToken, At, Aged, TokenAge, Awaiting
  <2>4. now < e.token.minted_at + Ttl + 2 * MaxDelay /\ e.token.minted_at <= now
    BY <2>2, <2>3, CallTimes, TimeConstants DEF EntryAge
  <2>5. Fits(e.token, call[r].key)
    BY <2>2 DEF Isolation
  <2>6. call[r].step \in Awaiting /\ UNCHANGED now
    BY <1>2 DEF UseCachedToken, At, Awaiting
  <2> QED
    BY <2>1, <2>2, <2>4, <2>5, <2>6, OneCallAnswered
<1>3. ASSUME NEW r \in Request, CacheToken(r) PROVE Abstract!Next
  <2> DEFINE token == call[r].token
  <2>1. /\ token \in Token /\ token.minted_at \in Int
        /\ token.minted_at <= call[r].since
        /\ call[r].since <= token.minted_at + MaxDelay
        /\ call[r].since <= now /\ now <= call[r].since + MaxDelay
    BY <1>3, TimelyParts, CallTimes
       DEF CacheToken, At, Aged, TokenAge, Awaiting, TypeOK, Holding
  <2>2. token.minted_at <= now /\ now < token.minted_at + Ttl + 2 * MaxDelay
    BY <2>1, CallTimes, TimeConstants
  <2>3. Fits(token, call[r].key)
    BY <1>3 DEF CacheToken, At, Isolation
  <2>4. call[r].step \in Awaiting /\ UNCHANGED now
    BY <1>3 DEF CacheToken, At, Awaiting
  <2> QED
    BY <1>3, <2>1, <2>2, <2>3, <2>4, OneCallAnswered DEF CacheToken
<1>4. ASSUME NEW r \in Request,
             BuildJwt(r) \/ Sign(r) \/ LookUpId(r) \/ Receive(r)
      PROVE  UNCHANGED Abstract!contract
  <2>1. PICK c : /\ call' = [call EXCEPT ![r] = c]
                 /\ c.step \in Awaiting /\ c.key = call[r].key
    <3>1. CASE BuildJwt(r)
      <4> DEFINE c == [Moved(r, "sign") EXCEPT !.jwt = now]
      <4>1. c.step \in Awaiting /\ c.key = call[r].key
        BY MovedCall DEF Call, Awaiting
      <4> QED
        BY <3>1, <4>1 DEF BuildJwt
    <3>2. CASE Sign(r)
      BY <3>2, MovedCall DEF Sign, Awaiting
    <3>3. CASE LookUpId(r)
      BY <3>3, MovedCall DEF LookUpId, Awaiting
    <3>4. CASE Receive(r)
      <4> DEFINE c == [Moved(r, "insert_token") EXCEPT !.sample = now]
      <4>1. c.step \in Awaiting /\ c.key = call[r].key
        BY MovedCall DEF Call, Awaiting
      <4> QED
        BY <3>4, <4>1 DEF Receive
    <3> QED
      BY <1>4, <3>1, <3>2, <3>3, <3>4
  <2>2. call[r].step \in Awaiting /\ UNCHANGED now
    BY <1>4 DEF BuildJwt, Sign, LookUpId, Receive, At, Awaiting
  <2> QED
    BY <2>1, <2>2, OneCallWaits
<1>5. ASSUME NEW r \in Request, NEW id \in InstallationId, call[r].step \in Awaiting,
             call' = [call EXCEPT ![r] = Requesting(r, id)], UNCHANGED now
      PROVE  Abstract!Next \/ UNCHANGED Abstract!contract
  <2>1. CASE ScopeRefused(call[r].key.scope, call[r].key.target)
    BY <1>5, <2>1, OneCallDropped DEF Requesting
  <2>2. CASE ~ScopeRefused(call[r].key.scope, call[r].key.target)
    <3>1. /\ Requesting(r, id).step \in Awaiting
          /\ Requesting(r, id).key = call[r].key
      BY <2>2, MovedCall DEF Requesting, Call, Awaiting
    <3> QED
      BY <1>5, <3>1, OneCallWaits
  <2> QED
    BY <2>1, <2>2
<1>6. ASSUME NEW r \in Request, UseCachedId(r)
      PROVE  Abstract!Next \/ UNCHANGED Abstract!contract
  <2>1. PICK e \in CachedIds(call[r].key.github_app, call[r].key.target) :
          call' = [call EXCEPT ![r] = Requesting(r, e.id)]
    BY <1>6 DEF UseCachedId
  <2>2. e.id \in InstallationId
    BY <2>1 DEF CachedIds, TypeOK
  <2>3. call[r].step \in Awaiting /\ UNCHANGED now
    BY <1>6 DEF UseCachedId, At, Awaiting
  <2> QED
    BY <1>5, <2>1, <2>2, <2>3
<1>7. ASSUME NEW r \in Request, CacheId(r)
      PROVE  Abstract!Next \/ UNCHANGED Abstract!contract
  <2>1. call[r].id \in InstallationId
    BY <1>7 DEF CacheId, At, TypeOK, Holding
  <2>2. call[r].step \in Awaiting /\ UNCHANGED now
    BY <1>7 DEF CacheId, At, Awaiting
  <2> QED
    BY <1>5, <1>7, <2>1, <2>2 DEF CacheId
<1>8. ASSUME NEW r \in Request,
             AnswerRepository(r) \/ AnswerOrganization(r) \/ AnswerUser(r)
      PROVE  Abstract!Next \/ UNCHANGED Abstract!contract
  <2> DEFINE id == CurrentId(call[r].key.github_app, call[r].key.target.owner)
  <2>1. /\ Found(r, id).step \in Awaiting /\ Found(r, id).key = call[r].key
    BY MovedCall DEF Found, Call, Awaiting
  <2>2. /\ Moved(r, "get_user").step \in Awaiting
        /\ Moved(r, "get_user").key = call[r].key
    BY MovedCall DEF Awaiting
  <2>3. call[r].step \in Awaiting /\ UNCHANGED now
    BY <1>8 DEF AnswerRepository, AnswerOrganization, AnswerUser, At, Awaiting
  <2>4. \/ call' = [call EXCEPT ![r] = Idle]
        \/ call' = [call EXCEPT ![r] = Found(r, id)]
        \/ call' = [call EXCEPT ![r] = Moved(r, "get_user")]
    BY <1>8 DEF AnswerRepository, AnswerOrganization, AnswerUser
  <2>5. CASE call' = [call EXCEPT ![r] = Idle]
    BY <2>3, <2>5, OneCallDropped
  <2>6. CASE call' = [call EXCEPT ![r] = Found(r, id)]
    BY <2>1, <2>3, <2>6, OneCallWaits
  <2>7. CASE call' = [call EXCEPT ![r] = Moved(r, "get_user")]
    BY <2>2, <2>3, <2>7, OneCallWaits
  <2> QED
    BY <2>4, <2>5, <2>6, <2>7
<1>9. ASSUME NEW r \in Request, Mint(r)
      PROVE  Abstract!Next \/ UNCHANGED Abstract!contract
  <2> DEFINE token == [installation |-> call[r].id,
                       repositories |-> RequestedRepositories(call[r].key.scope,
                                                              call[r].key.target),
                       permissions |-> call[r].key.scope.permissions,
                       minted_at |-> now]
             c == [Moved(r, "reply") EXCEPT !.token = token]
  <2>1. c.step \in Awaiting /\ c.key = call[r].key
    BY MovedCall DEF Call, Awaiting
  <2>2. call[r].step \in Awaiting /\ UNCHANGED now
    BY <1>9 DEF Mint, At, Awaiting
  <2>3. call' = [call EXCEPT ![r] = c] \/ call' = [call EXCEPT ![r] = Idle]
    BY <1>9 DEF Mint
  <2>4. CASE call' = [call EXCEPT ![r] = c]
    BY <2>1, <2>2, <2>4, OneCallWaits
  <2>5. CASE call' = [call EXCEPT ![r] = Idle]
    BY <2>2, <2>5, OneCallDropped
  <2> QED
    BY <2>3, <2>4, <2>5
<1>10. ASSUME NEW r \in Request, Fail(r) \/ Cancel(r) PROVE Abstract!Next
  BY <1>10, OneCallDropped DEF Fail, Cancel
<1>11. CASE Restart
  <2>1. Status' = [r \in Request |-> IF r \in Request THEN Abstract!NoCall ELSE Status[r]]
    <3>1. Status' = [r \in Request |-> StatusOf(call'[r])]
      BY DEF Status, StatusOf, Awaiting
    <3> QED
      BY <1>11, <3>1, StatusOfIdle DEF Restart
  <2>2. Abstract!Drop(Request)
    BY <1>11, <2>1 DEF Abstract!Drop, Restart
  <2> QED
    BY <2>2 DEF Abstract!Next
<1>12. CASE Tick
  <2>1. Status' = Status
    BY <1>12 DEF Tick, Status, StatusOf, Awaiting
  <2>2. Abstract!Tick
    BY <1>12, <2>1 DEF Tick, Abstract!Tick
  <2> QED
    BY <2>2 DEF Abstract!Next
<1>13. CASE (\E app \in App, account \in Account : Change(app, account)) \/ UNCHANGED vars
  <2>1. call' = call /\ now' = now
    BY <1>13 DEF Change, vars
  <2>2. Status' = Status
    BY <2>1 DEF Status, StatusOf, Awaiting
  <2> QED
    BY <2>1, <2>2 DEF Abstract!contract
<1> QED
  BY <1>1, <1>2, <1>3, <1>4, <1>6, <1>7, <1>8, <1>9, <1>10, <1>11, <1>12, <1>13
     DEF Next, Progress

(* The client, with its caches, lookups and failures, implements the contract
   its callers rely on: a fitting token of bounded age, or none. *)
THEOREM Implementation == Spec => ImplementsInstallationTokens
<1>1. Init => Abstract!Init
  BY InitRefines
<1>2. IsolationInv /\ TimeInv /\ [Next]_vars => [Abstract!Next]_(Abstract!contract)
  BY NextRefines DEF IsolationInv, TimeInv
<1> QED
  BY <1>1, <1>2, IsolationInvariant, TimeInvariant, PTL
     DEF Spec, ImplementsInstallationTokens, Abstract!Spec

-----------------------------------------------------------------------------
(* PROGRESS *)

(* How many awaits a call has before it at the most. *)
AwaitsLeft(c) ==
  CASE c.step = "lock_tokens" -> 9
    [] c.step = "sign" -> 8
    [] c.step = "lock_ids" -> 7
    [] c.step \in {"get_repository", "get_organization"} -> 6
    [] c.step = "get_user" -> 5
    [] c.step = "insert_id" -> 4
    [] c.step = "post" -> 3
    [] c.step = "reply" -> 2
    [] c.step = "insert_token" -> 1
    [] c.step \in {"idle", "returned"} -> 0

(* A call goes on, or ends, and is never put back, whatever other calls, GitHub and
   the clock do; only one that is over begins anew.  This is what is left of
   EveryCallReturns without fairness: no call has more than nine awaits, because
   nothing in create_installation_token is tried again. *)
CallsAdvance ==
  [][\A r \in Request :
       /\ call'[r] # call[r] =>
            \/ AwaitsLeft(call'[r]) < AwaitsLeft(call[r])
            \/ AwaitsLeft(call[r]) = 0 /\ call'[r].step \in {"idle", "lock_tokens"}
       /\ Progress(r) => AwaitsLeft(call'[r]) < AwaitsLeft(call[r])]_vars

LEMMA AwaitsOf ==
  ASSUME NEW c, c.step \in Awaiting \cup {"idle", "returned"}
  PROVE  /\ AwaitsLeft(c) \in Nat
         /\ c.step \in Awaiting => AwaitsLeft(c) > 0
         /\ c.step \in {"idle", "returned"} => AwaitsLeft(c) = 0
<1>1. c.step \in {"idle", "returned"} => AwaitsLeft(c) = 0
  BY DEF AwaitsLeft
<1>2. c.step \in Awaiting => AwaitsLeft(c) \in 1 .. 9
  BY DEF AwaitsLeft, Awaiting
<1> QED
  BY <1>1, <1>2

(* Where the records a call may become stand. *)
LEMMA StepsOf ==
  ASSUME TypeOK, NEW r \in Request
  PROVE  /\ AwaitsLeft(Idle) = 0
         /\ \A token \in Token : AwaitsLeft(Returned(r, token)) = 0
         /\ \A step \in Awaiting : Moved(r, step).step = step /\ Moved(r, step) \in Call
         /\ \A id : AwaitsLeft(Requesting(r, id)) \in {0, 3}
         /\ \A id : AwaitsLeft(Found(r, id)) = 4
<1>1. AwaitsLeft(Idle) = 0
  BY IdleCall DEF AwaitsLeft
<1>2. ASSUME NEW token \in Token PROVE AwaitsLeft(Returned(r, token)) = 0
  BY ReturnedCall DEF AwaitsLeft
<1>3. ASSUME NEW id PROVE AwaitsLeft([Moved(r, "post") EXCEPT !.id = id]) = 3
  <2>1. [Moved(r, "post") EXCEPT !.id = id].step = "post"
    BY MovedCall DEF Call, Awaiting
  <2> QED
    BY <2>1 DEF AwaitsLeft
<1>4. ASSUME NEW id PROVE AwaitsLeft(Found(r, id)) = 4
  <2>1. Found(r, id).step = "insert_id"
    BY MovedCall DEF Call, Awaiting, Found
  <2> QED
    BY <2>1 DEF AwaitsLeft
<1> QED
  BY <1>1, <1>2, <1>3, <1>4, MovedCall DEF Requesting

LEMMA ProgressAdvances ==
  ASSUME TypeOK, NEW r \in Request, Progress(r)
  PROVE  /\ AwaitsLeft(call'[r]) < AwaitsLeft(call[r])
         /\ \A s \in Request \ {r} : call'[s] = call[s]
<1>0. \A s \in Request \ {r} : call'[s] = call[s]
  BY DEF TypeOK, Progress, UseCachedToken, BuildJwt, Sign, UseCachedId, LookUpId, CacheId,
         AnswerRepository, AnswerOrganization, AnswerUser, Mint, Receive, CacheToken
<1> SUFFICES AwaitsLeft(call'[r]) < AwaitsLeft(call[r])
  BY <1>0
<1> USE DEF TypeOK
<1>1. CASE UseCachedToken(r)
  <2>1. PICK e \in FreshEntries(call[r].key, call[r].sample) :
          call'[r] = Returned(r, e.token)
    BY <1>1 DEF UseCachedToken
  <2>2. e.token \in Token
    BY <2>1 DEF FreshEntries, EntriesOf, TypeOK
  <2>3. AwaitsLeft(call[r]) = 9
    BY <1>1 DEF UseCachedToken, At, AwaitsLeft
  <2> QED
    BY <2>1, <2>2, <2>3, StepsOf
<1>2. CASE BuildJwt(r)
  <2> DEFINE c == [Moved(r, "sign") EXCEPT !.jwt = now]
  <2>1. c.step = "sign"
    BY StepsOf DEF Call, Awaiting
  <2>2. AwaitsLeft(c) = 8
    BY <2>1 DEF AwaitsLeft
  <2>3. AwaitsLeft(call[r]) = 9 /\ call'[r] = c
    BY <1>2 DEF BuildJwt, At, AwaitsLeft
  <2> HIDE DEF c
  <2> QED
    BY <2>2, <2>3
<1>3. CASE Sign(r)
  <2>1. AwaitsLeft(Moved(r, "lock_ids")) = 7
    BY StepsOf DEF Awaiting, AwaitsLeft
  <2>2. AwaitsLeft(call[r]) = 8
    BY <1>3 DEF Sign, At, AwaitsLeft
  <2> QED
    BY <1>3, <2>1, <2>2 DEF Sign
<1>4. CASE UseCachedId(r)
  <2>1. AwaitsLeft(call[r]) = 7
    BY <1>4 DEF UseCachedId, At, AwaitsLeft
  <2> QED
    BY <1>4, <2>1, StepsOf DEF UseCachedId
<1>5. CASE LookUpId(r)
  <2>1. /\ AwaitsLeft(Moved(r, "get_repository")) = 6
        /\ AwaitsLeft(Moved(r, "get_organization")) = 6
    BY StepsOf DEF Awaiting, AwaitsLeft
  <2>2. AwaitsLeft(call[r]) = 7
    BY <1>5 DEF LookUpId, At, AwaitsLeft
  <2> QED
    BY <1>5, <2>1, <2>2 DEF LookUpId
<1>6. CASE CacheId(r)
  <2>1. AwaitsLeft(call[r]) = 4
    BY <1>6 DEF CacheId, At, AwaitsLeft
  <2> QED
    BY <1>6, <2>1, StepsOf DEF CacheId
<1>7. CASE AnswerRepository(r) \/ AnswerUser(r)
  <2>1. AwaitsLeft(call[r]) \in {5, 6}
    BY <1>7 DEF AnswerRepository, AnswerUser, At, AwaitsLeft
  <2> QED
    BY <1>7, <2>1, StepsOf DEF AnswerRepository, AnswerUser
<1>8. CASE AnswerOrganization(r)
  <2>1. AwaitsLeft(Moved(r, "get_user")) = 5
    BY StepsOf DEF Awaiting, AwaitsLeft
  <2>2. AwaitsLeft(call[r]) = 6
    BY <1>8 DEF AnswerOrganization, At, AwaitsLeft
  <2> QED
    BY <1>8, <2>1, <2>2, StepsOf DEF AnswerOrganization
<1>9. CASE Mint(r)
  <2>1. call'[r].step = "reply" \/ call'[r] = Idle
    BY <1>9, StepsOf DEF Mint, Call, Awaiting
  <2>2. AwaitsLeft(call[r]) = 3
    BY <1>9 DEF Mint, At, AwaitsLeft
  <2>3. AwaitsLeft(call'[r]) \in {0, 2}
    <3>1. ASSUME call'[r].step = "reply" PROVE AwaitsLeft(call'[r]) = 2
      BY <3>1 DEF AwaitsLeft
    <3> QED
      BY <2>1, <3>1, StepsOf
  <2> QED
    BY <2>2, <2>3
<1>10. CASE Receive(r)
  <2> DEFINE c == [Moved(r, "insert_token") EXCEPT !.sample = now]
  <2>1. c.step = "insert_token"
    BY StepsOf DEF Call, Awaiting
  <2>2. AwaitsLeft(c) = 1
    BY <2>1 DEF AwaitsLeft
  <2>3. AwaitsLeft(call[r]) = 2 /\ call'[r] = c
    BY <1>10 DEF Receive, At, AwaitsLeft
  <2> HIDE DEF c
  <2> QED
    BY <2>2, <2>3
<1>11. CASE CacheToken(r)
  <2>1. call[r].token \in Token
    BY <1>11 DEF CacheToken, At, TypeOK, Holding
  <2>2. AwaitsLeft(call[r]) = 1
    BY <1>11 DEF CacheToken, At, AwaitsLeft
  <2> QED
    BY <1>11, <2>1, <2>2, StepsOf DEF CacheToken
<1> QED
  BY <1>1, <1>2, <1>3, <1>4, <1>5, <1>6, <1>7, <1>8, <1>9, <1>10, <1>11 DEF Progress

LEMMA NextAdvances ==
  ASSUME TypeOK, [Next]_vars, NEW r \in Request
  PROVE  /\ call'[r] # call[r] =>
              \/ AwaitsLeft(call'[r]) < AwaitsLeft(call[r])
              \/ AwaitsLeft(call[r]) = 0 /\ call'[r].step \in {"idle", "lock_tokens"}
         /\ Progress(r) => AwaitsLeft(call'[r]) < AwaitsLeft(call[r])
<1>1. Progress(r) => AwaitsLeft(call'[r]) < AwaitsLeft(call[r])
  BY ProgressAdvances
<1>2. AwaitsLeft(call[r]) \in Nat /\ AwaitsLeft(Idle) = 0 /\ Idle.step = "idle"
  BY AwaitsOf, StepsOf, IdleCall DEF TypeOK, Call, Awaiting
<1> DEFINE Advanced ==
      \/ call'[r] = call[r]
      \/ AwaitsLeft(call'[r]) < AwaitsLeft(call[r])
      \/ AwaitsLeft(call[r]) = 0 /\ call'[r].step \in {"idle", "lock_tokens"}
<1>3. ASSUME NEW s \in Request, NEW key \in Wanted, Create(s, key) PROVE Advanced
  <2>1. CASE s = r
    <3>1. AwaitsLeft(call[r]) = 0
      BY <1>3, <2>1 DEF Create, AwaitsLeft
    <3>2. call'[r].step = "lock_tokens"
      BY <1>3, <2>1, IdleCall DEF Create, TypeOK, Call
    <3> QED
      BY <3>1, <3>2
  <2>2. CASE s # r
    BY <1>3, <2>2 DEF Create, TypeOK
  <2> QED
    BY <2>1, <2>2
<1>4. ASSUME NEW s \in Request, Progress(s) PROVE Advanced
  BY <1>4, ProgressAdvances
<1>5. ASSUME call'[r] = Idle PROVE Advanced
  <2>1. CASE AwaitsLeft(call[r]) = 0
    BY <1>2, <1>5, <2>1
  <2>2. CASE AwaitsLeft(call[r]) # 0
    BY <1>2, <1>5, <2>2
  <2> QED
    BY <2>1, <2>2
<1>6. ASSUME NEW s \in Request, Fail(s) \/ Cancel(s) PROVE Advanced
  <2>1. call'[r] = IF r = s THEN Idle ELSE call[r]
    BY <1>6 DEF Fail, Cancel, TypeOK
  <2> QED
    BY <1>5, <2>1
<1>7. ASSUME Restart PROVE Advanced
  <2>1. call'[r] = Idle
    BY <1>7 DEF Restart
  <2> QED
    BY <1>5, <2>1
<1>8. ASSUME Tick \/ (\E app \in App, account \in Account : Change(app, account))
             \/ UNCHANGED vars
      PROVE  Advanced
  BY <1>8 DEF Tick, Change, vars
<1>9. Advanced
  BY <1>3, <1>4, <1>6, <1>7, <1>8 DEF Next
<1> QED
  BY <1>1, <1>9

(* Nothing in a call is tried again: nine awaits at the most, then it is over. *)
THEOREM NoCallGoesBack == Spec => CallsAdvance
<1>1. TypeOK /\ [Next]_vars =>
        [\A r \in Request :
           /\ call'[r] # call[r] =>
                \/ AwaitsLeft(call'[r]) < AwaitsLeft(call[r])
                \/ AwaitsLeft(call[r]) = 0 /\ call'[r].step \in {"idle", "lock_tokens"}
           /\ Progress(r) => AwaitsLeft(call'[r]) < AwaitsLeft(call[r])]_vars
  BY NextAdvances
<1> QED
  BY <1>1, TypeCorrect, PTL DEF Spec, CallsAdvance

=============================================================================
