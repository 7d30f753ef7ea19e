------------------------- MODULE InstallationTokens -------------------------
(***************************************************************************)
(* What create_installation_token promises to its callers, with no cache,  *)
(* no lookup and no GitHub in sight: a call is answered, if at all, with a *)
(* token that fits the call's key and that is young enough to be of use.   *)
(***************************************************************************)
EXTENDS Installations

CONSTANTS
  Request,  \* tasks of the server
  Wanted,   \* the keys callers ask for
  Epoch,    \* the time of the start
  MaxAge    \* no token is handed out at this age or older

VARIABLES
  now,      \* the clock
  status    \* what each task's call has come to

contract == <<now, status>>

NoCall ==
  [state |-> "idle", key |-> CHOOSE k \in Wanted : TRUE, token |-> NoToken]

Init ==
  /\ now = Epoch
  /\ status = [r \in Request |-> NoCall]

Ask(r, key) ==
  /\ status[r].state # "pending"
  /\ status' = [status EXCEPT ![r] = [state |-> "pending", key |-> key, token |-> NoToken]]
  /\ UNCHANGED now

(* The answer to a call, never to another one, and never an old token. *)
Answer(r) ==
  LET token == status'[r].token IN
  /\ status[r].state = "pending"
  /\ token \in Token
  /\ Fits(token, status[r].key)
  /\ token.minted_at <= now
  /\ now < token.minted_at + MaxAge
  /\ status' = [status EXCEPT ![r] = [state |-> "returned", key |-> status[r].key,
                                      token |-> token]]
  /\ UNCHANGED now

(* Calls end with an error, are dropped, or are forgotten in a restart. *)
Drop(dropped) ==
  /\ status' = [r \in Request |-> IF r \in dropped THEN NoCall ELSE status[r]]
  /\ UNCHANGED now

Tick ==
  /\ now' = now + 1
  /\ UNCHANGED status

Next ==
  \/ \E r \in Request : (\E key \in Wanted : Ask(r, key)) \/ Answer(r)
  \/ \E dropped \in SUBSET Request : Drop(dropped)
  \/ Tick

Spec == Init /\ [][Next]_contract

=============================================================================
