----------------------------- MODULE Deliveries -----------------------------
(***************************************************************************)
(* What the webhook route promises GitHub and NATS, with no secret file,   *)
(* no configuration and no token in sight.  A delivery is answered once    *)
(* and for good.  It becomes a message, if at all, by the step that        *)
(* acknowledges it; messages reach NATS at most once and in the order of   *)
(* those steps; and one that does not was lost with a broken connection or *)
(* with the process, the oldest first.                                     *)
(***************************************************************************)
EXTENDS Sequences, Naturals

CONSTANT Delivery

VARIABLES
  running,  \* idcat is up
  link,     \* its connection to NATS: none, up or down
  answer,   \* what each delivery has come to
  transit,  \* messages of acknowledged deliveries that NATS has not got
  received  \* messages NATS has got

contract == <<running, link, answer, transit, received>>

Init ==
  /\ running = FALSE
  /\ link = "none"
  /\ answer = [d \in Delivery |-> "unsent"]
  /\ transit = <<>>
  /\ received = <<>>

Begin ==
  /\ ~running
  /\ running' = TRUE
  /\ link' \in {"none", "up"}
  /\ UNCHANGED <<answer, transit, received>>

(* Who waits for an answer gets none any more, and messages in transit are lost. *)
End ==
  /\ running
  /\ running' = FALSE
  /\ link' = "none"
  /\ answer' = [d \in Delivery |-> IF answer[d] = "pending" THEN "dropped" ELSE answer[d]]
  /\ transit' = <<>>
  /\ UNCHANGED received

(* The next of unsent, pending and an answer, with no message. *)
Move(d) ==
  /\ running
  /\ \/ answer[d] = "unsent" /\ answer'[d] \in {"pending", "accepted", "refused"}
     \/ answer[d] = "pending" /\ answer'[d] \in {"accepted", "refused", "dropped"}
  /\ answer' = [answer EXCEPT ![d] = answer'[d]]
  /\ UNCHANGED <<running, link, transit, received>>

(* A delivery is acknowledged and becomes the newest message, connection or not. *)
Hand(d) ==
  /\ running /\ link # "none"
  /\ answer[d] = "pending"
  /\ answer' = [answer EXCEPT ![d] = "accepted"]
  /\ transit' = Append(transit, d)
  /\ UNCHANGED <<running, link, received>>

(* NATS gets the oldest message. *)
Pass ==
  /\ link = "up" /\ transit # <<>>
  /\ received' = Append(received, Head(transit))
  /\ transit' = Tail(transit)
  /\ UNCHANGED <<running, link, answer>>

(* With a connection, the oldest messages may be lost. *)
Break ==
  /\ link = "up"
  /\ link' = "down"
  /\ \E n \in 0 .. Len(transit) : transit' = SubSeq(transit, n + 1, Len(transit))
  /\ UNCHANGED <<running, answer, received>>

Mend ==
  /\ link = "down"
  /\ link' = "up"
  /\ UNCHANGED <<running, answer, transit, received>>

Next ==
  \/ Begin \/ End
  \/ \E d \in Delivery : Move(d) \/ Hand(d)
  \/ Pass \/ Break \/ Mend

Spec == Init /\ [][Next]_contract

=============================================================================
