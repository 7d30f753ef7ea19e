------------------------- MODULE WebhookBridgeProofs -------------------------
(***************************************************************************)
(* Proofs about WebhookBridge, for any number of deliveries, Apps and      *)
(* secrets and a buffer of any capacity: type correctness, and its four    *)
(* safety properties.                                                      *)
(*                                                                         *)
(* The properties speak of answered deliveries and are not inductive:      *)
(* HandlersGood adds what a handler at work has to rely on.  While it      *)
(* waits for the secret file, what the file holds is in its window, and    *)
(* before its answer it has no status and nothing in the buffer.           *)
(***************************************************************************)
EXTENDS WebhookBridge, TLAPS

-----------------------------------------------------------------------------
(* TYPES *)

LEMMA UnsentTyped ==
  /\ Unsent \in Handler
  /\ Unsent.step = "unsent" /\ Unsent.status = "none" /\ Unsent.outcome = "none"
BY BridgeAssumption DEF Unsent, Handler, Signature

LEMMA AnsweredTyped ==
  ASSUME NEW h \in Handler,
         NEW status \in {"accepted", "unauthorized", "not_found", "internal"}
  PROVE  /\ Answered(h, status) \in Handler
         /\ Answered(h, status).step = "answered" /\ Answered(h, status).status = status
         /\ Answered(h, status).app = h.app
         /\ Answered(h, status).signature = h.signature
         /\ Answered(h, status).outcome = h.outcome
BY DEF Answered, Handler

(* A handler past its validation: on to NATS, or done. *)
LEMMA ValidatedTyped ==
  ASSUME NEW h \in Handler
  PROVE  /\ Validated(h) \in Handler
         /\ Validated(h).app = h.app /\ Validated(h).signature = h.signature
         /\ Validated(h).outcome = h.outcome
         /\ \/ Validated(h).step = "publishing" /\ Validated(h).status = h.status
            \/ /\ Validated(h).step = "answered" /\ Validated(h).status = "accepted"
               /\ h.app \in config.bridged => publisher = NoPublisher
<1>1. CASE h.app \in config.bridged /\ publisher # NoPublisher
  BY <1>1 DEF Validated, Handler
<1>2. CASE ~(h.app \in config.bridged /\ publisher # NoPublisher)
  BY <1>2, AnsweredTyped DEF Validated
<1> QED
  BY <1>1, <1>2

LEMMA JudgedTyped ==
  ASSUME NEW h \in Handler, NEW secret \in Content
  PROVE  Judged(h, secret) \in Handler
BY ValidatedTyped, AnsweredTyped DEF Judged

LEMMA ArrivedTyped ==
  ASSUME NEW app \in App, NEW signature \in Signature
  PROVE  /\ Arrived(app, signature) \in Handler
         /\ Arrived(app, signature).app = app
         /\ Arrived(app, signature).signature = signature
         /\ Arrived(app, signature).step = "unsent"
         /\ Arrived(app, signature).status = "none"
         /\ Arrived(app, signature).outcome = "none"
BY UnsentTyped DEF Arrived, Handler

(* The handler a delivery gets. *)
Received(app, signature) ==
  LET h == Arrived(app, signature) IN
  IF app \notin config.apps THEN Answered(h, "not_found")
  ELSE IF app \in config.validated THEN [h EXCEPT !.step = "reading"]
  ELSE Validated(h)

LEMMA ReceivedTyped ==
  ASSUME NEW app \in App, NEW signature \in Signature
  PROVE  Received(app, signature) \in Handler
<1> DEFINE h == Arrived(app, signature)
<1>1. h \in Handler
  BY ArrivedTyped
<1>2. [h EXCEPT !.step = "reading"] \in Handler
  BY <1>1 DEF Handler
<1> QED
  BY <1>1, <1>2, AnsweredTyped, ValidatedTyped DEF Received

(* What Publish and PublishFails leave of a handler. *)
Acknowledged(h, outcome) == [Answered(h, "accepted") EXCEPT !.outcome = outcome]

LEMMA AcknowledgedTyped ==
  ASSUME NEW h \in Handler, NEW outcome \in {"queued", "failed"}
  PROVE  /\ Acknowledged(h, outcome) \in Handler
         /\ Acknowledged(h, outcome).step = "answered"
         /\ Acknowledged(h, outcome).status = "accepted"
         /\ Acknowledged(h, outcome).outcome = outcome
         /\ Acknowledged(h, outcome).app = h.app
         /\ Acknowledged(h, outcome).signature = h.signature
BY DEF Acknowledged, Answered, Handler

LEMMA DroppedTyped ==
  ASSUME NEW h \in Handler
  PROVE  [h EXCEPT !.step = "dropped"] \in Handler
BY DEF Handler

LEMMA PublisherTyped ==
  ASSUME NEW state \in {"none", "up", "down"}, NEW token \in TokenContent
  PROVE  Publisher(state, token) \in [state : {"none", "up", "down"}, token : TokenContent]
BY DEF Publisher

LEMMA InitTyped == Init => TypeOK
<1> SUFFICES ASSUME Init PROVE TypeOK
  OBVIOUS
<1>1. secret_file \in [App -> Content]
  BY DEF Init, Content
<1>2. publisher \in [state : {"none", "up", "down"}, token : TokenContent]
  BY DEF Init, NoPublisher, TokenContent
<1>3. buffer \in Seq(Delivery) /\ Len(buffer) <= Capacity /\ published \in Seq(Delivery)
  BY BridgeAssumption DEF Init
<1>4. handler \in [Delivery -> Handler]
  BY UnsentTyped DEF Init
<1>5. window \in [Delivery -> SUBSET Content]
  BY DEF Init
<1> QED
  BY <1>1, <1>2, <1>3, <1>4, <1>5 DEF Init, TypeOK

LEMMA NextTyped == TypeOK /\ [Next]_vars => TypeOK'
<1> SUFFICES ASSUME TypeOK, [Next]_vars PROVE TypeOK'
  OBVIOUS
<1>1. CASE Start
  <2>1. publisher' \in [state : {"none", "up", "down"}, token : TokenContent]
    BY <1>1, PublisherTyped DEF Start, TypeOK, NoPublisher, TokenContent
  <2> QED
    BY <1>1, <2>1 DEF Start, rotating, TypeOK
<1>2. CASE Stop
  <2>1. handler' \in [Delivery -> Handler]
    BY <1>2, DroppedTyped DEF Stop, TypeOK
  <2>2. publisher' \in [state : {"none", "up", "down"}, token : TokenContent]
    BY <1>2 DEF Stop, NoPublisher, TokenContent
  <2>3. buffer' \in Seq(Delivery) /\ Len(buffer') <= Capacity
    BY <1>2, BridgeAssumption DEF Stop
  <2> QED
    BY <1>2, <2>1, <2>2, <2>3 DEF Stop, rotating, TypeOK
<1>3. CASE Deploy
  BY <1>3 DEF Deploy, rotating, TypeOK
<1>4. CASE Disconnect
  <2>1. PICK n \in 0 .. Len(buffer) : buffer' = SubSeq(buffer, n + 1, Len(buffer))
    BY <1>4 DEF Disconnect
  <2>2. buffer' \in Seq(Delivery) /\ Len(buffer') <= Capacity
    BY <2>1, BridgeAssumption DEF TypeOK
  <2>3. publisher' \in [state : {"none", "up", "down"}, token : TokenContent]
    BY <1>4 DEF Disconnect, TypeOK
  <2> QED
    BY <1>4, <2>2, <2>3 DEF Disconnect, rotating, TypeOK
<1>5. CASE Reconnect
  BY <1>5, PublisherTyped DEF Reconnect, rotating, TypeOK
<1>6. CASE Flush
  <2>1. buffer' \in Seq(Delivery) /\ Len(buffer') <= Capacity
    BY <1>6, BridgeAssumption DEF Flush, TypeOK
  <2>2. published' \in Seq(Delivery)
    BY <1>6 DEF Flush, TypeOK
  <2> QED
    BY <1>6, <2>1, <2>2 DEF Flush, rotating, TypeOK
<1>7. ASSUME NEW d \in Delivery, NEW app \in App, NEW signature \in Signature,
             Receive(d, app, signature)
      PROVE  TypeOK'
  <2>1. handler' = [handler EXCEPT ![d] = Received(app, signature)]
    BY <1>7 DEF Receive, Received
  <2>2. handler' \in [Delivery -> Handler]
    BY <2>1, ReceivedTyped DEF TypeOK
  <2>3. window' \in [Delivery -> SUBSET Content]
    BY <1>7 DEF Receive, TypeOK
  <2> QED
    BY <1>7, <2>2, <2>3 DEF Receive, rotating, TypeOK
<1>8. ASSUME NEW d \in Delivery, Read(d) PROVE TypeOK'
  <2>1. handler[d].app \in App
    BY DEF TypeOK, Handler
  <2>2. handler' \in [Delivery -> Handler]
    BY <1>8, <2>1, JudgedTyped DEF Read, TypeOK
  <2> QED
    BY <1>8, <2>2 DEF Read, rotating, TypeOK
<1>9. ASSUME NEW d \in Delivery, Publish(d) PROVE TypeOK'
  <2>1. handler' = [handler EXCEPT ![d] = Acknowledged(handler[d], "queued")]
    BY <1>9 DEF Publish, Acknowledged
  <2>2. handler' \in [Delivery -> Handler]
    BY <2>1, AcknowledgedTyped DEF TypeOK
  <2>3. buffer' \in Seq(Delivery) /\ Len(buffer') <= Capacity
    BY <1>9, BridgeAssumption DEF Publish, TypeOK
  <2> QED
    BY <1>9, <2>2, <2>3 DEF Publish, rotating, TypeOK
<1>10. ASSUME NEW d \in Delivery, PublishFails(d) PROVE TypeOK'
  <2>1. handler' = [handler EXCEPT ![d] = Acknowledged(handler[d], "failed")]
    BY <1>10 DEF PublishFails, Acknowledged
  <2>2. handler' \in [Delivery -> Handler]
    BY <2>1, AcknowledgedTyped DEF TypeOK
  <2> QED
    BY <1>10, <2>2 DEF PublishFails, rotating, TypeOK
<1>11. ASSUME NEW d \in Delivery, Abandon(d) PROVE TypeOK'
  <2>1. handler' \in [Delivery -> Handler]
    BY <1>11, DroppedTyped DEF Abandon, TypeOK
  <2> QED
    BY <1>11, <2>1 DEF Abandon, rotating, TypeOK
<1>12. ASSUME NEW app \in Filed, NEW content \in Content, WriteSecret(app, content)
       PROVE  TypeOK'
  <2>1. secret_file' \in [App -> Content]
    BY <1>12 DEF WriteSecret, TypeOK
  <2>2. window' \in [Delivery -> SUBSET Content]
    BY <1>12 DEF WriteSecret, TypeOK
  <2> QED
    BY <1>12, <2>1, <2>2 DEF WriteSecret, TypeOK
<1>13. ASSUME NEW token \in NatsToken, DemandToken(token) PROVE TypeOK'
  BY <1>13 DEF DemandToken, TypeOK
<1>14. ASSUME NEW content \in TokenContent, WriteToken(content) PROVE TypeOK'
  BY <1>14 DEF WriteToken, TypeOK
<1>15. CASE UNCHANGED vars
  BY <1>15 DEF vars, rotating, TypeOK
<1> QED
  BY <1>1, <1>2, <1>3, <1>4, <1>5, <1>6, <1>7, <1>8, <1>9, <1>10, <1>11, <1>12, <1>13,
     <1>14, <1>15 DEF Next, Handle, Rotate

(* Every state of the bridge is well typed, and the buffer within its capacity. *)
THEOREM TypeCorrect == Spec => []TypeOK
BY InitTyped, NextTyped, PTL DEF Spec

-----------------------------------------------------------------------------
(* VALIDATION *)

(* What is true of the handler h of a delivery, with w its window. *)
Good(h, w) ==
  /\ h.step # "answered" => h.status = "none"
  /\ h.status # "accepted" => h.outcome = "none"
  /\ w # {} /\ (h.step = "publishing" \/ h.status = "accepted")
       => h.signature \in w \cap Secret
  /\ h.status = "unauthorized" => \E secret \in w \cap Secret : secret # h.signature
  /\ h.status = "internal" => w \cap {Empty, Missing} # {}

(* A handler that waits for a file has in its window what the file holds. *)
Watched(h, w, files) == h.step = "reading" => files[h.app] \in w

HandlersGood ==
  \A d \in Delivery : /\ Good(handler[d], window[d])
                      /\ Watched(handler[d], window[d], secret_file)

LEMMA HandlersGoodNext ==
  ASSUME TypeOK,
         \A d \in Delivery : /\ Good(handler'[d], window'[d])
                             /\ Watched(handler'[d], window'[d], secret_file')
  PROVE  HandlersGood'
BY DEF HandlersGood, Good, Watched

(* A step of one handler that leaves windows and files alone. *)
LEMMA OneHandlerGood ==
  ASSUME TypeOK, HandlersGood, NEW d \in Delivery, NEW h,
         handler' = [handler EXCEPT ![d] = h], UNCHANGED <<secret_file, window>>,
         Good(h, window[d]), h.step # "reading"
  PROVE  HandlersGood'
<1>1. \A e \in Delivery : handler'[e] = IF e = d THEN h ELSE handler[e]
  BY DEF TypeOK
<1>2. \A e \in Delivery : /\ Good(handler'[e], window'[e])
                          /\ Watched(handler'[e], window'[e], secret_file')
  BY <1>1 DEF HandlersGood, Watched
<1> QED
  BY <1>2, HandlersGoodNext

(* No handler has moved, and none that waits has lost sight of its file. *)
LEMMA SameHandlersGood ==
  ASSUME TypeOK, HandlersGood, UNCHANGED <<handler, secret_file, window>>
  PROVE  HandlersGood'
BY HandlersGoodNext DEF HandlersGood

(* validate_delivery passes exactly what is signed with a secret that the file
   holds, and refuses nothing without one in the window. *)
LEMMA JudgedGood ==
  ASSUME NEW h \in Handler, NEW w \in SUBSET Content, NEW secret \in w,
         h.status = "none", h.outcome = "none"
  PROVE  Good(Judged(h, secret), w) /\ Judged(h, secret).step # "reading"
<1>1. CASE secret \in {Missing, Empty}
  BY <1>1, AnsweredTyped DEF Judged, Good
<1>2. CASE secret \notin {Missing, Empty} /\ h.signature = secret
  <2>1. Judged(h, secret) = Validated(h)
    BY <1>2 DEF Judged
  <2>2. secret \in Secret
    BY <1>2 DEF Content
  <2> QED
    BY <1>2, <2>1, <2>2, ValidatedTyped DEF Good
<1>3. CASE secret \notin {Missing, Empty} /\ h.signature # secret
  <2>1. Judged(h, secret) = Answered(h, "unauthorized")
    BY <1>3 DEF Judged
  <2>2. secret \in w \cap Secret
    BY <1>3 DEF Content
  <2> QED
    BY <1>3, <2>1, <2>2, AnsweredTyped DEF Good
<1> QED
  BY <1>1, <1>2, <1>3

(* A delivery has arrived: not judged yet, or not to be judged. *)
LEMMA ReceivedGood ==
  ASSUME TypeOK, NEW app \in App, NEW signature \in Signature,
         NEW w, w = IF app \in config.validated THEN {secret_file[app]} ELSE {}
  PROVE  /\ Good(Received(app, signature), w)
         /\ Watched(Received(app, signature), w, secret_file)
<1> DEFINE h == Arrived(app, signature)
<1>0. h \in Handler
  BY ArrivedTyped
<1>1. CASE app \notin config.apps
  <2>1. app \notin config.validated
    BY <1>1, BridgeAssumption DEF TypeOK
  <2>2. Received(app, signature) = Answered(h, "not_found")
    BY <1>1 DEF Received
  <2> QED
    BY <1>0, <2>1, <2>2, ArrivedTyped, AnsweredTyped DEF Good, Watched
<1>2. CASE app \in config.apps /\ app \in config.validated
  <2> DEFINE r == [h EXCEPT !.step = "reading"]
  <2>1. Received(app, signature) = r
    BY <1>2 DEF Received
  <2>2. r.step = "reading" /\ r.app = app /\ r.status = "none" /\ r.outcome = "none"
    BY <1>0, ArrivedTyped DEF Handler
  <2> QED
    BY <1>2, <2>1, <2>2 DEF Good, Watched
<1>3. CASE app \in config.apps /\ app \notin config.validated
  <2>1. Received(app, signature) = Validated(h) /\ w = {}
    BY <1>3 DEF Received
  <2> QED
    BY <1>0, <2>1, ArrivedTyped, ValidatedTyped DEF Good, Watched
<1> QED
  BY <1>1, <1>2, <1>3

LEMMA DroppedGood ==
  ASSUME NEW h \in Handler, NEW w, Good(h, w), h.step \in {"reading", "publishing"}
  PROVE  Good([h EXCEPT !.step = "dropped"], w) /\ [h EXCEPT !.step = "dropped"].step # "reading"
BY DEF Good, Handler

LEMMA InitGood == Init => HandlersGood
BY UnsentTyped DEF Init, HandlersGood, Good, Watched

LEMMA NextGood == TypeOK /\ HandlersGood /\ [Next]_vars => HandlersGood'
<1> SUFFICES ASSUME TypeOK, HandlersGood, [Next]_vars PROVE HandlersGood'
  OBVIOUS
<1> USE DEF rotating
<1>0. \A d \in Delivery : handler[d] \in Handler /\ window[d] \in SUBSET Content
  BY DEF TypeOK
<1>1. CASE Start \/ Deploy \/ Disconnect \/ Reconnect \/ Flush
  BY <1>1, SameHandlersGood DEF Start, Deploy, Disconnect, Reconnect, Flush
<1>2. CASE Stop
  <2>1. \A d \in Delivery : Good(handler'[d], window[d]) /\
                            (handler'[d].step = "reading" => handler'[d] = handler[d])
    BY <1>0, <1>2, DroppedGood DEF Stop, AtWork, HandlersGood
  <2>2. UNCHANGED <<secret_file, window>>
    BY <1>2 DEF Stop
  <2>3. \A d \in Delivery : Watched(handler'[d], window'[d], secret_file')
    BY <2>1, <2>2 DEF HandlersGood, Watched
  <2> QED
    BY <2>1, <2>2, <2>3, HandlersGoodNext
<1>3. ASSUME NEW d \in Delivery, NEW app \in App, NEW signature \in Signature,
             Receive(d, app, signature)
      PROVE  HandlersGood'
  <2> DEFINE w == IF app \in config.validated THEN {secret_file[app]} ELSE {}
  <2>1. handler' = [handler EXCEPT ![d] = Received(app, signature)]
    BY <1>3 DEF Receive, Received
  <2>2. window' = [window EXCEPT ![d] = w] /\ secret_file' = secret_file
    BY <1>3 DEF Receive
  <2>3. Good(Received(app, signature), w) /\ Watched(Received(app, signature), w, secret_file)
    BY ReceivedGood
  <2>4. /\ handler'[d] = Received(app, signature) /\ window'[d] = w
        /\ \A e \in Delivery \ {d} : handler'[e] = handler[e] /\ window'[e] = window[e]
    BY <2>1, <2>2 DEF TypeOK
  <2> HIDE DEF w
  <2>5. \A e \in Delivery : /\ Good(handler'[e], window'[e])
                            /\ Watched(handler'[e], window'[e], secret_file')
    BY <2>2, <2>3, <2>4 DEF HandlersGood
  <2> QED
    BY <2>5, HandlersGoodNext
<1>4. ASSUME NEW d \in Delivery, Read(d) PROVE HandlersGood'
  <2> DEFINE h == Judged(handler[d], secret_file[handler[d].app])
  <2>1. handler' = [handler EXCEPT ![d] = h] /\ UNCHANGED <<secret_file, window>>
    BY <1>4 DEF Read
  <2>2. secret_file[handler[d].app] \in window[d]
    BY <1>4 DEF Read, At, HandlersGood, Watched
  <2>3. handler[d].status = "none" /\ handler[d].outcome = "none"
    BY <1>4 DEF Read, At, HandlersGood, Good
  <2>4. Good(h, window[d]) /\ h.step # "reading"
    BY <1>0, <2>2, <2>3, JudgedGood
  <2> HIDE DEF h
  <2> QED
    BY <2>1, <2>4, OneHandlerGood
<1>5. ASSUME NEW d \in Delivery, NEW outcome \in {"queued", "failed"}, At(d, "publishing"),
             handler' = [handler EXCEPT ![d] = Acknowledged(handler[d], outcome)],
             UNCHANGED <<secret_file, window>>
      PROVE  HandlersGood'
  <2> DEFINE h == Acknowledged(handler[d], outcome)
  <2>1. Good(h, window[d]) /\ h.step # "reading"
    BY <1>0, <1>5, AcknowledgedTyped DEF At, HandlersGood, Good
  <2> HIDE DEF h
  <2>2. handler' = [handler EXCEPT ![d] = h]
    BY <1>5 DEF h
  <2> QED
    BY <1>5, <2>1, <2>2, OneHandlerGood
<1>6. ASSUME NEW d \in Delivery, Publish(d) \/ PublishFails(d) PROVE HandlersGood'
  BY <1>5, <1>6 DEF Publish, PublishFails, Acknowledged
<1>7. ASSUME NEW d \in Delivery, Abandon(d) PROVE HandlersGood'
  <2> DEFINE h == [handler[d] EXCEPT !.step = "dropped"]
  <2>1. Good(h, window[d]) /\ h.step # "reading"
    BY <1>0, <1>7, DroppedGood DEF Abandon, AtWork, HandlersGood
  <2>2. handler' = [handler EXCEPT ![d] = h] /\ UNCHANGED <<secret_file, window>>
    BY <1>7 DEF Abandon
  <2> HIDE DEF h
  <2> QED
    BY <2>1, <2>2, OneHandlerGood
<1>8. ASSUME NEW app \in Filed, NEW content \in Content, WriteSecret(app, content)
      PROVE  HandlersGood'
  <2>1. \A d \in Delivery :
          /\ handler'[d] = handler[d]
          /\ window'[d] = IF At(d, "reading") /\ handler[d].app = app
                            THEN window[d] \cup {content} ELSE window[d]
    BY <1>8 DEF WriteSecret
  <2>2. secret_file' = [secret_file EXCEPT ![app] = content]
    BY <1>8 DEF WriteSecret
  <2>3. ASSUME NEW d \in Delivery
        PROVE  /\ Good(handler'[d], window'[d])
               /\ Watched(handler'[d], window'[d], secret_file')
    <3>1. handler[d].app \in App
      BY <1>0 DEF Handler
    <3>2. CASE At(d, "reading") /\ handler[d].app = app
      <4>1. handler[d].status = "none" /\ handler[d].step = "reading"
        BY <3>2 DEF At, HandlersGood, Good
      <4>2. secret_file'[handler[d].app] = content /\ content \in window'[d]
        BY <2>1, <2>2, <3>1, <3>2 DEF TypeOK
      <4> QED
        BY <2>1, <4>1, <4>2 DEF HandlersGood, Good, Watched
    <3>3. CASE At(d, "reading") /\ handler[d].app # app
      <4>1. secret_file'[handler[d].app] = secret_file[handler[d].app]
        BY <2>2, <3>1, <3>3 DEF TypeOK
      <4> QED
        BY <2>1, <3>3, <4>1 DEF HandlersGood, Watched
    <3>4. CASE ~At(d, "reading")
      BY <2>1, <3>4 DEF At, HandlersGood, Watched
    <3> QED
      BY <3>2, <3>3, <3>4
  <2> QED
    BY <2>3, HandlersGoodNext
<1>9. ASSUME NEW token \in NatsToken, DemandToken(token) PROVE HandlersGood'
  BY <1>9, SameHandlersGood DEF DemandToken
<1>10. ASSUME NEW content \in TokenContent, WriteToken(content) PROVE HandlersGood'
  BY <1>10, SameHandlersGood DEF WriteToken
<1>11. CASE UNCHANGED vars
  BY <1>11, SameHandlersGood DEF vars
<1> QED
  BY <1>1, <1>2, <1>3, <1>4, <1>6, <1>7, <1>8, <1>9, <1>10, <1>11
     DEF Next, Handle, Rotate

LEMMA GoodInvariant == Spec => [](TypeOK /\ HandlersGood)
BY InitTyped, NextTyped, InitGood, NextGood, PTL DEF Spec

(* What is acknowledged, or on its way to NATS, was signed with a secret its file
   held while it was handled, however the file is rewritten meanwhile. *)
THEOREM AcceptedSigned == Spec => []AcceptedAreSigned
<1>1. HandlersGood => AcceptedAreSigned
  BY DEF HandlersGood, Good, AcceptedAreSigned, At
<1> QED
  BY <1>1, GoodInvariant, PTL

(* No delivery is refused, or fails, but for what its file held meanwhile. *)
THEOREM RefusalsCaused == Spec => []RefusalsHaveCause
<1>1. HandlersGood => RefusalsHaveCause
  BY DEF HandlersGood, Good, RefusalsHaveCause
<1> QED
  BY <1>1, GoodInvariant, PTL

-----------------------------------------------------------------------------
(* THE BRIDGE *)

(* idcat with an App that is bridged has a publisher as long as it runs, and
   handlers are at work only meanwhile. *)
Bridged ==
  /\ serving /\ config.bridged # {} => publisher # NoPublisher
  /\ \A d \in Delivery : AtWork(d) => serving

LEMMA InitBridged == Init => Bridged
BY UnsentTyped DEF Init, Bridged, AtWork

LEMMA NextBridged == TypeOK /\ Bridged /\ [Next]_vars => Bridged'
<1> SUFFICES ASSUME TypeOK, Bridged, [Next]_vars PROVE Bridged'
  OBVIOUS
<1> USE DEF rotating
<1>0. \A d \in Delivery : handler[d] \in Handler
  BY DEF TypeOK
<1>1. CASE Start
  <2>1. \A token : Publisher("up", token) # NoPublisher
    BY DEF Publisher, NoPublisher
  <2> QED
    BY <1>1, <2>1 DEF Start, Valid, Bridged, AtWork
<1>2. CASE Stop
  <2>1. \A d \in Delivery : handler'[d].step \notin {"reading", "publishing"}
    BY <1>0, <1>2 DEF Stop, AtWork, Handler
  <2> QED
    BY <1>2, <2>1 DEF Stop, Bridged, AtWork
<1>3. CASE Deploy
  BY <1>3 DEF Deploy, Bridged, AtWork
<1>4. CASE Disconnect \/ Reconnect
  <2>1. publisher'.state \in {"up", "down"}
    BY <1>4 DEF Disconnect, Reconnect, Publisher, TypeOK
  <2>2. publisher' # NoPublisher
    BY <2>1 DEF NoPublisher
  <2> QED
    BY <1>4, <2>2 DEF Disconnect, Reconnect, Bridged, AtWork
<1>5. CASE Flush
  BY <1>5 DEF Flush, Bridged, AtWork
<1>6. ASSUME NEW d \in Delivery, Handle(d) PROVE Bridged'
  <2>1. serving /\ UNCHANGED <<config, serving, publisher>>
    BY <1>6 DEF Handle, Receive, Read, Publish, PublishFails, Abandon, At, AtWork, Bridged
  <2> QED
    BY <2>1 DEF Bridged
<1>7. CASE Rotate
  BY <1>7 DEF Rotate, WriteSecret, DemandToken, WriteToken, Bridged, AtWork
<1>8. CASE UNCHANGED vars
  BY <1>8 DEF vars, Bridged, AtWork
<1> QED
  BY <1>1, <1>2, <1>3, <1>4, <1>5, <1>6, <1>7, <1>8 DEF Next

(* One step of one delivery past its validation, or of others. *)
AcknowledgedLate(d) ==
  /\ handler[d].status # "accepted"
  /\ handler'[d].status = "accepted"
  /\ handler'[d].app \in config.bridged
  => handler'[d].outcome # "none"

(* A delivery that is validated while idcat runs is not yet acknowledged if its
   App is bridged. *)
LEMMA ValidatedLate ==
  ASSUME Bridged, serving, NEW h \in Handler, h.status = "none",
         Validated(h).status = "accepted"
  PROVE  h.app \notin config.bridged
BY ValidatedTyped DEF Bridged

LEMMA NextLate ==
  TypeOK /\ HandlersGood /\ Bridged /\ [Next]_vars => \A d \in Delivery : AcknowledgedLate(d)
<1> SUFFICES ASSUME TypeOK, HandlersGood, Bridged, [Next]_vars, NEW d \in Delivery
             PROVE  AcknowledgedLate(d)
  OBVIOUS
<1>0. handler[d] \in Handler
  BY DEF TypeOK
<1>1. CASE handler'[d].status = handler[d].status
  BY <1>1 DEF AcknowledgedLate
<1>2. CASE Stop
  BY <1>0, <1>1, <1>2 DEF Stop, Handler
<1>3. CASE Start \/ Deploy \/ Disconnect \/ Reconnect \/ Flush \/ Rotate \/ UNCHANGED vars
  BY <1>1, <1>3 DEF Start, Deploy, Disconnect, Reconnect, Flush, Rotate, WriteSecret,
                    DemandToken, WriteToken, vars
<1>4. ASSUME NEW e \in Delivery \ {d}, Handle(e) PROVE AcknowledgedLate(d)
  BY <1>1, <1>4 DEF Handle, Receive, Read, Publish, PublishFails, Abandon, TypeOK
<1>5. ASSUME NEW app \in App, NEW signature \in Signature, Receive(d, app, signature)
      PROVE  AcknowledgedLate(d)
  <2> DEFINE h == Arrived(app, signature)
  <2>1. handler'[d] = Received(app, signature) /\ serving
    BY <1>5 DEF Receive, Received, TypeOK
  <2>2. h \in Handler /\ h.status = "none"
    BY ArrivedTyped
  <2>3. CASE app \notin config.apps
    BY <2>1, <2>2, <2>3, AnsweredTyped DEF Received, AcknowledgedLate
  <2>4. CASE app \in config.apps /\ app \in config.validated
    BY <2>1, <2>2, <2>4 DEF Received, AcknowledgedLate, Handler
  <2>5. CASE app \in config.apps /\ app \notin config.validated
    <3>1. handler'[d] = Validated(h)
      BY <2>1, <2>5 DEF Received
    <3> QED
      BY <2>1, <2>2, <3>1, ValidatedTyped, ValidatedLate DEF AcknowledgedLate
  <2> QED
    BY <2>3, <2>4, <2>5
<1>6. CASE Read(d)
  <2> DEFINE secret == secret_file[handler[d].app]
  <2>1. handler'[d] = Judged(handler[d], secret)
    BY <1>6 DEF Read, TypeOK
  <2>2. handler[d].status = "none" /\ serving
    BY <1>6 DEF Read, At, AtWork, HandlersGood, Good, Bridged
  <2>3. CASE secret \in {Missing, Empty}
    BY <1>0, <2>1, <2>3, AnsweredTyped DEF Judged, AcknowledgedLate
  <2>4. CASE secret \notin {Missing, Empty} /\ handler[d].signature = secret
    <3>1. handler'[d] = Validated(handler[d])
      BY <2>1, <2>4 DEF Judged
    <3> QED
      BY <1>0, <2>2, <3>1, ValidatedTyped, ValidatedLate DEF AcknowledgedLate
  <2>5. CASE secret \notin {Missing, Empty} /\ handler[d].signature # secret
    BY <1>0, <2>1, <2>5, AnsweredTyped DEF Judged, AcknowledgedLate
  <2> QED
    BY <2>3, <2>4, <2>5
<1>7. CASE Publish(d) \/ PublishFails(d)
  <2>1. PICK outcome \in {"queued", "failed"} : handler'[d] = Acknowledged(handler[d], outcome)
    BY <1>7 DEF Publish, PublishFails, Acknowledged, TypeOK
  <2> QED
    BY <1>0, <2>1, AcknowledgedTyped DEF AcknowledgedLate
<1>8. CASE Abandon(d)
  BY <1>0, <1>1, <1>8 DEF Abandon, TypeOK, Handler
<1> QED
  BY <1>2, <1>3, <1>4, <1>5, <1>6, <1>7, <1>8 DEF Next, Handle

(* A delivery of a bridged App is acknowledged by the step that hands it to the
   NATS client, or by none. *)
THEOREM AcknowledgedLast == Spec => AcknowledgedAfterPublish
<1>1. TypeOK /\ HandlersGood /\ Bridged /\ [Next]_vars =>
        [\A d \in Delivery :
           /\ handler[d].status # "accepted"
           /\ handler'[d].status = "accepted"
           /\ handler'[d].app \in config.bridged
           => handler'[d].outcome # "none"]_vars
  BY NextLate DEF AcknowledgedLate
<1> QED
  BY <1>1, GoodInvariant, InitTyped, NextTyped, InitBridged, NextBridged, PTL
     DEF Spec, AcknowledgedAfterPublish

-----------------------------------------------------------------------------
(* AT MOST ONCE *)

LEMMA SentTyped ==
  ASSUME TypeOK
  PROVE  /\ Sent \in Seq(Delivery) /\ Len(Sent) = Len(published) + Len(buffer)
         /\ \A i \in 1 .. Len(published) : Sent[i] = published[i]
         /\ \A i \in 1 .. Len(buffer) : Sent[Len(published) + i] = buffer[i]
BY DEF Sent, TypeOK

LEMMA SentTypedNext ==
  ASSUME TypeOK'
  PROVE  /\ Sent' \in Seq(Delivery) /\ Len(Sent') = Len(published') + Len(buffer')
         /\ \A i \in 1 .. Len(published') : Sent'[i] = published'[i]
         /\ \A i \in 1 .. Len(buffer') : Sent'[Len(published') + i] = buffer'[i]
BY DEF Sent, TypeOK

(* An accepted delivery is what it was: handlers that end are not at work again. *)
Settled ==
  \A d \in Delivery : handler[d].status = "accepted" => handler'[d] = handler[d]

(* What was sent afterwards is some of what was sent before, in any order. *)
LEMMA FewerSent ==
  ASSUME TypeOK, TypeOK', PublishedOnce, Settled,
         NEW f \in [DOMAIN Sent' -> DOMAIN Sent],
         \A i, j \in DOMAIN Sent' : f[i] = f[j] => i = j,
         \A i \in DOMAIN Sent' : Sent'[i] = Sent[f[i]]
  PROVE  PublishedOnce'
<1>1. \A i \in DOMAIN Sent : Sent[i] \in Delivery
  BY SentTyped, SentTypedNext
<1>2. \A i, j \in DOMAIN Sent' : Sent'[i] = Sent'[j] => i = j
  BY DEF PublishedOnce
<1>3. \A i \in DOMAIN Sent' : /\ handler'[Sent'[i]].status = "accepted"
                              /\ handler'[Sent'[i]].outcome = "queued"
  BY <1>1 DEF PublishedOnce, Settled
<1> QED
  BY <1>2, <1>3 DEF PublishedOnce

LEMMA SameSent ==
  ASSUME TypeOK, TypeOK', PublishedOnce, Settled, UNCHANGED <<published, buffer>>
  PROVE  PublishedOnce'
<1> DEFINE f == [i \in DOMAIN Sent |-> i]
<1>1. Sent' = Sent
  BY DEF Sent
<1>2. f \in [DOMAIN Sent' -> DOMAIN Sent]
  BY <1>1
<1>3. \A i \in DOMAIN Sent' : f[i] = i
  BY <1>1
<1> HIDE DEF f
<1> QED
  BY <1>1, <1>2, <1>3, FewerSent

(* NATS gets the oldest message. *)
LEMMA FlushSendsNothing ==
  ASSUME TypeOK, TypeOK', Flush
  PROVE  DOMAIN Sent' = DOMAIN Sent /\ \A i \in DOMAIN Sent : Sent'[i] = Sent[i]
<1>1. /\ published' = Append(published, Head(buffer)) /\ buffer' = Tail(buffer)
      /\ buffer # <<>> /\ buffer \in Seq(Delivery) /\ published \in Seq(Delivery)
  BY DEF Flush, TypeOK
<1>2. /\ Len(published') = Len(published) + 1 /\ Len(buffer') = Len(buffer) - 1
      /\ Len(buffer) \in Nat \ {0} /\ Len(published) \in Nat
      /\ published'[Len(published) + 1] = buffer[1]
      /\ \A i \in 1 .. Len(published) : published'[i] = published[i]
      /\ \A i \in 1 .. Len(buffer) - 1 : buffer'[i] = buffer[i + 1]
  BY <1>1
<1>3. DOMAIN Sent' = DOMAIN Sent /\ DOMAIN Sent = 1 .. Len(published) + Len(buffer)
  BY <1>2, SentTyped, SentTypedNext
<1>4. Sent \in Seq(Delivery) /\ Sent' \in Seq(Delivery)
  BY SentTyped, SentTypedNext
<1>5. ASSUME NEW i \in DOMAIN Sent PROVE Sent'[i] = Sent[i]
  <2>1. CASE i <= Len(published)
    BY <1>2, <1>3, <2>1, SentTyped, SentTypedNext
  <2>2. CASE i = Len(published) + 1
    <3>1. Sent[i] = buffer[1]
      BY <1>2, <2>2, SentTyped, SentTypedNext
    <3>2. Sent'[i] = published'[i]
      BY <1>2, <2>2, SentTyped, SentTypedNext
    <3> QED
      BY <1>2, <2>2, <3>1, <3>2
  <2>3. CASE i > Len(published) + 1
    <3> DEFINE k == i - Len(published) - 1
    <3>1. k \in 1 .. Len(buffer) - 1 /\ i = Len(published') + k /\ i = Len(published) + (k + 1)
      BY <1>2, <1>3, <2>3
    <3>2. Sent'[Len(published') + k] = buffer'[k]
      BY <1>2, <3>1, SentTyped, SentTypedNext
    <3>3. Sent[Len(published) + (k + 1)] = buffer[k + 1]
      BY <1>2, <3>1, SentTyped, SentTypedNext
    <3> QED
      BY <1>2, <3>1, <3>2, <3>3
  <2> QED
    BY <1>2, <1>3, <2>1, <2>2, <2>3
<1> QED
  BY <1>3, <1>5

(* A connection breaks, and the oldest messages in the buffer are lost. *)
LEMMA DisconnectLoses ==
  ASSUME TypeOK, TypeOK', PublishedOnce, Settled, published' = published,
         NEW n \in 0 .. Len(buffer), buffer' = SubSeq(buffer, n + 1, Len(buffer))
  PROVE  PublishedOnce'
<1> DEFINE p == Len(published)
           f == [i \in DOMAIN Sent' |-> IF i <= p THEN i ELSE i + n]
<1>1. /\ buffer \in Seq(Delivery) /\ p \in Nat /\ Len(buffer) \in Nat
      /\ Len(buffer') = Len(buffer) - n
      /\ \A i \in 1 .. Len(buffer) - n : buffer'[i] = buffer[i + n]
  BY DEF TypeOK
<1>2. DOMAIN Sent = 1 .. p + Len(buffer) /\ DOMAIN Sent' = 1 .. p + (Len(buffer) - n)
  BY <1>1, SentTyped, SentTypedNext
<1>3. f \in [DOMAIN Sent' -> DOMAIN Sent] /\ \A i, j \in DOMAIN Sent' : f[i] = f[j] => i = j
  BY <1>1, <1>2
<1>4. ASSUME NEW i \in DOMAIN Sent' PROVE Sent'[i] = Sent[f[i]]
  <2>1. CASE i <= p
    BY <1>1, <1>2, <2>1, SentTyped, SentTypedNext
  <2>2. CASE i > p
    <3> DEFINE k == i - p
    <3>1. k \in 1 .. Len(buffer) - n /\ k + n \in 1 .. Len(buffer) /\ i = p + k
      BY <1>1, <1>2, <2>2
    <3>2. Sent'[p + k] = buffer'[k]
      BY <1>1, <3>1, SentTyped, SentTypedNext
    <3>3. Sent[p + (k + n)] = buffer[k + n]
      BY <1>1, <3>1, SentTyped, SentTypedNext
    <3>4. f[i] = p + (k + n)
      BY <1>1, <1>2, <2>2, <3>1
    <3> HIDE DEF k, f
    <3> QED
      BY <1>1, <3>1, <3>2, <3>3, <3>4
  <2> QED
    BY <1>1, <1>2, <2>1, <2>2
<1> HIDE DEF f
<1> QED
  BY <1>3, <1>4, FewerSent

(* A delivery that was not answered is sent. *)
LEMMA PublishSends ==
  ASSUME TypeOK, TypeOK', HandlersGood, PublishedOnce, NEW d \in Delivery, Publish(d)
  PROVE  PublishedOnce'
<1>1. handler[d].status # "accepted" /\ handler[d] \in Handler
  BY DEF Publish, At, HandlersGood, Good, TypeOK
<1>2. /\ Sent \in Seq(Delivery) /\ Len(Sent') = Len(Sent) + 1 /\ Len(Sent) \in Nat
      /\ Sent'[Len(Sent) + 1] = d /\ \A i \in 1 .. Len(Sent) : Sent'[i] = Sent[i]
  BY DEF Publish, Sent, TypeOK
<1>3. DOMAIN Sent = 1 .. Len(Sent) /\ DOMAIN Sent' = 1 .. Len(Sent) + 1
  BY <1>2, SentTyped, SentTypedNext
<1>4. \A i \in DOMAIN Sent : Sent[i] # d
  BY <1>1 DEF PublishedOnce
<1>5. /\ handler'[d] = Acknowledged(handler[d], "queued")
      /\ \A e \in Delivery \ {d} : handler'[e] = handler[e]
  BY DEF Publish, Acknowledged, TypeOK
<1>6. \A i, j \in DOMAIN Sent' : Sent'[i] = Sent'[j] => i = j
  BY <1>2, <1>3, <1>4 DEF PublishedOnce
<1>7. \A i \in DOMAIN Sent' : /\ handler'[Sent'[i]].status = "accepted"
                              /\ handler'[Sent'[i]].outcome = "queued"
  BY <1>1, <1>2, <1>3, <1>4, <1>5, AcknowledgedTyped DEF PublishedOnce
<1> QED
  BY <1>6, <1>7 DEF PublishedOnce

LEMMA InitOnce == Init => PublishedOnce
<1> SUFFICES ASSUME Init PROVE PublishedOnce
  OBVIOUS
<1>1. Sent = <<>>
  BY DEF Init, Sent
<1> QED
  BY <1>1 DEF PublishedOnce

LEMMA NextOnce ==
  TypeOK /\ TypeOK' /\ HandlersGood /\ PublishedOnce /\ [Next]_vars => PublishedOnce'
<1> SUFFICES ASSUME TypeOK, TypeOK', HandlersGood, PublishedOnce, [Next]_vars
             PROVE  PublishedOnce'
  OBVIOUS
<1> USE DEF rotating
<1>0. \A d \in Delivery : handler[d].status = "accepted" => handler[d].step = "answered"
  BY DEF HandlersGood, Good
<1>1. CASE Start \/ Deploy \/ Reconnect \/ Rotate \/ UNCHANGED vars
  BY <1>1, SameSent DEF Start, Deploy, Reconnect, Rotate, WriteSecret, DemandToken, WriteToken,
                        vars, Settled
<1>2. CASE Stop
  <2>1. Settled
    BY <1>0, <1>2 DEF Stop, AtWork, Settled
  <2>2. published' = published /\ buffer' = SubSeq(buffer, Len(buffer) + 1, Len(buffer))
    BY <1>2 DEF Stop, TypeOK
  <2>3. Len(buffer) \in 0 .. Len(buffer)
    BY DEF TypeOK
  <2> QED
    BY <2>1, <2>2, <2>3, DisconnectLoses
<1>3. CASE Disconnect
  BY <1>3, DisconnectLoses DEF Disconnect, Settled
<1>4. CASE Flush
  <2> DEFINE f == [i \in DOMAIN Sent |-> i]
  <2>1. DOMAIN Sent' = DOMAIN Sent /\ \A i \in DOMAIN Sent : Sent'[i] = Sent[i]
    BY <1>4, FlushSendsNothing
  <2>2. Settled
    BY <1>4 DEF Flush, Settled
  <2>3. f \in [DOMAIN Sent' -> DOMAIN Sent] /\ \A i \in DOMAIN Sent' : f[i] = i
    BY <2>1
  <2> HIDE DEF f
  <2> QED
    BY <2>1, <2>2, <2>3, FewerSent
<1>5. ASSUME NEW d \in Delivery, Publish(d) PROVE PublishedOnce'
  BY <1>5, PublishSends
<1>6. ASSUME NEW d \in Delivery, Handle(d), ~Publish(d) PROVE PublishedOnce'
  <2>1. /\ UNCHANGED <<published, buffer>> /\ handler[d].step # "answered"
        /\ \A e \in Delivery \ {d} : handler'[e] = handler[e]
    BY <1>6 DEF Handle, Receive, Read, PublishFails, Abandon, At, AtWork, TypeOK
  <2> QED
    BY <1>0, <2>1, SameSent DEF Settled
<1> QED
  BY <1>1, <1>2, <1>3, <1>4, <1>5, <1>6 DEF Next

(* NATS is given no delivery twice, and none that was refused or dropped, however
   often connections break and messages are lost. *)
THEOREM AtMostOnce == Spec => []PublishedOnce
BY GoodInvariant, InitOnce, NextOnce, PTL DEF Spec

-----------------------------------------------------------------------------
(* THE CONTRACT *)

(* A handler waits for room in the buffer only of a publisher there is. *)
Connected ==
  /\ publisher.state = "none" => publisher = NoPublisher
  /\ \A d \in Delivery : At(d, "publishing") => publisher # NoPublisher

LEMMA InitConnected == Init => Connected
BY UnsentTyped DEF Init, Connected, At

(* On its way to NATS is who has been so, or has been validated with a publisher. *)
LEMMA OnTheBridge ==
  ASSUME NEW h \in Handler,
         Validated(h).step = "publishing", h.step # "publishing"
  PROVE  publisher # NoPublisher
BY AnsweredTyped DEF Validated

LEMMA ReceivedOnTheBridge ==
  ASSUME NEW app \in App, NEW signature \in Signature,
         Received(app, signature).step = "publishing"
  PROVE  publisher # NoPublisher
<1> DEFINE h == Arrived(app, signature)
<1>1. h \in Handler /\ h.step = "unsent"
  BY ArrivedTyped
<1>2. CASE app \notin config.apps
  BY <1>1, <1>2, AnsweredTyped DEF Received
<1>3. CASE app \in config.apps /\ app \in config.validated
  BY <1>1, <1>3 DEF Received, Handler
<1>4. CASE app \in config.apps /\ app \notin config.validated
  <2>1. Received(app, signature) = Validated(h)
    BY <1>4 DEF Received
  <2> QED
    BY <1>1, <2>1, OnTheBridge
<1> QED
  BY <1>2, <1>3, <1>4

LEMMA JudgedOnTheBridge ==
  ASSUME NEW h \in Handler, NEW secret \in Content,
         Judged(h, secret).step = "publishing", h.step # "publishing"
  PROVE  publisher # NoPublisher
<1>1. CASE secret \in {Missing, Empty}
  BY <1>1, AnsweredTyped DEF Judged
<1>2. CASE secret \notin {Missing, Empty} /\ h.signature = secret
  BY <1>2, OnTheBridge DEF Judged
<1>3. CASE secret \notin {Missing, Empty} /\ h.signature # secret
  BY <1>3, AnsweredTyped DEF Judged
<1> QED
  BY <1>1, <1>2, <1>3

LEMMA NextConnected == TypeOK /\ Connected /\ Bridged /\ [Next]_vars => Connected'
<1> SUFFICES ASSUME TypeOK, Connected, Bridged, [Next]_vars PROVE Connected'
  OBVIOUS
<1> USE DEF rotating
<1>0. \A d \in Delivery : handler[d] \in Handler
  BY DEF TypeOK
<1>1. CASE Start
  <2>1. publisher'.state = "none" => publisher' = NoPublisher
    BY <1>1 DEF Start, Publisher
  <2>2. \A d \in Delivery : handler'[d].step # "publishing"
    BY <1>1 DEF Start, Bridged, AtWork
  <2> QED
    BY <2>1, <2>2 DEF Connected, At
<1>2. CASE Stop
  <2>1. \A d \in Delivery : handler'[d].step # "publishing"
    BY <1>0, <1>2 DEF Stop, AtWork, Handler
  <2>2. publisher' = NoPublisher
    BY <1>2 DEF Stop
  <2> QED
    BY <2>1, <2>2 DEF Connected, At
<1>3. CASE Deploy \/ Flush
  BY <1>3 DEF Deploy, Flush, Connected, At
<1>4. CASE Disconnect \/ Reconnect
  <2>1. publisher'.state \in {"up", "down"}
    BY <1>4 DEF Disconnect, Reconnect, Publisher, TypeOK
  <2>2. publisher' # NoPublisher
    BY <2>1 DEF NoPublisher
  <2> QED
    BY <1>4, <2>1, <2>2 DEF Connected
<1>5. ASSUME NEW d \in Delivery, NEW h, handler' = [handler EXCEPT ![d] = h],
             publisher' = publisher, h.step = "publishing" => publisher # NoPublisher
      PROVE  Connected'
  BY <1>5 DEF Connected, At, TypeOK
<1>6. ASSUME NEW d \in Delivery, NEW app \in App, NEW signature \in Signature,
             Receive(d, app, signature)
      PROVE  Connected'
  <2>1. handler' = [handler EXCEPT ![d] = Received(app, signature)] /\ publisher' = publisher
    BY <1>6 DEF Receive, Received
  <2> QED
    BY <2>1, <1>5, ReceivedOnTheBridge
<1>7. ASSUME NEW d \in Delivery, Read(d) PROVE Connected'
  <2> DEFINE secret == secret_file[handler[d].app]
  <2>1. handler' = [handler EXCEPT ![d] = Judged(handler[d], secret)] /\ publisher' = publisher
    BY <1>7 DEF Read
  <2>2. secret \in Content /\ handler[d].step # "publishing"
    BY <1>0, <1>7 DEF Read, At, TypeOK, Handler
  <2> QED
    BY <1>0, <1>5, <2>1, <2>2, JudgedOnTheBridge
<1>8. ASSUME NEW d \in Delivery, Publish(d) \/ PublishFails(d) PROVE Connected'
  <2>1. PICK outcome \in {"queued", "failed"} :
          handler' = [handler EXCEPT ![d] = Acknowledged(handler[d], outcome)]
    BY <1>8 DEF Publish, PublishFails, Acknowledged
  <2>2. publisher' = publisher
    BY <1>8 DEF Publish, PublishFails
  <2> QED
    BY <1>0, <1>5, <2>1, <2>2, AcknowledgedTyped
<1>9. ASSUME NEW d \in Delivery, Abandon(d) PROVE Connected'
  <2> DEFINE h == [handler[d] EXCEPT !.step = "dropped"]
  <2>1. handler' = [handler EXCEPT ![d] = h] /\ publisher' = publisher
    BY <1>9 DEF Abandon
  <2>2. h.step = "dropped"
    BY <1>0 DEF Handler
  <2> HIDE DEF h
  <2> QED
    BY <1>5, <2>1, <2>2
<1>10. CASE Rotate
  BY <1>10 DEF Rotate, WriteSecret, DemandToken, WriteToken, Connected, At
<1>11. CASE UNCHANGED vars
  BY <1>11 DEF vars, Connected, At
<1> QED
  BY <1>1, <1>2, <1>3, <1>4, <1>6, <1>7, <1>8, <1>9, <1>10, <1>11 DEF Next, Handle

(* What the contract sees of a handler. *)
LEMMA AnswerOf ==
  ASSUME NEW h \in Handler
  PROVE  /\ h.step = "unsent" => Answer(h) = "unsent"
         /\ h.step \in {"reading", "publishing"} => Answer(h) = "pending"
         /\ h.step = "dropped" => Answer(h) = "dropped"
         /\ h.step = "answered" /\ h.status = "accepted" => Answer(h) = "accepted"
         /\ h.step = "answered" /\ h.status # "accepted" => Answer(h) = "refused"
BY DEF Answer, Handler

LEMMA SameAnswers ==
  ASSUME UNCHANGED <<serving, publisher, buffer, published, handler>>
  PROVE  UNCHANGED Abstract!contract
BY DEF Abstract!contract, Answers

(* One delivery gets a step further, and no message is made. *)
LEMMA OneMoves ==
  ASSUME TypeOK, NEW d \in Delivery, NEW h \in Handler,
         handler' = [handler EXCEPT ![d] = h],
         UNCHANGED <<serving, publisher, buffer, published>>,
         serving,
         \/ handler[d].step = "unsent" /\ h.step \in {"reading", "publishing", "answered"}
         \/ /\ handler[d].step \in {"reading", "publishing"}
            /\ h.step \in {"publishing", "answered", "dropped"}
  PROVE  [Abstract!Next]_(Abstract!contract)
<1>1. handler[d] \in Handler
  BY DEF TypeOK
<1>2. Answers' = [Answers EXCEPT ![d] = Answer(h)] /\ Answers'[d] = Answer(h)
      /\ Answers[d] = Answer(handler[d])
  BY DEF Answers, TypeOK
<1>3. CASE /\ handler[d].step \in {"reading", "publishing"}
           /\ h.step = "publishing"
  <2>1. Answer(h) = Answers[d]
    BY <1>1, <1>2, <1>3, AnswerOf
  <2>2. Answers' = Answers
    BY <1>2, <2>1 DEF Answers
  <2> QED
    BY <2>2 DEF Abstract!contract
<1>4. CASE ~(/\ handler[d].step \in {"reading", "publishing"}
             /\ h.step = "publishing")
  <2>1. \/ Answers[d] = "unsent" /\ Answer(h) \in {"pending", "accepted", "refused"}
        \/ Answers[d] = "pending" /\ Answer(h) \in {"accepted", "refused", "dropped"}
    BY <1>1, <1>2, <1>4, AnswerOf
  <2>2. Abstract!Move(d)
    BY <1>2, <2>1 DEF Abstract!Move
  <2> QED
    BY <2>2 DEF Abstract!Next
<1> QED
  BY <1>3, <1>4

LEMMA InitDeliveries == Init => Abstract!Init
<1> SUFFICES ASSUME Init PROVE Abstract!Init
  OBVIOUS
<1>1. Answers = [d \in Delivery |-> "unsent"]
  BY UnsentTyped, AnswerOf DEF Init, Answers
<1> QED
  BY <1>1 DEF Init, Abstract!Init, NoPublisher

LEMMA ValidatedEnds ==
  ASSUME NEW h \in Handler
  PROVE  Validated(h).step \in {"publishing", "answered"}
BY ValidatedTyped

LEMMA ReceivedEnds ==
  ASSUME NEW app \in App, NEW signature \in Signature
  PROVE  Received(app, signature).step \in {"reading", "publishing", "answered"}
<1> DEFINE h == Arrived(app, signature)
<1>1. h \in Handler /\ [h EXCEPT !.step = "reading"].step = "reading"
  BY ArrivedTyped DEF Handler
<1> QED
  BY <1>1, AnsweredTyped, ValidatedEnds DEF Received

LEMMA JudgedEnds ==
  ASSUME NEW h \in Handler, NEW secret \in Content
  PROVE  Judged(h, secret).step \in {"publishing", "answered"}
BY AnsweredTyped, ValidatedEnds DEF Judged

LEMMA NextDeliveries ==
  TypeOK /\ Connected /\ Bridged /\ [Next]_vars => [Abstract!Next]_(Abstract!contract)
<1> SUFFICES ASSUME TypeOK, Connected, Bridged, [Next]_vars
             PROVE  [Abstract!Next]_(Abstract!contract)
  OBVIOUS
<1> USE DEF rotating
<1>0. \A d \in Delivery : handler[d] \in Handler
  BY DEF TypeOK
<1>1. CASE Start
  <2>1. publisher'.state \in {"none", "up"} /\ Answers' = Answers
    BY <1>1 DEF Start, Publisher, NoPublisher, Answers
  <2>2. Abstract!Begin
    BY <1>1, <2>1 DEF Start, Abstract!Begin
  <2> QED
    BY <2>2 DEF Abstract!Next
<1>2. CASE Stop
  <2>1. ASSUME NEW d \in Delivery
        PROVE  Answer(handler'[d]) =
                 IF Answer(handler[d]) = "pending" THEN "dropped" ELSE Answer(handler[d])
    <3>1. handler'[d] = IF AtWork(d) THEN [handler[d] EXCEPT !.step = "dropped"]
                                     ELSE handler[d]
      BY <1>2 DEF Stop
    <3>2. CASE AtWork(d)
      <4>1. handler'[d] \in Handler /\ handler'[d].step = "dropped"
        BY <1>0, <3>1, <3>2 DEF Handler
      <4>2. Answer(handler[d]) = "pending" /\ Answer(handler'[d]) = "dropped"
        BY <1>0, <3>2, <4>1, AnswerOf DEF AtWork
      <4> QED
        BY <4>2
    <3>3. CASE ~AtWork(d)
      <4>1. Answer(handler[d]) # "pending"
        BY <1>0, <3>3, AnswerOf DEF AtWork, Handler
      <4> QED
        BY <3>1, <3>3, <4>1
    <3> QED
      BY <3>2, <3>3
  <2>2. Answers' = [d \in Delivery |-> IF Answers[d] = "pending" THEN "dropped" ELSE Answers[d]]
    BY <2>1 DEF Answers
  <2>3. Abstract!End
    BY <1>2, <2>2 DEF Stop, NoPublisher, Abstract!End
  <2> QED
    BY <2>3 DEF Abstract!Next
<1>3. CASE Deploy \/ Rotate \/ UNCHANGED vars
  BY <1>3, SameAnswers DEF Deploy, Rotate, WriteSecret, DemandToken, WriteToken, vars
<1>4. CASE Disconnect
  <2>1. publisher'.state = "down" /\ Answers' = Answers
    BY <1>4 DEF Disconnect, TypeOK, Answers
  <2>2. Abstract!Break
    BY <1>4, <2>1 DEF Disconnect, Abstract!Break
  <2> QED
    BY <2>2 DEF Abstract!Next
<1>5. CASE Reconnect
  <2>1. publisher'.state = "up" /\ Answers' = Answers
    BY <1>5 DEF Reconnect, Publisher, Answers
  <2>2. Abstract!Mend
    BY <1>5, <2>1 DEF Reconnect, Abstract!Mend
  <2> QED
    BY <2>2 DEF Abstract!Next
<1>6. CASE Flush
  <2>1. Answers' = Answers
    BY <1>6 DEF Flush, Answers
  <2>2. Abstract!Pass
    BY <1>6, <2>1 DEF Flush, Abstract!Pass
  <2> QED
    BY <2>2 DEF Abstract!Next
<1>7. ASSUME NEW d \in Delivery, NEW app \in App, NEW signature \in Signature,
             Receive(d, app, signature)
      PROVE  [Abstract!Next]_(Abstract!contract)
  <2> DEFINE h == Received(app, signature)
  <2>1. /\ handler' = [handler EXCEPT ![d] = h] /\ handler[d].step = "unsent" /\ serving
        /\ UNCHANGED <<serving, publisher, buffer, published>>
    BY <1>7 DEF Receive, Received, At
  <2>2. h \in Handler /\ h.step \in {"reading", "publishing", "answered"}
    BY ReceivedTyped, ReceivedEnds
  <2> HIDE DEF h
  <2> QED
    BY <2>1, <2>2, OneMoves
<1>8. ASSUME NEW d \in Delivery, Read(d) PROVE [Abstract!Next]_(Abstract!contract)
  <2> DEFINE h == Judged(handler[d], secret_file[handler[d].app])
  <2>1. /\ handler' = [handler EXCEPT ![d] = h] /\ handler[d].step = "reading"
        /\ UNCHANGED <<serving, publisher, buffer, published>>
    BY <1>8 DEF Read, At
  <2>2. serving
    BY <2>1 DEF Bridged, AtWork
  <2>3. secret_file[handler[d].app] \in Content
    BY <1>0 DEF TypeOK, Handler
  <2>4. h \in Handler /\ h.step \in {"publishing", "answered"}
    BY <1>0, <2>3, JudgedTyped, JudgedEnds
  <2> HIDE DEF h
  <2> QED
    BY <2>1, <2>2, <2>4, OneMoves
<1>9. ASSUME NEW d \in Delivery, Publish(d) PROVE [Abstract!Next]_(Abstract!contract)
  <2> DEFINE h == Acknowledged(handler[d], "queued")
  <2>1. /\ handler' = [handler EXCEPT ![d] = h] /\ At(d, "publishing")
        /\ buffer' = Append(buffer, d)
        /\ UNCHANGED <<serving, publisher, published>>
    BY <1>9 DEF Publish, Acknowledged
  <2>2. serving /\ publisher.state # "none"
    BY <2>1 DEF Bridged, AtWork, Connected, At
  <2>3. h \in Handler /\ h.step = "answered" /\ h.status = "accepted"
    BY <1>0, AcknowledgedTyped
  <2>4. Answer(h) = "accepted" /\ Answer(handler[d]) = "pending"
    BY <1>0, <2>1, <2>3, AnswerOf DEF At
  <2> HIDE DEF h
  <2>5. Answers[d] = "pending" /\ Answers' = [Answers EXCEPT ![d] = "accepted"]
    BY <2>1, <2>4 DEF Answers, TypeOK
  <2>6. Abstract!Hand(d)
    BY <2>1, <2>2, <2>5 DEF Abstract!Hand
  <2> QED
    BY <2>6 DEF Abstract!Next
<1>10. ASSUME NEW d \in Delivery, PublishFails(d) PROVE [Abstract!Next]_(Abstract!contract)
  <2> DEFINE h == Acknowledged(handler[d], "failed")
  <2>1. /\ handler' = [handler EXCEPT ![d] = h] /\ handler[d].step = "publishing"
        /\ UNCHANGED <<serving, publisher, buffer, published>>
    BY <1>10 DEF PublishFails, Acknowledged, At
  <2>2. serving
    BY <2>1 DEF Bridged, AtWork
  <2>3. h \in Handler /\ h.step = "answered"
    BY <1>0, AcknowledgedTyped
  <2> HIDE DEF h
  <2> QED
    BY <2>1, <2>2, <2>3, OneMoves
<1>11. ASSUME NEW d \in Delivery, Abandon(d) PROVE [Abstract!Next]_(Abstract!contract)
  <2> DEFINE h == [handler[d] EXCEPT !.step = "dropped"]
  <2>1. /\ handler' = [handler EXCEPT ![d] = h]
        /\ handler[d].step \in {"reading", "publishing"}
        /\ UNCHANGED <<serving, publisher, buffer, published>>
    BY <1>11 DEF Abandon, AtWork
  <2>2. serving
    BY <2>1 DEF Bridged, AtWork
  <2>3. h \in Handler /\ h.step = "dropped"
    BY <1>0, DroppedTyped DEF Handler
  <2> HIDE DEF h
  <2> QED
    BY <2>1, <2>2, <2>3, OneMoves
<1> QED
  BY <1>1, <1>2, <1>3, <1>4, <1>5, <1>6, <1>7, <1>8, <1>9, <1>10, <1>11 DEF Next, Handle

(* The bridge keeps its contract: a delivery is answered for good, and becomes a
   message, if at all, when it is acknowledged; messages reach NATS at most once
   and in that order, and are lost only with a connection or with the process. *)
THEOREM DeliveriesImplemented == Spec => ImplementsDeliveries
<1>1. TypeOK /\ Connected /\ Bridged /\ [Next]_vars => [Abstract!Next]_(Abstract!contract)
  BY NextDeliveries
<1> QED
  BY <1>1, InitDeliveries, InitTyped, NextTyped, InitBridged, NextBridged, InitConnected,
     NextConnected, PTL
     DEF Spec, ImplementsDeliveries, Abstract!Spec

=============================================================================
