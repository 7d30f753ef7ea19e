---------------------------- MODULE WebhookBridge ----------------------------
(***************************************************************************)
(* The webhook route of idcat: a delivery of GitHub is validated against a *)
(* secret file (src/src/webhook.rs), published to NATS (src/src/nats.rs)   *)
(* and acknowledged (webhook in src/src/main.rs).                          *)
(*                                                                         *)
(* A handler awaits the file and the room in the buffer of the NATS        *)
(* client; the rest runs at once.  GitHub, the operator who rotates        *)
(* secrets, and NATS with its client are the environment.                  *)
(***************************************************************************)
EXTENDS Sequences, Naturals

CONSTANTS
  App,          \* names in webhook URLs
  Delivery,     \* requests from GitHub, redeliveries counted apart
  Secret,       \* webhook secrets
  NoSignature,  \* the App has no webhook secret at GitHub
  Empty,        \* nothing but whitespace in the file
  Missing,      \* the file cannot be read
  NatsToken,    \* tokens NATS may ask for
  Config,       \* the configuration files that may be deployed
  Capacity      \* messages the NATS client buffers

(* What configuration says of webhooks: the Apps, those with a
   webhook-validation-secret-file, those with webhook-target = "nats", and
   whether there is a [nats] block (one with a token-path). *)
WebhookConfig ==
  [apps : SUBSET App, validated : SUBSET App, bridged : SUBSET App, nats : BOOLEAN]

ASSUME BridgeAssumption ==
  /\ Config \subseteq WebhookConfig
  /\ \A c \in Config : c.validated \cup c.bridged \subseteq c.apps
  /\ App # {} /\ NoSignature \notin Secret
  /\ {Empty, Missing} \cap (Secret \cup NatsToken) = {}
  /\ Empty # Missing
  /\ Capacity \in Nat \ {0}

VARIABLES
  config,       \* the configuration file
  serving,      \* idcat is up
  secret_file,  \* the webhook-validation-secret-file of each App
  nats_token,   \* NATS: the token it asks for
  token_file,   \* the file at token-path
  publisher,    \* webhook_publisher: its connection, and the token that made it
  buffer,       \* what publish has handed over and NATS has not got
  published,    \* what NATS has got
  handler,      \* each delivery and where its handler stands
  window        \* history: what the secret file held from the arrival of a delivery
                \* that is validated to its answer

vars == <<config, serving, secret_file, nats_token, token_file, publisher,
          buffer, published, handler, window>>

rotating == <<secret_file, nats_token, token_file>>

(* The Apps that have a secret file. *)
Filed == UNION {c.validated : c \in Config}

Content == Secret \cup {Empty, Missing}
TokenContent == NatsToken \cup {Missing}
Signature == Secret \cup {NoSignature}

NoPublisher == [state |-> "none", token |-> Missing]

Publisher(state, token) == [state |-> state, token |-> token]

Handler ==
  [step : {"unsent", "reading", "publishing", "answered", "dropped"},
   app : App, signature : Signature,
   status : {"none", "accepted", "unauthorized", "not_found", "internal"},
   outcome : {"none", "queued", "failed"}]

Unsent ==
  [step |-> "unsent", app |-> CHOOSE app \in App : TRUE, signature |-> NoSignature,
   status |-> "none", outcome |-> "none"]

Init ==
  /\ config \in Config
  /\ serving = FALSE
  /\ secret_file = [app \in App |-> Missing]
  /\ nats_token \in NatsToken
  /\ token_file \in TokenContent
  /\ publisher = NoPublisher
  /\ buffer = <<>>
  /\ published = <<>>
  /\ handler = [d \in Delivery |-> Unsent]
  /\ window = [d \in Delivery |-> {}]

-----------------------------------------------------------------------------
(* The process and its connection to NATS. *)

(* Mutant of Valid: nothing asks for the [nats] block. *)
ValidWithoutNats(c) == c.apps # {}

(* The part of Config::validate about webhooks; --disable-auth changes none of it. *)
Valid(c) ==
  /\ c.apps # {}
  /\ c.bridged # {} => c.nats

(* The auth callback reads the token anew for each connection: an empty file is
   an error like a missing one, and a token NATS does not want is refused by NATS. *)
TokenAccepted == token_file = nats_token

(* build_app_state connects only if some App is bridged, and a first connection
   that fails ends the process. *)
Start ==
  /\ ~serving
  /\ Valid(config)
  /\ IF config.bridged # {} /\ config.nats
       THEN TokenAccepted /\ publisher' = Publisher("up", token_file)
       ELSE publisher' = NoPublisher
  /\ serving' = TRUE
  /\ UNCHANGED <<config, rotating, buffer, published, handler, window>>

AtWork(d) == handler[d].step \in {"reading", "publishing"}

(* Termination drops the handlers, and the NATS client with what it buffers. *)
Stop ==
  /\ serving
  /\ serving' = FALSE
  /\ publisher' = NoPublisher
  /\ buffer' = <<>>
  /\ handler' = [d \in Delivery |->
       IF AtWork(d) THEN [handler[d] EXCEPT !.step = "dropped"] ELSE handler[d]]
  /\ UNCHANGED <<config, rotating, published, window>>

Deploy ==
  /\ ~serving
  /\ config' \in Config
  /\ UNCHANGED <<serving, rotating, publisher, buffer, published, handler, window>>

(* The NATS client reconnects by itself until it succeeds.  Messages it had
   written to the old connection are lost. *)
Disconnect ==
  /\ publisher.state = "up"
  /\ publisher' = [publisher EXCEPT !.state = "down"]
  /\ \E n \in 0 .. Len(buffer) : buffer' = SubSeq(buffer, n + 1, Len(buffer))
  /\ UNCHANGED <<config, serving, rotating, published, handler, window>>

(* Mutant of Reconnect: the token is read at the start only. *)
ReconnectSameToken ==
  /\ publisher.state = "down"
  /\ publisher.token = nats_token
  /\ publisher' = [publisher EXCEPT !.state = "up"]
  /\ UNCHANGED <<config, serving, rotating, buffer, published, handler, window>>

(* Mutant of Reconnect: each connection has a client of its own, with a buffer of
   its own. *)
ReconnectEmpty ==
  /\ publisher.state = "down"
  /\ TokenAccepted
  /\ publisher' = Publisher("up", token_file)
  /\ buffer' = <<>>
  /\ UNCHANGED <<config, serving, rotating, published, handler, window>>

Reconnect ==
  /\ publisher.state = "down"
  /\ TokenAccepted
  /\ publisher' = Publisher("up", token_file)
  /\ UNCHANGED <<config, serving, rotating, buffer, published, handler, window>>

Flush ==
  /\ publisher.state = "up"
  /\ buffer # <<>>
  /\ published' = Append(published, Head(buffer))
  /\ buffer' = Tail(buffer)
  /\ UNCHANGED <<config, serving, rotating, publisher, handler, window>>

-----------------------------------------------------------------------------
(* A delivery. *)

At(d, step) == handler[d].step = step

Answered(h, status) == [h EXCEPT !.step = "answered", !.status = status]

(* Past the validation: on to NATS, or logged and acknowledged. *)
Validated(h) ==
  IF h.app \in config.bridged /\ publisher # NoPublisher
    THEN [h EXCEPT !.step = "publishing"]
    ELSE Answered(h, "accepted")

Arrived(app, signature) == [Unsent EXCEPT !.app = app, !.signature = signature]

(* GitHub signs with the secret it has at the time. *)
Receive(d, app, signature) ==
  LET h == Arrived(app, signature) IN
  /\ serving
  /\ At(d, "unsent")
  /\ handler' = [handler EXCEPT ![d] =
       IF app \notin config.apps THEN Answered(h, "not_found")
       ELSE IF app \in config.validated THEN [h EXCEPT !.step = "reading"]
       ELSE Validated(h)]
  /\ window' = [window EXCEPT ![d] =
       IF app \in config.validated THEN {secret_file[app]} ELSE {}]
  /\ UNCHANGED <<config, serving, rotating, publisher, buffer, published>>

(* Mutants of Judged: an empty secret stands for no validation; a mismatch is
   taken for a fault of the server. *)
JudgedEmptyAllows(h, secret) ==
  IF secret = Missing THEN Answered(h, "internal")
  ELSE IF secret = Empty \/ h.signature = secret THEN Validated(h)
  ELSE Answered(h, "unauthorized")

JudgedMismatchFails(h, secret) ==
  IF h.signature = secret THEN Validated(h) ELSE Answered(h, "internal")

(* validate_delivery, when the file has been read. *)
Judged(h, secret) ==
  IF secret \in {Missing, Empty} THEN Answered(h, "internal")
  ELSE IF h.signature = secret THEN Validated(h)
  ELSE Answered(h, "unauthorized")

(* Mutant of Read: a secret file that is not there yet is waited for. *)
ReadRetrying(d) ==
  /\ At(d, "reading")
  /\ secret_file[handler[d].app] # Missing
  /\ handler' = [handler EXCEPT ![d] = Judged(@, secret_file[@.app])]
  /\ UNCHANGED <<config, serving, rotating, publisher, buffer, published, window>>

Read(d) ==
  /\ At(d, "reading")
  /\ handler' = [handler EXCEPT ![d] = Judged(@, secret_file[@.app])]
  /\ UNCHANGED <<config, serving, rotating, publisher, buffer, published, window>>

(* Mutant of Publish: acknowledged and published once more. *)
PublishTwice(d) ==
  /\ At(d, "publishing")
  /\ Len(buffer) < Capacity
  /\ buffer' = Append(buffer, d)
  /\ \/ handler' = [handler EXCEPT ![d] = [Answered(@, "accepted") EXCEPT !.outcome = "queued"]]
     \/ UNCHANGED handler
  /\ UNCHANGED <<config, serving, rotating, publisher, published, window>>

(* Mutant of Publish: there is no waiting for room. *)
PublishUnbounded(d) ==
  /\ At(d, "publishing")
  /\ buffer' = Append(buffer, d)
  /\ handler' = [handler EXCEPT ![d] =
       [Answered(@, "accepted") EXCEPT !.outcome = "queued"]]
  /\ UNCHANGED <<config, serving, rotating, publisher, published, window>>

(* publish returns when the message is in the buffer; the delivery is
   acknowledged. *)
Publish(d) ==
  /\ At(d, "publishing")
  /\ Len(buffer) < Capacity
  /\ buffer' = Append(buffer, d)
  /\ handler' = [handler EXCEPT ![d] =
       [Answered(@, "accepted") EXCEPT !.outcome = "queued"]]
  /\ UNCHANGED <<config, serving, rotating, publisher, published, window>>

(* An error of publish is logged, and the delivery is acknowledged. *)
PublishFails(d) ==
  /\ At(d, "publishing")
  /\ handler' = [handler EXCEPT ![d] =
       [Answered(@, "accepted") EXCEPT !.outcome = "failed"]]
  /\ UNCHANGED <<config, serving, rotating, publisher, buffer, published, window>>

(* GitHub gives up waiting, and the server drops the handler. *)
Abandon(d) ==
  /\ AtWork(d)
  /\ handler' = [handler EXCEPT ![d].step = "dropped"]
  /\ UNCHANGED <<config, serving, rotating, publisher, buffer, published, window>>

-----------------------------------------------------------------------------
(* Secrets and tokens are rotated, at each end on its own. *)

WriteSecret(app, content) ==
  /\ secret_file' = [secret_file EXCEPT ![app] = content]
  /\ window' = [d \in Delivery |->
       IF At(d, "reading") /\ handler[d].app = app
         THEN window[d] \cup {content}
         ELSE window[d]]
  /\ UNCHANGED <<config, serving, nats_token, token_file, publisher,
                 buffer, published, handler>>

DemandToken(token) ==
  /\ nats_token' = token
  /\ UNCHANGED <<config, serving, secret_file, token_file, publisher,
                 buffer, published, handler, window>>

WriteToken(content) ==
  /\ token_file' = content
  /\ UNCHANGED <<config, serving, secret_file, nats_token, publisher,
                 buffer, published, handler, window>>

-----------------------------------------------------------------------------
Handle(d) ==
  \/ \E app \in App, signature \in Signature : Receive(d, app, signature)
  \/ Read(d) \/ Publish(d) \/ PublishFails(d)
  \/ Abandon(d)

Rotate ==
  \/ \E app \in Filed, content \in Content : WriteSecret(app, content)
  \/ \E token \in NatsToken : DemandToken(token)
  \/ \E content \in TokenContent : WriteToken(content)

Next ==
  \/ \E d \in Delivery : Handle(d)
  \/ Start \/ Stop \/ Deploy
  \/ Disconnect \/ Reconnect \/ Flush
  \/ Rotate

Spec == Init /\ [][Next]_vars

(***************************************************************************)
(* Files are read.  The room in the buffer goes to the handlers waiting    *)
(* for it in turn, a client that is connected again and again gets its     *)
(* messages out, and one that may connect again and again does.            *)
(***************************************************************************)
Fairness ==
  /\ \A d \in Delivery : WF_vars(Read(d)) /\ SF_vars(Publish(d))
  /\ SF_vars(Flush)
  /\ SF_vars(Reconnect)

FairSpec == Spec /\ Fairness

-----------------------------------------------------------------------------
(* PROPERTIES *)

TypeOK ==
  /\ config \in Config
  /\ serving \in BOOLEAN
  /\ secret_file \in [App -> Content]
  /\ nats_token \in NatsToken
  /\ token_file \in TokenContent
  /\ publisher \in [state : {"none", "up", "down"}, token : TokenContent]
  /\ buffer \in Seq(Delivery) /\ Len(buffer) <= Capacity
  /\ published \in Seq(Delivery)
  /\ handler \in [Delivery -> Handler]
  /\ window \in [Delivery -> SUBSET Content]

(* README.md: idcat "rejects deliveries that do not match", by the secret in the
   file: what is acknowledged, or on its way to NATS, of an App with a secret
   file was signed with a secret the file held between arrival and answer. *)
AcceptedAreSigned ==
  \A d \in Delivery :
    /\ window[d] # {}
    /\ At(d, "publishing") \/ handler[d].status = "accepted"
    => handler[d].signature \in window[d] \cap Secret

(* README.md: the secret "can be rotated without restarting idcat": a delivery is
   refused only if, while it was handled, the file held another secret than the
   one it was signed with, and fails only if the file held none. *)
RefusalsHaveCause ==
  \A d \in Delivery :
    /\ handler[d].status = "unauthorized" =>
         \E secret \in window[d] \cap Secret : secret # handler[d].signature
    /\ handler[d].status = "internal" => window[d] \cap {Empty, Missing} # {}

(* NATS gets no delivery twice, and none that was refused or is not answered. *)
Sent == published \o buffer

PublishedOnce ==
  /\ \A i, j \in DOMAIN Sent : Sent[i] = Sent[j] => i = j
  /\ \A i \in DOMAIN Sent : /\ handler[Sent[i]].status = "accepted"
                            /\ handler[Sent[i]].outcome = "queued"

(* A delivery of a bridged App is acknowledged only after publish has had it:
   a configuration without [nats] never makes the bridge drop it silently. *)
AcknowledgedAfterPublish ==
  [][\A d \in Delivery :
       /\ handler[d].status # "accepted"
       /\ handler'[d].status = "accepted"
       /\ handler'[d].app \in config.bridged
       => handler'[d].outcome # "none"]_vars

(* What the contract Deliveries calls the answer to a delivery. *)
Answer(h) ==
  CASE h.step = "unsent" -> "unsent"
    [] h.step \in {"reading", "publishing"} -> "pending"
    [] h.step = "dropped" -> "dropped"
    [] h.step = "answered" /\ h.status = "accepted" -> "accepted"
    [] h.step = "answered" /\ h.status # "accepted" -> "refused"

Answers == [d \in Delivery |-> Answer(handler[d])]

Abstract == INSTANCE Deliveries WITH
  running <- serving,
  link <- publisher.state,
  answer <- Answers,
  transit <- buffer,
  received <- published

(* The bridge implements the contract: messages are lost only with a connection
   or with the process, and else reach NATS once, in the order in which their
   deliveries were acknowledged. *)
ImplementsDeliveries == Abstract!Spec

(* If the connection to NATS comes back whenever it is lost, no delivery waits
   for ever: not for its secret file, and not for room in the buffer. *)
EveryDeliveryEnds ==
  []<>(publisher.state # "down") => \A d \in Delivery : AtWork(d) ~> ~AtWork(d)

(* Once the token file holds, for good, the token NATS asks for, a lost
   connection comes back without a restart, whatever token made the first. *)
ConnectionReturns ==
  <>[]TokenAccepted => []<>(publisher.state # "down")

=============================================================================
