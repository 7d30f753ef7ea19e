--------------------------- MODULE MCWebhookBridge ---------------------------
(* Small instances of WebhookBridge for TLC. *)
EXTENDS WebhookBridge, TLC

CONSTANTS deployments, other, d1, d2, old, new, first, second

(* Every way to configure one App; the other one is unknown. *)
OneAppConfigs ==
  {[apps |-> {deployments}, validated |-> validated, bridged |-> bridged, nats |-> nats] :
     validated, bridged \in SUBSET {deployments}, nats \in BOOLEAN}

(* One App on the bridge, with a secret file or without one. *)
BridgeConfigs == {c \in OneAppConfigs : c.bridged # {} /\ c.nats}

BridgeSymmetry == Permutations(Delivery) \cup Permutations(Secret)
=============================================================================
