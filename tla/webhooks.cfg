\* Secrets rotated, deliveries racing for the buffer, redeployments, NATS coming
\* and going.
SPECIFICATION Spec
CONSTANTS
  deployments = deployments  other = other  d1 = d1  d2 = d2  old = old  new = new
  first = first  second = second
  NoSignature = NoSignature  Empty = Empty  Missing = Missing
  App = {deployments, other}
  Delivery = {d1, d2}
  Secret = {old, new}
  NatsToken = {first}
  Config <- OneAppConfigs
  Capacity = 1
SYMMETRY BridgeSymmetry
INVARIANTS TypeOK AcceptedAreSigned RefusalsHaveCause PublishedOnce
PROPERTY AcknowledgedAfterPublish
