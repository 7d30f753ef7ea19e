\* NATS is away or slow, its token is rotated, and handlers wait for their file or for
\* room. No secret matches: validated deliveries end early, the others go to NATS.
SPECIFICATION FairSpec
CONSTANTS
  deployments = deployments  other = other  d1 = d1  d2 = d2  old = old  new = new
  first = first  second = second
  NoSignature = NoSignature  Empty = Empty  Missing = Missing
  App = {deployments}
  Delivery = {d1, d2}
  Secret = {}
  NatsToken = {first, second}
  Config <- BridgeConfigs
  Capacity = 1
PROPERTIES EveryDeliveryEnds ConnectionReturns ImplementsDeliveries
