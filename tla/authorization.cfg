\* Every way to combine a role with one policy, and policies for overlapping
\* targets in either order.
SPECIFICATION Spec
CONSTANTS
  deployments = deployments  unknown = unknown  acme = acme  other = other
  site = site  docs = docs  read = read  write = write
  workflow = workflow  operator = operator  github = github  cluster = cluster
  alice = alice
  App = {deployments, unknown}
  Account = {acme}
  RepoName = {site, docs}
  Permission = {read, write}
  Role = {workflow, operator}
  Issuer = {github, cluster}
  Value <- MCValue
  NoBearer = NoBearer
  Config <- MCConfig
  Bearer <- MCBearer
INVARIANTS TypeOK GrantsAreEntitled FullPermissionsNeedRole ScopeSuitsTarget RefusalsAreDue
  FirstPolicyDecides
