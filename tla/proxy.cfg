\* The proxy while the clock moves at every await.
SPECIFICATION FairSpec
CONSTANTS
  a1 = a1  user = user  repo = repo  read = read
  workflow = workflow  operator = operator  github = github  cluster = cluster
  alice = alice  t1 = t1  t2 = t2
  NoToken = NoToken  NoId = NoId  NoBearer = NoBearer
  Account = {user}  Organization = {}  RepoName = {repo}  Permission = {read}
  Role = {workflow, operator}
  Issuer = {github, cluster}
  Value <- MCValue
  Config <- ProxyConfig
  Bearer <- WorkflowBearer
  App = {a1}
  Task = {t1}
  Ttl = 2  Lifetime = 5  JwtTtl = 8  ClockSkew = 1  JwtLimit = 7  Drift = {0}
  MaxDelay = 1  Epoch = 1  MaxTime = 7  MaxChanges = 1
INVARIANT ProxyTokenUnexpired
PROPERTIES ImplementsClient EveryRequestAnswered ImplementsDelegation
