\* Two requests at a time, of callers with different rights, over one cache.
SPECIFICATION Spec
CONSTANTS
  a1 = a1  user = user  repo = repo  read = read
  workflow = workflow  operator = operator  github = github  cluster = cluster
  alice = alice  t1 = t1  t2 = t2
  NoToken = NoToken  NoId = NoId  NoBearer = NoBearer
  Account = {user}  Organization = {}  RepoName = {repo}  Permission = {read}
  Role = {workflow, operator}
  Issuer = {github, cluster}
  Value <- MCValue
  Config <- MCConfig
  Bearer <- MCBearer
  App = {a1}
  Task = {t1, t2}
  Ttl = 1  Lifetime = 1  JwtTtl = 2  ClockSkew = 1  JwtLimit = 2  Drift = {0}
  MaxDelay = 0  Epoch = 1  MaxTime = 1  MaxChanges = 0
SYMMETRY TaskSymmetry
INVARIANTS TypeOK DelegatedTokens
PROPERTY ImplementsAuthorization
