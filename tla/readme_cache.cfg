\* README.md: installation tokens are cached "per GitHub app and repo".
SPECIFICATION Spec
CONSTANTS
  a1 = a1  a2 = a2  org = org  user = user  repo = repo  other = other
  read = read  write = write  r1 = r1  r2 = r2
  NoToken = NoToken  NoId = NoId
  App = {a1, a2}
  Account = {org}
  Organization = {org}
  RepoName = {repo}
  Permission = {read, write}
  Request = {r1, r2}
  Wanted <- ScopesWanted
  Ttl = 1  Lifetime = 1  JwtTtl = 2  ClockSkew = 1  JwtLimit = 2  Drift = {0}
  MaxDelay = 0  Epoch = 1  MaxTime = 2  MaxChanges = 1
SYMMETRY RequestSymmetry
INVARIANT OneTokenPerAppAndRepo
