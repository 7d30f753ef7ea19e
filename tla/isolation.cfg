\* Keys that differ in one respect each, with the organization lookup that falls
\* back to the user lookup; the clock stands still.
SPECIFICATION Spec
CONSTANTS
  a1 = a1  a2 = a2  org = org  user = user  repo = repo  other = other
  read = read  write = write  r1 = r1  r2 = r2
  NoToken = NoToken  NoId = NoId
  App = {a1, a2}
  Account = {org, user}
  Organization = {org}
  RepoName = {repo, other}
  Permission = {read, write}
  Request = {r1, r2}
  Wanted <- IsolationWanted
  Ttl = 1  Lifetime = 1  JwtTtl = 2  ClockSkew = 1  JwtLimit = 2  Drift = {0}
  MaxDelay = 0  Epoch = 1  MaxTime = 1  MaxChanges = 1
SYMMETRY RequestSymmetry
INVARIANTS TypeOK IdsBelong Isolation
PROPERTY ImplementsInstallationTokens
