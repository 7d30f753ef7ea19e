\* The clock moves during calls; GitHub's clock wanders about idcat's.
SPECIFICATION Spec
CONSTANTS
  a1 = a1  a2 = a2  org = org  user = user  repo = repo  other = other
  read = read  write = write  r1 = r1  r2 = r2
  NoToken = NoToken  NoId = NoId
  App = {a1}
  Account = {user}
  Organization = {}
  RepoName = {repo}
  Permission = {read}
  Request = {r1, r2}
  Wanted <- OwnerWanted
  Ttl = 2  Lifetime = 4  JwtTtl = 9  ClockSkew = 1  JwtLimit = 9  Drift <- Wandering
  MaxDelay = 1  Epoch = 1  MaxTime = 9  MaxChanges = 1
SYMMETRY RequestSymmetry
INVARIANTS CachedTokenUnexpired ServedTokenUnexpired JwtAcceptedInFlight
