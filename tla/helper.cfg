\* Requests spelled in many ways, while the file and the sources of bearer tokens
\* change.
SPECIFICATION FairSpec
CONSTANTS
  acme = acme  site = site  dotdot = dotdot  deployments = deployments
  oidc_file = oidc_file  oidc_command = oidc_command  old = old  new = new
  Name = {acme, site, dotdot, deployments}
  Dots = {dotdot}
  Source = {oidc_file, oidc_command}
  Bearer = {old, new}
  Broken = Broken  Hanging = Hanging  Nothing = Nothing
  ConfigFile <- Files
  Request <- Requests
INVARIANTS TypeOK RightRepository RightBearer OthersAreIgnored SilenceIsIntended
PROPERTY EveryRunEnds
CHECK_DEADLOCK FALSE
