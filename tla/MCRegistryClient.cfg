SPECIFICATION FairSpec
CONSTANTS
  home = home
  away = away
  k1 = k1
  k2 = k2
  k3 = k3
  NoHost = NoHost
  NoURL = NoURL
  Relative = Relative
  MaxRequests = 3
  OwnLimit = 2
  NFiles = 2
  Names <- MCNames
  Ports <- MCPorts
  Keys <- MCKeys
  EnvKey <- MCEnvKey
  Entries <- MCEntries
  Options <- MCOptions
INVARIANTS
  TypeOK
  TokenReachesOwner
  FirstHitWins
PROPERTY LimitedRequestsEnd
