SPECIFICATION FairSpec
CONSTANTS
  a = a
  b = b
  c = c
  None = None
  Callers <- MCCallers
INVARIANTS
  TypeOK
  OneRegistry
  OneDiscovery
  SameOutcome
PROPERTY NobodyWaitsForEver
