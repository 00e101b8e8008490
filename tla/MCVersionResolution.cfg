SPECIFICATION Spec
CONSTANTS
  v100 = v100
  v100build = v100build
  v200rc = v200rc
  Junk = Junk
  MaxEntries = 4
  Versions <- MCVersions
  Precedence <- MCPrecedence
  Prerelease <- MCPrerelease
INVARIANTS
  TypeOK
  HighestMatch
  NoMatchIsTrue
  NeverGoesBack
