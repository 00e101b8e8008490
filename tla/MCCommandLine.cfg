SPECIFICATION Spec
CONSTANTS
  t1 = t1
  t2 = t2
  Unset = Unset
  None = None
  Empty = ""
  Default = "default"
  MaxCached = 1
  MaxCalls = 1
  Trees = {t1, t2}
  Strings <- MCStrings
  Dots <- MCDots
  TrimSpace <- MCTrimSpace
  ToLower <- MCToLower
  Underscored <- MCUnderscored
  Digest <- MCDigest
  Given <- MCGiven
  Shape <- MCShape
  Components <- MCComponents
  DotDotNames <- MCDotDotNames
  Flags <- MCFlags
  Inputs <- MCInputs
  EndpointKey <- MCEndpointKey
  Forbidden <- MCForbidden
  Concrete <- MCConcrete
  Published <- MCPublished
  Base <- MCBase
INVARIANTS
  CommandTypeOK
  NeverPanics
  TokenNotDropped
  ValidationSuffices
  RightModule
  Contained
  LocalIsFresh
