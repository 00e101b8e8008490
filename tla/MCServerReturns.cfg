SPECIFICATION FairSpec
CONSTANTS
  root = root
  sub = sub
  v1 = v1
  v2 = v2
  a = a
  b = b
  Root = root
  List = List
  Free = Free
  NoDir = NoDir
  None = None
  Forced = FALSE
  MaxFaults = 1
  MaxReadErrors = 1
  Files = {root}
  Contents <- MCContents
  FilesOf <- MCRootOf
  Callers <- MCCallers
INVARIANT OwnDownload
PROPERTY CallsReturn
