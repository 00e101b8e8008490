SPECIFICATION Spec
CONSTANTS
  root = root
  sub = sub
  v1 = v1
  v2 = v2
  a = a
  b = b
  Root = root
  List = List
  Free = Free
  NoDir = NoDir
  None = None
  Forced = TRUE
  MaxFaults = 0
  MaxReadErrors = 0
  Files <- MCFiles
  Contents <- MCContents
  FilesOf <- MCFilesOf
  Callers <- MCCallers
INVARIANT AvailableOnDisk
